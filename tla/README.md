# Presslint in TLA+

Presslint reads PDF files, makes an inventory of what their pages paint, plans
edits on it, and writes edits as incremental revisions:

    PDF bytes -> structure -> page content -> inventory -> selectors -> plan -> revision

It is a sequential library: no threads, no shared state, nothing persisted
between calls. What makes it hard is its input. Every structure it follows
(`/Prev`, `/Kids`, form invocations, object streams) is a graph that the file
controls, walked under limits, where anything unusable must become a reported
skip, and where facts established on one reading of the file are used to rewrite
it. The models are about those loops and about sequences of calls on the files
that earlier calls wrote.

## Inventory

| Component | State | Operations | Interacts with | Correct when |
|---|---|---|---|---|
| Classic xref chain (`classic_xref_chain.rs`, `xref_resolve.rs`) | sections followed, visited offsets, merged entry map | open a section, merge it, follow `/Prev`, stop | document access, writer | the map is newest-wins over exactly the file's chain; every `/Prev` graph ends the loop |
| Document access (`document_access.rs`) | the chosen backend | open: xref, catalog, page-tree root, leaves | all readers | the backend answers as the file defines |
| Incremental writer (`write/writer.rs`) | the output buffer | append a revision | chain, document access | exactly the dirty objects change, under the references they had; `/Size` covers the chain; the output opens |
| Leaf enumeration (`page_tree_leaves.rs`) | visited nodes, node count, leaves, skips, truncation mark | walk `/Kids` | document access, box inspection | bounded, in document order, nothing dropped |
| Page-box inspection (`pdf/page_boxes.rs`) | visited nodes, inherited boxes, page counter | walk `/Kids` again | leaf enumeration, box writer | nearest ancestor wins; indexes are the leaf enumeration's |
| Page-box writer (`write/page_boxes.rs`) | planned edits and skips | validate, inspect, plan each page, append | inspection, incremental writer | only proven-private leaves are rewritten, and only their boxes |
| Page content (`page_content.rs`) | joined bytes, byte budget | decode, join | form expansion | a page is joined whole, within the bound, or reported |
| Graphics walker (`inventory/walker.rs`) | current state, stack of saved states | one per operator | inventory | `q`/`Q` restore; each event carries the state it was painted in |
| Object inventory (`inventory/inventory.rs`, `digest.rs`) | sequence counter, entries | one entry per painting operator | walker, selectors, forms | one entry per paint, with the source of its colours; a stream whole or not at all |
| Form expansion (`form_inventory.rs`) | active forms, expansion budget, entries, skips | expand a `Do` | object inventory, resources | ends on cycles, within depth and budget; every invocation expanded or recorded |
| Document inventory (`document_inventory.rs`) | entries, skips | one page after the other | page content, form expansion | every page inventoried or skipped |
| Selectors and planner (`selectors`, `actions`) | the plan under construction | match, plan each step | object inventory | plans answer what was selected, and nothing else; a patch names the operator that sets its target's colour |
| Xref streams (`xref_stream*.rs`, `xref_chain.rs`) | sections followed, claimed numbers, merged records | decode, merge, follow `/Prev` | document access | lookups answer as if the revisions were applied in order; every `/Prev` graph ends the loop |
| Object streams and resolution (`object_stream_objects.rs`, `object_lookup.rs`, `object_resolver.rs`) | none | locate, extract a member | document access | what resolves is the object asked for; members do not overlap |
| Content-stream location and decoding (`page_contents.rs`, `content_stream_*`, `decode_parms.rs`, `stream_decode.rs`) | a buffer that the predictor is reversed in | find the extent, read filter and parameters, inflate, reverse the predictor | page content | what a writer encoded as the standards say reads back; no byte is overwritten before it was read |
| Resources (`page_xobject_resources.rs`, `page_resource_inheritance.rs`) | visited nodes, inherited resources, reports | walk `/Kids` once more | document inventory, form expansion | nearest resources win; ordinals are the leaf walk's |
| Audit and preflight (`pdf_inventory.rs`, `color_audit.rs`, `preflight.rs`) | inventory, pages, a cursor into the entries, findings and gaps | build the inventory, scan it page by page | leaf enumeration, resources, content location | each entry counted on its page; a verdict covers all of the document |
| Colour policies (`presslint-color`) | what a resolver has found so far | resolve a plan, derive its cache key | preflight | a decision answers all that was observed; two requests share a key exactly if they mean one transform |
| Content syntax (`presslint-syntax`) | a cursor, pending operands, open composites | tokenize, assemble, serialize | inventory | tokens lie end to end; records account for every token |
| Query facade (`pdf_query.rs`) | none | filter the entries of an inventory | selectors | a match names its entry and page |

Hard behaviours, by kind: cyclic and shared graphs under several limits at once;
two walks of the same tree whose results are used together; byte-range edits at
offsets of the original; an ownership proof that can miss a use; a call that
fails after part of its work; calls repeated on files that earlier calls wrote.
`PROJECT.json` lists each at its line.

## Modules

| Module | Models | State and actions |
|---|---|---|
| `ClassicXrefChain` | `build_classic_xref_chain` | a file is a sequence of chunks (objects, tables, junk) and a `startxref`; an offset is a chunk position. `StartChain`, `FollowSection`, `RejectSection`, `FinishChain`: one step per section |
| `IncrementalWriter` | `inspect_document_access` (classic part) and `write_incremental_revision` | open calls and write calls in any order on one growing file, with every rejection of both |
| `RevisionStore` | what the writer promises | the bodies of all objects; a revision is refused or replaces exactly its objects |
| `PageTree` | what resolving and classifying a tree object reports | the variable `tree`, and readers of a dictionary given as tokens |
| `PageTreeLeaves` | `LeafWalk` | one step per `/Kids` entry, with the recursion as a stack of frames |
| `PageBoxWalk` | `PageBoxWalk` | one step per `/Kids` entry; frames carry the inherited boxes |
| `DocumentPages` | `inspect_document_page_boxes` | opening enumerates the leaves, then the box walk runs |
| `PageResourceWalk` | `XObjectResourceWalk` | one step per `/Kids` entry; frames carry the inherited `/Resources` and the skips so far |
| `PdfInventory` | `build_pdf_inventory` behind an opened document | `LocateContent` is `PageTreeLeaves` again, over the tree as file offsets reach it; `InspectResources`; one step per page, `InventoryPage` or `SkipPage` |
| `ColorAudit` | `inspect_document_page_boxes`, or `audit_color_usage` and then `check_no_rgb_in_print` | the above; `AuditPage` and `CheckPage`, one step per page of each scan |
| `SetPageBoxes` | `set_page_boxes_incremental` | `Call`, the inspection above, one planning step per edit, `Write` or a failure |
| `PageContent` | `decode_content`, `page_content_bytes` and the reading of a form's stream | `JoinStream`: one step per content stream |
| `FormExpansion` | `build_page_inventory_with_forms` | `EmitEntry`, `RefuseExpansion`, `SkipUnreadableForm`, `DescendIntoForm`, `ReturnFromForm`; the recursion as a stack of calls |
| `DocumentInventory` | `build_classic_pdf_inventory` behind an opened document | `StartPage`, the two modules above, `FinishPage`, `SkipPage` |
| `GraphicsWalker` | `GraphicsStateWalker` | current and saved states; `ChangeState` per operator record, `WalkFails` |
| `ContentInventory` | `build_inventory` | `StepWithoutEntry`, `StepObserving`, `FailCall`, `FinishCall`, over a sequence of calls |
| `RecipePlan` | `plan_recipe` and the selectors | `BeginStep`, `PassOver`, `SkipTarget`, `TakeTarget` |
| `StreamFile` | a PDF of cross-reference and object streams | no variables. Chunks; what decoding one section reports |
| `XrefStreamChain` | the spines of `inspect_document_access` over xref streams, and `build_xref_stream_chain` | `RejectSpine`, `UseSection`, `StartChain`, `FollowSection`, `RejectSection`, `FinishChain` |
| `StreamDocument` | lookup and resolution, object-stream members | `Open`, the above, `ResolveCatalog`, then `ResolveObject` in any order |
| `PdfBytes` | the byte classes of the syntax, and the arithmetic of the PNG row filters | no variables; decimal numbers saturate or overflow at `UsizeMax`, filters work on eight bits |
| `StreamExtent` | `content_stream_extent.rs`, `content_stream_filter.rs`, `decode_parms.rs` | no variables. A stream object is its entries and the cells behind its dictionary; a key has as many values as the dictionary has entries of it |
| `PredictorReversal` | `reverse_predictor` with its PNG and TIFF branches | `Begin`, then one byte or component a step: `OpenRow`, `PngByte`, `RejectFilter`, `CloseRow`, `TiffComponent`, ... |
| `PngPromise` | what reversing a PNG predictor promises | the output apart from its source |
| `ContentStreams` | `page_content_bytes` and `decode_content` over stream objects | `LocateStream`, `JoinRaw`, `Inflate`, `RefuseStream`, the reversal, `JoinDecoded` |
| `ContentTokens` | `tokenize`, `serialize_tokens_unmodified` | `CutToken` and its error cases, one token a step; literal strings byte by byte |
| `ContentAssembly` | `assemble_operators` | one token a step: operands, composites, trivia, operators |
| `ContentReading` | the three above as one pipeline | `ReadStreams`, `StartTokens`, `CutToken`, `StartAssembly`, `GroupToken` |
| `TransformPlan` | `resolve_transform_plan`, `derive_transform_cache_key` | `Submit`, then one observation a step of the link, intent, spot and overprint resolvers, `DeriveKey`; one request after another |
| `MC...` | | small inputs for TLC |
| `ProofFacts`, `IncrementalWriter_proof`, `ContentReading_proof`, `Planners_proof`, `DocumentInventory_proof`, `DocumentPages_proof`, `PageCalls_proof`, `StreamDocument_proof` | | proofs |

Composition: `IncrementalWriter` extends `ClassicXrefChain` and implements `RevisionStore` through an instance.
`SetPageBoxes` extends `DocumentPages`, which extends both walks; both extend
`PageTree` and so share its `tree`. `SetPageBoxes` takes the append to be what
`RevisionStore` says, which is what the `writer` run shows of the writer.
`DocumentInventory` extends `FormExpansion` extends `PageContent`. `RecipePlan`
extends `ContentInventory` extends `GraphicsWalker`; there a sequence of
`build_inventory` calls stands for what form expansion makes of one page.
`StreamDocument` extends `XrefStreamChain` extends `StreamFile`. `ColorAudit`
extends `DocumentPages` and `PdfInventory`, so four walks go over one `tree`: the
enumeration on opening, the box walk, the enumeration of the content pass (an
instance of `PageTreeLeaves`) and the resource walk.
`ContentReading` extends `ContentStreams` (which extends `StreamExtent` and
`PredictorReversal`) and `ContentAssembly` (which extends
`ContentTokens`): each stage has the whole result of the one before.
`PredictorReversal` implements `PngPromise` through an instance. `PageContent` and
`PdfInventory` take from this pipeline only whether a stream is located and decodes.

### Abstractions

- An offset is a chunk position and a table is what its bytes parse to. A table
  whose bytes or trailer do not parse is a `badtable` chunk. White space before a
  section, which would let two offsets name one section, is left out.
- An open is modelled up to the point where the object lookup is ready; the
  catalog and the page tree have their own modules.
- `SetTypeOK` of `SetPageBoxes`, `ReadTypeOK` of `ColorAudit`, and `TypeOK` of
  `DocumentPages`, `DocumentInventory`, `RecipePlan` and `StreamDocument` document the
  shape of the state; no run lists them.
- A page-tree object has a type, the references in its `/Kids`, its `/Parent`,
  and its dictionary as tokens: the page-box keys and values, gaps of white space,
  and one token for everything else. Token positions stand for byte offsets.
- A rectangle is one interval with its corners in the stated order: swapping
  corners, zero area and containment are the same per axis.
- The resolution of a `/Kids` entry is one fact per object. The second resolution
  of an object that the classification already resolved reads the same bytes, so
  the skips for its failure are unreachable and left out.
- `DuplicateKey`, `UnsupportedValueKind` and `MalformedRectangle` are one reason.
- The resource walk and the content pass read objects at file offsets: for them an
  object in an object stream does not resolve (`OffsetTree`). The pages they list
  read again in the same call, so `PageDictionaryFailed` and
  `ResourceInspectionError` cannot occur and are left out. All ways in which a
  `/Resources` or an `/XObject` is unusable are one, and so are all ways in which an
  entry is unclassified.
- In the audit a stream of a page is located and decodes, or is lost; an entry
  paints one colour; the entries of expanded forms are left out (`DocumentInventory`
  has them), and only whether an expansion leaves a skip is kept. A page's summary is
  the entries that it counts. The check runs on the inventory that the audit built:
  a second build reads the same bytes.
- A form operator names the form it paints directly; the pairing of names with
  inventory entries is left out. The sequence counter is a natural: that it
  saturates at `u32::MAX` is left out. A page of one raw stream is not bounded, as
  in the code. The fast path of a page without forms equals the general one.
- Operator records with one effect are grouped; colour components are integers;
  a matrix is the sequence of its factors. An object's identity is its place in
  the inventory: the digest is not modelled. `call` and `stream` in the planner's
  modules record which call made an entry and decide nothing. A selector is the
  sequence of its nodes.
- The body of a cross-reference or object stream is one fact (it inflates to these
  bytes, these cells, or it does not), and the reasons for which one section or one
  extraction is refused are one reason. White space before a section is left out,
  so the visited offsets are the sections pushed. `u64` fields always fit `usize`.
- Behind its dictionary a stream object is a sequence of cells: bytes, and one cell
  for each keyword and for a comment with its line end. An entry of its dictionary is
  a typed value. A number with a sign or a decimal point is `NotDigits`. `UsizeMax`
  and `FieldMax` stand for the widths of the code's integers and are small enough to be
  passed.
- The inflater is external: a packed stream knows the bytes that it inflates to. The
  bound on its output is the code's.
- The text of a page's content is its bytes, and a token is its range in them and its
  kind; the syntax stage has no abstraction beyond the number range above.
- `assemble_operators` nests composite operands by recursion
  (`append_composite_operand`), without a limit in the code. The recursion is the open
  composites of `ContentAssembly`, and exhaustion of the machine stack is outside the model.
- That the bytes of the input come first in the output is the shape of `CommitRevision` and
  so not a property: the code copies a borrowed slice into a new buffer, which a failing
  call drops.
- A colour observation is a record of what the resolvers compare. The `transform` kept
  beside a derived key is what an executor would build: the selected link, or the two
  profiles with the two colour spaces. A profile that is not given is `"none"`.

## Runs

| Run | What it checks | Bounds and why they are enough |
|---|---|---|
| `writer` | opens and appends: the builder follows exactly the document's chain; an open reports the reference entry of each object; `/Size`; an output fails to open, or to be written again by a request without fault, only if its input had as many sections as the limit; untouched numbers keep their entries; a reference, number and generation, leads to an object after a revision exactly if it did before; refinement of `RevisionStore`; every call returns | 38 files with up to three sections over objects 0..4, limits of 3 sections and 4 entries: the section limit is reached and passed, by the input and by appending, and the entry limit by the input (an append names no new number); `/Prev` to itself, in a cycle, past the end, to junk, unreadable |
| `writer_reopen` | violation: an output that the reader does not open | as `writer` |
| `pages` | every walk stays bounded, drops nothing, and means the same page by an index or an ordinal as the others; a page gets the box and the resources of its nearest stating ancestor; audit and check count each entry once, on its page, and agree | 1234 trees over five `/Pages` nodes and two leaves, depth limit 2, node limit 4: each limit is hit alone and together, and a node refused for its depth is met again higher up; self-loops, longer cycles, shared nodes and leaves, unreadable `/Kids`; every mix of absent, stated, malformed and compressed boxes on a path of three. Two pages with every mix of absent, unusable, empty and repeating resources at three levels, and contents that are missing, empty, lost, or paint each kind of colour: 945 mixes |
| `pages_ancestor` | violation: an unusable ancestor box is passed over silently | as `pages` |
| `audit_complete` | violation: an audit is complete though pages or content were never looked at | as `pages` |
| `set_page_boxes` | after a call the document, inspected again, has the requested boxes and all else is as it was; failing calls write nothing; repeating a call changes nothing | 81 documents, ten requests, two calls: each order of boxes in a leaf, leaves in two slots, a root that is a leaf, each error and skip |
| `set_page_boxes_splice` | violation: two edits with one start | as `set_page_boxes` |
| `set_page_boxes_ownership` | violation: a shared leaf edited in place | as `set_page_boxes` |
| `inventory` | the expansion is bounded, answers every invocation, is complete when the forms are shallow, numbers its entries uniquely; a page is inventoried whole or skipped | one page over every invocation graph of three forms, and two pages over streams that fit the byte bound exactly, by one byte less, or not: cycles, sharing, depth limit and budget are each hit alone and together |
| `planners` | recipes: the walker's state is that of the enclosing saves; a stream is inventoried whole or not; a plan answers exactly the selection; a patch names the operator that set the one colour of its target. Transforms: two requests share a key exactly if they mean one transform; each decision answers all that was observed | every stream of up to four of six operators, longer ones with nested saves, matrices, text modes and errors, and documents with forms, under four recipes that use every selector, predicate, action and refusal. Every pair of requests over short lists of links, intents, spot colours and interactions under every policy; links of one id and different colour spaces, and profiles given or not. The two planners share no state, so `MCPlanners` resolves transforms only beside an empty document and recipe, which leaves their interleavings out |
| `stream_documents` | lookups answer as if the revisions were applied in order; what resolves is the object asked for, in its current version; members do not overlap; opening ends | up to three sections and five entries over numbers 0..5: every `/Prev` graph, freed, reused and duplicated numbers, replaced object streams, damaged members, widths 0 to 2; every outcome of opening and resolving is reached |
| `content` | a stream encoded as the standards say reads back, and a page of such streams within the bound is not skipped; tokens lie end to end and serialize; joining makes no token of two; records account for every token; the in-place predictor implements `PngPromise` | every short text over one byte of each class, alone and joined with another, rows of tokens, nested and ill-nested composites; small images under every PNG filter, TIFF, and bit depths; every form of `/Length`, of filter and of parameters, with the byte bound (40) met and passed, and numbers past `UsizeMax` (4000) |

In `set_page_boxes` the properties except the one shape of `set_page_boxes_splice`
(`Collides`): everything else about the output still has to hold.

`IndexesNameLeaves` leaves out documents the leaf walk cut at its depth or node
limit. There the walks do differ: the leaf walk forgets a node it refused for its
depth and may enter it later by a shorter path, and the box walk, which remembers
it before testing the depth, reports a cycle; and only the leaf walk limits nodes.

`write_incremental_revision` accepts an input whose chain stands at the section limit and
appends to it, and the output then fails to open, though
`crates/presslint-write/JOURNAL.md` says at lines 56 and 129 that output reopens: the run
`writer_reopen`. `ReopenFailsOnlyAtLimit` is the other half, that this is the only way in
which reopening fails. The entry limit is no such way: a revision rewrites only numbers that the
chain has, so appending cannot pass it.

Code and documents part at one place without a run of its own. A boundary of a colour patch
is a page, a scope and a record range, where the scope of a form is its resource name
(`form_inventory.rs:329`): two objects in different forms of one name have equal boundaries.

### Fairness

Each call is a loop in one thread, so a call under way always takes its next step. Two
runs state liveness and assume that and no more: `writer` has weak fairness of the steps
of a call (`Progress`) and none of making calls, and `stream_documents` of opening
(`Open`, `ResolveCatalog`) and none of the callers that resolve objects afterwards. There
the file controls the graph that the loop follows, so that it ends is not plain. The other
runs state no liveness; their walks have invariants that bound them. Deadlock is checked
except in the `set_page_boxes` runs, which stop when their calls are used up; where another
model's run is over, a stuttering step says that the caller has its answer.

## Proofs

A theorem holds for every value of the constants: every file or document, every limit,
request and sequence of calls. Each module below states its inductive invariant, which TLC
first checked on the component's run.

**The writer** (`IncrementalWriter_proof`). `IInv == TypeOK /\ BuilderFollowsDocument`: in
the middle of a build the map is the newest-wins merge of the sections followed so far, and
these are the first sections of the document's chain. It rests on `MergeSectionCorrect`:
merging one older section keeps the map equal to its definition. The safety properties
follow in the steps that end a build. The refinement of `RevisionStore` also needs
`RequestSubmitted`. Its one step of substance is an accepted write: the appended table is in
ascending order, so as many distinct numbers as the request has entries leave no room for a
duplicate (`OrderingCovers`, by cardinality), and the table gives each requested object its
new body. A number that it does not declare keeps its entry (`CommitEntries`) and what lies
at its offset. `ReferencesKeepLeading` adds the generations: an accepted request names the
generation that its number's entry and object header have, and the appended entry and header
repeat it (`CommitKeepsReferences`); the lookups before and after are the chain's, save where
one table is ambiguous (`ViewsOfCommit`). `ReopenFailsOnlyAtLimit` needs `RInv`: of a
document that carries a revision, the newest trailer has neither `/Encrypt` nor `/XRefStm`,
the chain has no section twice, is longer than the limit by at most one, and declares no more
numbers than the map may hold; so reader and builder have no rejection left but that of the
length, and the writer none but that and those of the request.

**Walks over the page tree** (`DocumentPages_proof`). `WalksStayBounded` is
proved of the readers and of the calls of the box writer: the nodes of the open calls are
pairwise different and all remembered (`StackBounded`), and the node count is the number of
remembered nodes. `EveryKidAccounted` needs `KidsInv`: the places of the `/Kids` arrays that
the open and the closed calls have passed are as many as the leaves, the skips and the
expanded nodes but the root together; each step passes one place and adds one of these.
`WalksFollowTree` relates what a walk reported to the paths of the tree, which the module
defines by recursion over depth. `WalksInv`: the paths with an answer are, of each open node,
those through the kids in front of its cursor (`Reached`, `Walked`), one page or skip for
each (`Reported`), and the boxes a frame carries are the nearest ones on the path to its node
(`Carries`, `NearestBox`). Opening a node lengthens the path that is open, closing one
finishes all paths through it; depth is treated by least counterexample.
`IndexesNameLeaves` has no paths to lean on, since it is also about trees whose cycles cut both
walks. It compares them step by step: the leaf walk, until it ends, is a run of places (open
calls, remembered nodes, leaves so far), each one a step on from the place before (`StepsTo`);
the box walk is at one of the places of that run, and has given out the indexes of the leaves
met there (`BoxRuns`, `NumberedBy`). Where neither limit of the leaf walk is met, each test the
two walks make has the same outcome, so a step of the box walk leads to the next place.

**Resources of the pages** (`PageCalls_proof`). A page gets the report at its ordinal, which
is right if two walks that know nothing of one another list the same leaves, and if the
context of each call of the resource walk is that of its own path. For the first, the content
pass and the resource walk are both read as visits: open calls, remembered nodes, count, bound
met and leaves so far, and one function from a visit to the next (`After`). The resource walk
has always made some of the visits that the leaf walk has made (`ResVisits`), so both end with
the same leaves and the same bound (`WalksEndAlike`), also where one cut them. For the second,
`ResFollows`: as long as nothing is cut, the leaves reported are those of the paths walked, and
each open call carries what the nearest `/Resources` on its path gives (`CarriesContexts`). A
node that states none hands down what it inherited, one that does hands down its own, and one
whose statement is unusable hands down none, with a reason more (`ContextExtends`).

**Audit and check** (`PageCalls_proof`). `AuditInv`: there are places where each page's
entries start (`Starts`), and both cursors are at the place of the next page; a page that is
inventoried adds its entries behind all others (`StartsGrow`), and a slice from a page's
place holds its entries and no others (`SlicesOfPages`). What a scan has found is empty
exactly if the pages before its cursor are clean, so the verdicts agree.

**Box edits** (`PageCalls_proof`). `CallsAreAtomic` needs `CallsInv`: while a call plans,
the document is the one it was given, and the edits planned so far are each answered by one
edited or one skipped page; sorting reorders these without loss, because indexes differ
(`SortedAscends`). `EditsKeepOtherEntries` needs `EditsInv`. Every box the walk carries down
is the one its owner states (`StatedBoxes`), so the owner of a reported box says where the
leaf states it: once, or not at all (`OwnedBox`). A byte edit then replaces the value behind
that one key, or inserts in front of everything (`SpliceReplaces`, `SpliceInserts`), and the
order of two edits leaves the second where it was aimed, save in the shape `Collides`
(`EditOrder`, `EditedBodyHolds`). The body planned for a leaf is the one that gets written
because no other edit is of that leaf: ownership counts the pages that use it
(`LeafRevised`).

`ReopenReportsRequest` and `OtherPagesKeepBoxes` compare the document before a call with the
one after it. `ReopenInv`: while a call plans, the boxes inspected follow the tree
(`BoxFollows`, as in `WalksInv`) and each edit planned asks for a box that fits its media box
(`FitsMedia`). The revision rewrites nothing but dictionaries of `/Page` leaves (`Rewrites`),
so no kind and no `/Kids` changes and the paths are the same (`PathsKept`); what lies on a
path before its end is `/Pages` or the root, so every inherited box stays (`AncestorsKept`),
and the leaf of a page with no edit is edited by nobody. Both say this of trees whose root is
not itself declared `/Page` (`RootIsNoLeaf`): `walk_spine` does not look at the `/Type` of
the page-tree root, so such a root with its own index among the kids would be leaf and
ancestor at once.

`SecondCallChangesNothing` compares two computations, the second on the document the first
one wrote. `RepeatInv` relates them through what stands in the document. The box walk is a
function of the page tree: two walks that have ended on one tree went the same way, through
its cycles and its depth bound (`EndedAlike`), and a revision keeps the tree
(`TreeRevised`). Each edit of a request that was written is `Settled`: if the page at its
index can be edited and no other such page has its leaf, the leaf states the boxes asked for
as entries of its own (`EditSettles`). An edit that was skipped is settled because the pages
that can be edited are the same on both documents (`UntouchedAsEditable`,
`PagesStayEditable`). So a second plan meets, for each edit it does not skip, a leaf that
says already what it asks for; replacing the value behind that key gives the same entry at
the same place (`SpliceRestates`), and where an edit asks for both boxes, the same holds for
one after the other (`SecondBodyIsTheFirst`). The premise `RootIsNoLeaf` is needed here too,
and the document `RootLeaves` of the run shows why: a root declared `/Page` and listed in
its own tree is rewritten as a leaf by the first call; a page below that was skipped because
it had no media box then inherits one, and the second call edits it.

**Form expansion** (`DocumentInventory_proof`). Open calls are pairwise different scopes, so
their number is what the nesting limit is tested against; each form entry was paid for, has
a refusal, or is about to be expanded; the sequences given out are the two runs of numbers
of the page's own entries and of those behind all of the page's. From this follow
`ExpansionStaysBounded` and `SequencesIdentifyEntries`. `PagesAreWholeOrSkipped` needs
`PInv`: what is joined is what the streams passed so far hold, one after another
(`FlattenGrows`, an induction over their number); the page's own entries are those of the
joined content at the places they are numbered by; and each page with a result is whole
(`Whole`), which the entries of a later page do not disturb (`WholeKept`).
`ShallowPagesAreComplete` follows from `SInv`. Of a page that fits the limits, the entries so
far, the content of the form at hand and what is left in the open calls, the last opened first,
are its full content (`Tells`): an operator emitted is the first of what is left
(`HeldUnfolds`), and a form entered has its content one level down the recursion of
`FormContent`, whose equations hold (`ContentSolves`). No form is refused meanwhile: each open
form was invoked by the call below it (`CallsInvoked`), so a form too deep ends a chain
of invocations that is too long, a form open already gives one of any length (`ChainsExist`),
and what has been emitted has no more invocations than the full content (`ToldCounts`).

**Walker, inventory and plan** (`Planners_proof`). For each saved snapshot there is the
`q` that saved it, no record since lies outside it, and the snapshot is what the records in
force at that `q` say (`WalkIs`): so a `Q` goes back to the state of its own `q`. An entry
carries the observation of its record (`BuiltIs`), and a target with one colour is painted
under the operator in force for that usage, which is the one its patch names.

**Content** (`ContentReading_proof`). The predictor reversed in its own buffer implements
`PngPromise`: the read offset is `row_index` bytes ahead of the write offset, everything
from the byte at hand on is still as it was inflated, and the filter byte of the row was
saved before it could be overwritten (`RInv`). Tokens tile the text up to the cursor, and
inside a literal string the cursor is past the parenthesis that opened it (`TInv`). For
`RecordsAccountForTokens`, `AInv`: the tokens before the cursor are shared between records,
trivia and what is pending, what is pending is a run of tokens that ends at the cursor, and
the open brackets of a composite are those whose closers are still expected. `Stages` joins
the three. For `NothingFusesAcrossStreams`: the content joined so far has a line feed in
front of each stream but the first (`Joins`), the text being cut is that content (`TextIs`),
and no token but a string or whitespace has a line feed in it, because each way to cut one
stops there (`OnOneLine`).

**Cross-reference streams** (`StreamDocument_proof`). A record is decoded from bytes that
lie in the body (`RecordsTyped`), and of several for a number the last (`LastIsDecoded`).
The records merged so far are those of the sections followed so far, which lie on the path
from startxref, and the next offset is the one the last of them states (`FollowedSoFar`,
`Progress`). A path of sections that ends begins with the sections followed
(`FollowedIsBeginning`) and has none twice (`WholeHasNoTwice`), so it could not have been
refused for a cycle, a bad section or its length. An answer is what resolving gives now
(`Answered`); offsets of members increase (`MembersInOrder`), so spans of one stream are
apart, and members at one index bear one number.

**Colour policies** (`Planners_proof`). The entries collected have one of a few forms,
on each of which key and transform determine one another; that needs that the selected link
serves the request (`KInv`). `DInv` says of each resolver what it has found among the
observations it has passed.

The proofs assume of the constants what the modules' `ASSUME`s say, and TLC evaluates those
in every run. Those that are more than shapes: the symbols for "none" and for a malformed
box (`Absent`, `PageScope`, `Malformed`, `NonFinite`) are not among the values they stand
beside (`Absent` is no number either, and an unusable dictionary is not an absent one), the
rectangles include each one's corners swapped, and a link description is its id and its two
colour spaces.

Only model-checked, and why. Liveness (`CallsReturn`, `OpenReturns`) is out of the prover's
reach. `StreamsReadBack` rests on encoding and decoding by folds, which cannot be unfolded
along the data by the provers.

## Not modelled

The byte grammars of files (the scanners of dictionaries, arrays, tables and object headers)
appear as what they report: they keep no state beyond a cursor, and the components over them
are sensitive only to accepted or refused. Inflating is a library's. The query facade
(`pdf_query`) applies a selector to the entries of the inventory, once, and keeps no state; a
property of it would repeat its definition. The shared types are data. Digests, image metadata
and the shape checks of the catalog decide nothing that is modelled. The summaries and spot
names of the audit are sums over the entries that `EntriesAuditedOnTheirPage` is about.

## Plan

Of the models: the resolution of the catalog with its shape checks, and image metadata. Of the
proofs nothing is left but what is named above as out of the prover's reach.
