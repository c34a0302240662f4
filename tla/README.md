# figma-ir in TLA+

figma-ir turns part of a Figma file into a deterministic, digest-checked
intermediate representation, cuts bounded views out of it, and checks an
implementation against them. This directory models its behaviour in TLA+,
checks the models with TLC and proves the properties that matter most with
TLAPS.

## The system

| part | source (under `packages/`) | state it keeps | operations |
|---|---|---|---|
| acquisition | `core/src/figma/snapshot.ts`, `client.ts`, `persist.ts`, `cli/src/index.ts` (`acquire`, `nodeIO`) | a snapshot file per `--out` path and, while writing, `<path>.partial` | `acquire [--force]` |
| discovery | `core/src/figma/discover.ts`, `cli/src/index.ts` (`list-pages`, `list-frames`) | none | two listings, the second level by level over sections |
| hand-off | `persist.ts` (`storedToSnapshot`), `cli/src/index.ts` (`export-slice`, `export-projection`, `verify-fresh`, `check-obligations`), `skills/figma-ir-implement` | the files a consumer keeps between commands | each command re-reads the snapshot path |
| canonical document | `core/src/canonical/adapter.ts`, `document.ts` | none | `fromSnapshot`, `indexBySourceId` |
| identity | `core/src/identity/nodeIdentity.ts`, `core/src/determinism/*` | none | content hash, subtree hash, correspondence validation |
| facts | `core/src/facts/*.ts` | none | reading order, text styles, responsive groups, name patterns |
| slice | `core/src/slice/cut.ts` | node list, omission list and cut marks of one traversal | `cutSlice` |
| rules | `core/src/rules/*.ts` | none | load a rule set, run it, gate on its findings |
| web projection | `web-projection/src/*.ts` | none | container and axis plans, line wrapping, obligations, the consumption ledger |
| geometry gate | `core/src/verify/geometry.ts` | none | compare measured boxes with a slice |
| command line | `cli/src/index.ts` | none | argument table, exit codes |

Every command is single-threaded and ends with exit code 0, 1 (a verdict
against the input) or 2 (it could not tell).  What is concurrent is around it:
a designer keeps saving the file between two HTTP requests, several commands
run at once over the same directory, requests fail, processes are killed
between two file system calls.  The commands communicate through files only: a
snapshot written by one is re-read, decoded and digest-checked by each of the
others, and a ledger or a measurement made from one command's output is handed
to a later one.

What is hard, then, is not parallelism inside the program but

- answers of different moments: a listing takes many requests and an
  acquisition three, and nothing says that one answer describes one moment;
- two processes over one path, and what a crash or a full disk leaves behind;
- bounded recursion: a slice is cut by three limits at once, and what one of
  them drops must be recorded once, whatever the others do;
- reasoning from absence: a consumer must be able to tell "not there" from "not
  shown", and the gate must tell "matched" from "matched what was measured";
- arithmetic at a boundary: tolerances, budgets and lines that round.

`PROJECT.json` lists these hazards one by one, at their lines.

## Modules

| module | what it is | operations, and the code they stand for |
|---|---|---|
| `Acquire` | any number of `acquire` processes, the designer and the file system | `Start`, `RefuseArguments` (`cli/src/index.ts`); `ReadBefore`, `ServeRoot`, `AcceptResponse`, `RefuseResponse`, `RequestFails` (`acquireSnapshot`, `client.ts`); `OpenPartial`, `WritePartial`, `RenamePartial`, `WriteFails`, `Cleanup` (`nodeIO.writeFile`); `Kill`, `Save` (environment) |
| `AtomicCapture` | what the caller of `acquire` is promised: one moment of the file, installed in one step, or nothing; and what is left of that for invocations that were not alone at a path | `Save`, `Start`, `Begin`, `Install`, `Mix`, `Fail` |
| `Discover` | one `list-frames` against a changing or contradictory service | `ReadBefore`, `ReadPage`, `AskSections`, `ServeSection`, `TakeSections`, `ReadAfter` and their refusals; `LayFrame`, `LaySection`, `RefuseTwice`, `FinishListing` (`discover.ts`) |
| `SliceCut` | one `cutSlice` over one document | `Refuse`, `Begin`; one call of `visit`, by its outcome: `OmitHidden`, `OmitOverBudget`, `IncludeAtLimit`, `IncludeAndDescend`; `Finish` (the marking pass) |
| `GeometryGate` | one `diffGeometry` over one slice and one measured file | `RefuseFile`, `Decode`; one entry: `SkipUnknown`, `SkipBoxless`, `Compare`; one exclusion: `Accept`, `Reject`; `Conclude` (`geometryReportFails`) |
| `DiffGeometry` | the command of that name: `SliceCut` followed by `GeometryGate` on its result | `Cut`, `HandOver` (the call of `diffGeometry`), `Judge` |
| `Projection` | `projectWeb`, above `SliceCut`: the claims made for the web, each compared with where the children are | `Cut` (a step of `cutSlice`), `ProjectNode` (container, wrap rule and axis plans of one node, what they contradict and what is owed for them) |
| `HandOff` | a consumer's session: what it keeps from one command to the next, while the snapshot is replaced or edited | `Acquire` (one step), `ExportProjection`, `WriteLedger`, `Recompute` and `Judge` (the two reads of `check-obligations`), `VerifyFresh`; `Save`, `EditStored` (environment) |
| `Canonical` | `fromSnapshot`: raw nodes become canonical nodes or rejections | `ConvertNode`, `RejectNode` |
| `Facts` | `deriveFacts`, above `Canonical` | `DeriveNodes` (`walk`), `GroupDeclared`, `GroupByName`, `RefuseName`, `PassOver`, `ReportUnseen`, `DeriveGroup`, `FinishGroups` (`deriveResponsiveGroups`) |
| `Rules` | the command `diagnostics`, above `Facts` | `LoadEntry`, `RefuseRuleset`, `FinishLoading` (`loadRuleset`); `EvaluateRule`, `RefuseRun`, `FinishRun` (`runRules` and the built-in rules) |

`MCAcquire`, `MCDiscover`, `MCSliceCut`, `MCGeometryGate`, `MCDiffGeometry`,
`MCProjection`, `MCHandOff` and `MCRules` hold the instances for TLC.
`AcquireProofs`, `DiscoverProofs`, `SliceCutProofs`, `GeometryGateProofs`,
`ProjectionProofs`, `HandOffProofs` and `RulesProofs` (of `Canonical`, `Facts` and
`Rules`) hold the theorems; `DataFacts` the facts about lists, finite sets and numbers they share.  An operator introduced with "Slip" is not
part of a specification.  It is what an edit of the code could make of an
operation, and it is there to show which property would notice.

### Acquire

A process is one invocation.  Its steps are the points where the single-threaded
program hands control to something shared: a request, or a file system call.
What a file looks like is, per version, a content for every root.  The service
fills in the nodes response one root at a time, each from the version current at
that moment, and any of them may be a fault (filed under another id, a style
defined twice).  The file system has inodes, because a process that has
`X.partial` open goes on writing to it after somebody else has renamed it.
`history` and `content` hold what the digests and the snapshot id are computed
from, so an equal snapshot id is an equal value.

Nothing in the code keeps two invocations for one path from running at once, and
nothing in `Start` does: they meet at any point of each other's run.  What they can
lose by it is said with `beside`, a history variable that no step depends on:
`beside[p]` are the invocations for its path that *p* has run beside.

- `OneVersion` is not lost: whoever writes, a file on disk that is whole is a capture
  of one version.
- `DestinationWhole`, what the comments of `nodeIO.writeFile` say, is lost.  All write
  the same `X.partial`, so a file that one of them is writing may be installed by
  another (`MCAcquireTorn`).  It is kept at every path that is not shared
  (`UnsharedWhole`), where a later invocation still meets whatever a killed one left
  behind.
- What USAGE says of `--force` is lost too.  The destination is looked for before the
  network round trip and renamed over after it, so that of two invocations without
  `--force` that meet, the later one replaces what the earlier one installed, and it
  may be the one that has the older version.  `CapturesAreKept` says that this is
  all: without `--force` a file is replaced only if somebody whom the invocation has
  met has installed a capture (`ReplacedOnlyByForce`), and a capture gives way to an
  older one only in a step of an invocation that was not alone (`NeverOlder`).

`ImplementsAtomicCapture` is the refinement: requests, validation, temporary
file, rename and clean-up together are one `Install` of a version between
`since` and now, for an invocation that was alone.  One that was not may instead
take steps `Mix`, which leave a torn text or any capture at the path, within what
`MayReplace` allows.

### Discover

The state is the two lists of `listPageContents`: what was read, and what was
laid out.  The layout recursion is a list of entries still to lay.  A file maps
each container to what it holds; a service may also contradict itself, and answer
with sections inside each other, a node in two places, holes, or a document
without children.

`IsPageOf` says what a listing should be without a second traversal to compare it
with: every entry has a way from the page down to it in the file (`IsTrail`), the
entries are in document order (`Precedes`: a section is before what is in it, and
where two ways part the earlier child comes first), and what the page and the listed
sections hold is there.  `IsWhole` is a file as an honest service describes it.

### SliceCut

A document is a forest of occurrences in document order.  Occurrences and source
ids are kept apart because a snapshot of a node and of a node inside it shows the
inner one twice, and every index by source id then keeps the later one.  The
recursion is unrolled into the list of calls of `visit` that are still to make.

### GeometryGate

A slice is a set of nodes with a parent and a look each, `rendered` those with
`effectiveVisible`, `cutShort` those with a child left out by a limit.  A measured
file is two sequences, entries and exclusions.  `at` walks first one, then the
other.  Lengths are integers on the grid of `roundPx`, a hundredth of a pixel;
`Math.ceil` and `Math.round` are integer divisions over that grid.  A measurement
is taken as already scaled, so `scaled` only decides the refusal.  The element
that a node was measured on is an identity, `element`, with its tag.  A slice is a
forest, as `cutSlice` makes it, and no text has an auto-layout.

### DiffGeometry

The gate sees a slice and never the document.  The two specifications run one
after the other: `stage` is `waiting` while the slice is cut, and `HandOver`
gives the gate `SliceGiven`, which is the state of `SliceCut` as the gate reads it.
The properties of this module are about the document: what the gate accepts of a
cut slice must be so in the design.

What is left uncovered here: a measured file carries nothing that says which
snapshot was measured, so a measurement made for one capture is judged against
whatever has been installed at its path since.  No state of the program tells the
two apart, and no property of the command can.

### Projection

The documents of `SliceCut` get a layout and a box for every node.  One step of
`ProjectNode` is everything `planOf` does for one node of the slice, in its order:
what is claimed, what is taken back because the children are not where the claim
puts them, what is owed.  Lengths are on the grid of `roundPx`, and `Near` is a
difference of at most two hundredths.  `InOrder` (a set put in order) and
`Filtered` (what passes, in the order of a list) are written out, because the prover
sees nothing of what `SortSeq` and `SelectSeq` are.

What a projection knows is compared with the *document*, not with the slice: a
claim that is known must hold of the children that a budget left out, too.
`KnownClaimsHold` leaves out what the code does not look at, the cross axis of a
list that wraps or was cut short.  It allows for the tolerance wherever the code
applies it: twice across the rows of a list that wraps, because a child is compared
with the first of its row and the row with its line.  The documents `Slack` of the
instance move two tiles by up to four hundredths, so that both are used up.

### HandOff

A stored snapshot is the record that `snapshotToStored` writes, each digest being
the value it is computed from, so `Readable` is equality where the code compares
hashes.  `EditStored` changes one field to what it is in some other capture, or
cuts the file short, and the bound `MaxEdits` is two: one to change a part and one
to change the digest over it to match.  A projection keeps what its hash covers.
A ledger is bound to a projection hash.  `check-obligations` reads the snapshot and
then the ledger, and the path may be replaced in between.

### Canonical, Facts and Rules

One specification in three layers.  Raw nodes are numbered in document order,
parents before their children; `InOrder` lists a set of them in that order, and
`RawChildren` are those of a node that are kept.  The override ids of a text are a
list, as the adapter decodes them.  The
recursion of `convert` is unrolled into the list of calls still to make; the key of
a node is its name chain, type chain and number; `SubtreeHash` is the tree it is
computed from.  Of each kind of raw field one stands for all that are read alike:
an enumeration with a default, one without, a record of lengths, a list of paints,
a list of paths, a reference to a style.

`Facts` reads the tree (`walk`) and then goes over the roots one by one
(`deriveResponsiveGroups`).  What the pattern captures in a name is given with the
configuration.  `Rules` is a sequence of entries that is loaded, then evaluated.

The properties are about the *raw* nodes wherever they can be: a slot is one node
per artboard by the names in the file, a list has as many items as are drawn.
`QuietListsAgree` is about the runs that are not refused: a refused one reports
nothing, and its silence says nothing.

## Runs

A property of a run is often the conjunction of two or three that say one thing
between them, and its parts are defined, and commented, above it:
`CapturesAreKept` is `ReplacedOnlyByForce` and `NeverOlder`.  Where a conjunction
is checked, there is a deviation of the code that breaks each part, but for
`NeverOlder`: of two invocations that do not meet, the later one reads the file after
the earlier one has ended, and none of the deviations changes that.

| run | question | result |
|---|---|---|
| `MCAcquire` | two invocations, one after the other or beside each other, a save, every crash and failure: does a snapshot never mix versions; is the destination whole at a path that is not shared; is a capture replaced without `--force`, or by an older one, only where invocations have met; is the whole an atomic capture for who was alone, and at most a mixture for who was not; does every invocation end? | holds |
| `MCAcquireTorn` | may an overlapping invocation have a half-written file installed? | violated |
| `MCDiscover` | any service: is a listing the page of one moment that existed, in document order, no node twice, none lost, no section asked for again, and does it end? Honest service: has a refusal a cause in the file? | holds |
| `MCSliceCut` | is everything below the roots shown or omitted exactly once, marked where it was cut, and a prefix? | holds |
| `MCSliceNested` | the same of a snapshot with one root inside another | violated |
| `MCGeometryGate` | does a match mean that every node is where the design has it or is answered for? Does the report account for every entry, and stay quiet over a perfect render? | holds |
| `MCDiffGeometry` | is what the gate accepts of a cut slice true of the document? | holds |
| `MCDiffCollapse` | has a wrapper that collapses exactly one rendered child? | violated |
| `MCProjection` | is what a projection knows true of the document, what it takes back reported, and what it leaves out owed or omitted; and does a layout exactly as declared raise no contradiction? | holds |
| `MCProjectionOrder` | are the pairs of children that are compared the neighbours in the row? | violated |
| `MCHandOff` | is what is read under the id of a capture that capture, is "fresh" said of the current version only, and is a ledger accepted exactly for the design and the request it answers? | holds |
| `MCRules` | does every raw node that has an id and a type end as a node, a rejection or below one; are equal hashes equal designs, gaps included; are slots, coverage and findings true of the raw nodes; is a ruleset applied as a whole or not at all? | holds |

### Findings

- **One temporary name** (`MCAcquireTorn`).  Both write `X.partial`; the second
  open truncates what the first is about to rename, and the rename installs it.
- **Nested snapshot roots** (`MCSliceNested`).  `acquire` accepts a node and a node
  inside it.  The check of `cutSlice` against that looks the inner root up at
  its last occurrence, which has no ancestors, and the node is shown twice.
- **Collapse under a node budget** (`MCDiffCollapse`).  `collapsible` counts the
  rendered children that the slice shows.  The two other judgements about
  children ask first whether the list was cut short; this one does not.
- **Reading order in a row** (`MCProjectionOrder`).  The children of a line are
  put in reading order, top to bottom first, before neighbours are compared.  In a
  row that is centred across, a smaller child sits lower than its taller right
  neighbour and is read after it: the pairs compared are not adjacent, and a layout
  exactly as declared is reported as contradicted.

Disagreements met on the way, which no run is spent on:

- of two invocations without `--force` that run beside each other, the later one to
  rename replaces the capture of the other, against "Refuses to replace an existing
  file unless --force is given" of USAGE (`cli/src/index.ts` 475 looks before the
  requests, 489 writes after them); `CapturesAreKept` states how far this goes;
- a comment in `geometry.ts` (673) says that the union of verified children
  follows within the tolerance: its far edge is a sum of measurements and its width
  may be off by three tolerances, which is what `DerivedFrameStaysClose` states;
- the cross alignment of a container that a limit cut short, or that wraps, stays
  *known* although nothing was compared (`project.ts`, 656-660); a `FILL` is judged
  against the siblings the slice shows only; the check of a drifting size in the
  review of a wrapping container can never fire; a projection lists no omissions;
- raw children without an id or a type are dropped without a rejection and without a
  trace in any hash (`adapter.ts` 580-585), where `document.ts` 23 says that what is
  not a supported node "becomes a rejection rather than a silently dropped branch".
  `ConversionIsWhole` is about all other raw nodes, and says of these (`Dropped` in
  `Facts`) that they leave no trace; in `EqualHashEqualDesign` they are not part of a
  design;
- an override id that is not a
  number makes a run while `hasCharacterOverrides` is false; an unrecognised
  sizing or positioning reads as *unstated*, where the other enumerations become
  *unknown*; gradient stops that cannot be read are dropped one by one, where one
  such path leaves the drawing unknown;
- a group with two artboards for one breakpoint is published with the later one
  observed (`derive.ts` 490); the branch for a declared breakpoint that is not
  configured cannot be reached after `decodeFactConfig`; a declared root that was
  rejected is reported as "not acquired";
- `itemCount` compares no breakpoint of a list that is hidden at one of them, and
  misses an item that is also a root of its own: facts are by id, and the last
  occurrence has no parent.  `contentRoot` lets a layout mode of *unknown* pass.

### Bounds, and why they are enough

- *Two processes, one path, two roots.*  What is shared is per path, and every
  interference is between a pair.  Two roots are what a torn response needs.
  `MaxVersion = 1`: one save lets both roots change, or one disappear, before,
  between or after the steps of either invocation, and tells an older capture from a
  newer one; the violation needs none.  Two inodes: with two invocations there are at
  most the one at the path and one that is written, so that one is free whenever
  an invocation opens a new one.  `Faults` has one member because the
  code refuses all of them alike.
- *Two sections, one frame, one page*: the smallest files with a section in a
  section, a cycle, a shared child and an order to keep.  `IdsPerRead` is 1, so that
  a save can come between two batches of one level.
- *Five occurrences* give every forest with a branch beside a chain; budgets up to
  4 and depths up to 2 cut each at every place.  Nested roots need four.
- *Two nodes, then four* for the gate.  An entry is compared with its own node,
  so one text with every delta at which an outcome changes (each tolerance, half
  a line, one and three lines, and one hundredth beyond) says what can happen.
  Claims are about a node, its parent, its children and the nearest measured node
  above, which four nodes have.  Two claims are enough for one to lean on the
  other.
- *Four nodes* in two shapes for the composition, every limit, every hiding.
- *A container and up to four children* for the projection: pairs, a last line
  that is short, and a child that is out of the flow.  One child is moved by just
  less than the tolerance, just more, or far, which is every way a comparison ends.
  Every node budget cuts such a document at every place.
- *One file of two nodes, two versions, three requests* for the hand-off: a change
  to one node that leaves the other, a capture of fewer roots, one of another file.
  `LastVersion` and `MaxEdits` bound the environment; an edit is of one field, and
  two of them can make a part and its digest agree.
- *Families of inputs* for the facts.  Each varies one thing fully and keeps the
  rest small: every tree of three nodes below a root with every name, type and
  hiding; two branches of two children for the hashes; every pair of looks for the
  fields; up to four characters of override ids; three boxes inside, beside, over
  and beyond each other; two and three artboards with every pairing of names and
  of contents; rulesets of up to two entries, eleven to choose from.

The only bounds that are part of a specification are `MaxVersion`, `MaxSaves`,
`LastVersion` and `MaxEdits`, on what the environment does; the theorems hold for
every value of them.

Deadlock is not checked: a command ends, and so does its behaviour.

### Fairness

`Spec` of `Acquire` has weak fairness on the steps of every running process, and
`LiveSpec` of `Discover` on the listing.  The process is single-threaded and
always has one pending operation.  `request` in `client.ts` passes no signal, and
what bounds it are the timeouts of the HTTP client underneath: a request is
answered or fails.  File system calls return.  There is no fairness on `Save`,
`Start` and `Kill`, and none is needed: every step towards the end is enabled
until it is taken, and a save does not disable it.

## Proofs

All theorems are for every value of the constants that meets the named
assumptions of the modules.  None of them is by induction over data with the
theorems of the library, which take an operator: where an argument goes along a
list or up a tree, it takes the least or the greatest counterexample
(`LeastNatural`, `GreatestInteger`, or a set of nodes that is not closed upwards).
That a recursive definition has a value at all is proved as well, from
`ForestRecursion` or from a solution that can be written down.

**Acquire.**  No theorem assumes anything of how invocations run beside each other.
For `TypeCorrect` and `EverySnapshotIsOneVersion` the invariant is `CaptureInv`: types,
`Reading` (an entry that was served is a fault or, if the version is still `before`,
what this version has), `Opened` (a writer has an inode) and `OneVersion` itself, which
is not inductive without `Reading`: when the response is accepted, what it contains
was decided several steps earlier.

`FileInv` adds what holds of the files.  `Met`: two that run at once for one path are
in each other's `beside`, so that one with nothing there is alone (`AloneAtPath`).
`Names` and `Handles`: no inode has two names, and a writer has an inode of its own
path open.  `Undisturbed`: who is alone writes the file its temporary name still names,
and renames what it holds in memory.  `Permission`: without `--force` there is nothing
in the way but what somebody that was met has installed.  `Recent`: what somebody who
is alone finds installed is no newer than what it saw first.  `UnsharedWhole` is the last
part; it needs the others, as nothing but `Handles` and `Undisturbed` tells a write to
`X.partial` from one to `X`.
From it follow `DestinationAlwaysWhole`, `ReplacedOnlyIfForced` and
`NeverReplacedByOlder` (together `CapturesAreKeptAtTheirPaths`) and, with the mapping of
stages to phases, `AcquireImplementsAtomicCapture`: the initial state maps to one, a
rename to `Install` or `Mix`, a write that is seen at a path to `Mix`, and each other step to
`Save`, `Start`, `Begin`, `Fail` or to a stutter.

**SliceCut.**  Under `UniqueIds` (the assumption that `MCSliceNested` shows to be
needed) the invariant is `Partition`: the nodes under the requested roots are
split, each into exactly one of *shown*, *under one omission*, *under one pending
visit*.  One call of `visit` moves a subtree from the third part to the
first two, and sends its children back to the third.  `SliceAccountsForEveryNode`
and `SliceShowsIdsOnce` read it off at the end, when nothing is pending.  `Marks`
relates the marks, the omissions and the pending visits, and gives
`SliceMarksItsCuts` and `SliceIsATree`.  `SliceIsSelfContained` puts them together.
`SliceTypes` does not need `UniqueIds`.

`SliceLimitsAreExact` adds `Limits`.  `Measured` says that what is recorded of a node
(its depth, the size of an omission, the reason for it) is what its place in the
document makes it; a reason other than the node budget means that nothing below should
be shown (`Barred`).  `TodoInOrder`, `ShownFirst` and `ShownInOrder` say that the
pending visits are subtrees in document order, behind every node shown.  So when the
budget is spent, what is left comes after the slice (`CutAtBudget`), and the slice is
a prefix.  The order of subtrees comes from `SiblingsInOrder`, which needs that the
numbers of a document are those of a walk through it (`NumberedAsWalked`).  The sizes
add up because `Partition` splits the request into sets that share nothing
(`FamilySize`).

How a slice lies in its document is what everything above it needs.  That is
`Faithful`: no root of an accepted request is inside another; what is visited, shown
or left out was asked for, and keeps the parent it has in the document; what is shown
can be seen, and what is left out as not rendered cannot.  With `Partition` it gives
`ChildrenAreShown`: unless a limit left out a child of a node, all that can be seen
are in the slice.

**Discover.**  `StillFresh`: as long as nobody has saved since the first read,
everything read is what the file has now; the second look at the version turns it
into `ListingIsOneVersion`.  `Pending`: what is still to be asked for was never
read, which gives `ListingReadsOnce`, and with it termination of the reads for any
answers, cyclic ones too.  `Layout`: the children of everything laid out are laid
out or still to lay; `ListingLosesNothing` is that with nothing left.
`ListingShowsNothingTwice` is inductive by itself, and `ListingExact` is the two.

`OutcomesHaveCause` is about both ends of a listing.  That it is a page that existed
comes from `InOrder`: what is listed is in order, what is still to lay comes after it,
and two entries that are still to lay are on ways that *part*.  The last is the
strengthening: it lets what a section holds go between the section and everything
after it (`SectionKeepsOrder`).  `Held` says that the children of what is listed are
listed or still to lay.  Both are about what was read; `ListingIsOneVersion` makes it
a state of the file.  That a refusal has a cause comes from `WellAnswered` (of an
honest file, a section still to be read is there unless somebody saved) and `Apart`
(the nodes laid or to be laid are different, and each was met on the page or in a
section that is laid, so that the children of the next section are new).

**GeometryGate.**  `GateInvariant` is `GateTypeOK`, `InputOK` (the assumptions of the
constants hold of the inputs, which do not change), `Decoded` (past decoding, ids
are unique and options are in range), `Recorded` (every entry already passed is
in the report lists it belongs in), `Confirmed` (every excused id has a
claim that the slice upholds) and `Concluded` (a verdict is what `Fails` says).
`GateMatchIsFaithful` then needs the arithmetic of `HalfALine`: a height whose
nearest number of lines is zero has moved by at most half a line.
`GateAnswersEveryNode` and `GateSharesNoElement` follow from `Recorded` and
`Confirmed`, and `GateAnswersAreTheirOwn` from both.

`GateSeesText` needs that `Above` and `AssetLike` are what their recursions say
(`AboveSolves`, `AssetLikeSolves`); then the rendered nodes that are no asset are
closed upwards, so that nothing above a text is one.  `DerivedFramesStayClose` is
about the greatest and the least of finitely many numbers that each move by at most
the tolerance.  `GateReportIsRight` needs the converse of `Recorded`: `ReportInv` is
`Sourced` (nothing is in the report but what comes from an entry that was looked
at), `Counted` (each entry looked at is counted once: it has a new id, so the
sets grow by one) and `Listed`.

**DiffGeometry.**  `MatchesHoldOfTheDesign` is about both halves at once.  The cut
keeps its invariants, since the command only adds steps that leave it alone
(`CutInvariant`), and `Handed` says that the slice the gate has is the one that was
cut.  `CutIsSlice` discharges the assumption of the gate: a cut slice is a forest,
rendered from its roots down, and whatever `cutShort` names is in it.  So
`GateInvariant` holds here too, and each claim is carried back to the document:
what is above a node in the slice is above it in the design (`AboveInDocument`); a
node that is not marked has all of its rendered children in the slice
(`ChildrenInSlice`, from `ChildrenAreShown`); everything rendered below a picture was
seen, since the first node that was not would be the child of one that was
(`PictureIsWhole`).  Of a slice that no limit cut, `EveryNodeAccounted` leaves
nothing rendered out (`UncutShowsAll`), and `EveryNodeAnswered` does the rest.
Of a collapse nothing is proved: `MCDiffCollapse` shows that it is not so.

**Projection.**  `ProjectionInv` is `Partition` and `Marks` of the slice,
`PlansFollow` (plan *k* is about node *k*), `ReportsAgree` and `OwedOnce`.
`ProjectionTypes` is in it.  `DemotionIsLoud` rests on `PlanIsLoud`: whatever way a
review takes, it breaks something exactly if it marks a claim as contradicted.

`NothingIsLost` and `ProjectionIsHonest` compare a projection with the document, and
rest on `Faithful` of the slice.  With `ChildrenAreShown` it gives `FlowIsWhole`:
unless a limit left out a child, the flow of a node in the slice is its flow in the
document.

`ProjectionIsHonest` then is about one plan at a time (`PlanIsHonest`), and a plan
stays what it was, since the slice no longer changes.  A review reads the children in
an order of its own, and `ReadingArranges` makes that order the arrangement the
property asks for.  `StackIsTrue` goes through the claims of a single line: what is
compared with an origin or a gap leaves a difference within the tolerance, one more
where a half was rounded, and `SumsFacts` turns the places of an even spread into its
distances.  `WrapIsTrue` is the long one.  `ObservedFacts` says what `observeLines`
makes of the children (every one is near the first of its row), `PredictedFacts`
at which row and column the rule puts the *k*-th child, `Columns` and
`EvenSpread` where a distribution puts the column, with the quotients rounded as the
code rounds them, and `RowIsSpread` that a rule never says more of a last row than
the one distribution that explains it.

`FillersFill` needs of the whole slice that every length has its type (`Sized`), and
then is again about one plan at a time.  A child that fills is given an equal part of
what is left (`SharesFill`), and confirmed if it is within the tolerance of it;
`SharedTotal` adds up what all of them take, whichever of them are fixed.

`ExactLayoutsAreQuiet` is the converse of `ProjectionIsHonest`: children that are where
the declaration puts them (`PlacedAsDeclared`) contradict nothing.  On a single line
(`StackIsQuiet`) every comparison is of equal numbers, but for an even spread, whose
remainder the document and the review may round to different sides (`ShareIsNear`).
For a list that wraps the rows have to be found first.  `RowsRepeat` shows that what
`observeLines` sees are the rows of the declaration: rows are whole pitches apart
(`PitchesApart`), and only the next child of a row is as high as the one before it
(`NextInRow`).  That needs a pitch above the tolerance, which is therefore part
of `PlacedAsDeclared`: thinner rows the code takes for one.  Then as many rows are
observed as the rule predicts, each with as many tiles (`Tiles`, `RowsAsPredicted`),
and every tile is within the tolerance of its column (`PlacedSits`, `WrapIsQuiet`).
The children are taken in the order of `Reading`, the one the review uses;
`MCProjectionOrder` shows that it need not be the order of the file.

**HandOff.**  `HandOffInv` is `StoredOK` (what is at the path differs from some
capture in at most as many fields as were edited) and, for every projection that was
kept or a ledger was written about, `Limited` (some of the requested roots, within
the budget) and `Faithful` (its id and its request decide everything else in it).
`HandOffTypes` follows.  `IdNames` needs no history: what `Readable` checks ties every
field that matters to the id, whoever wrote the file.  `FreshIsCurrent` and
`AcceptedExactly` are action properties.  The second needs that two projections with
one hash have one design and one request (`Faithful`), and that a request
asked in two ways is one after `Normalized`.

**Canonical, Facts and Rules.**  `ConversionInv` has six parts.  `Kinds` is the
types.  `Covered` says which raw nodes have been reached or have a call pending: those
with a type that are roots, or whose parent was converted.  When nothing is
pending, what is left is below a rejection or was dropped, and nothing that is rejected
was dropped (`RejectedIsNotDropped`).  `Covered` is not inductive without `Ordered`:
what is reached comes before what is pending, in document order, so that a node and
its parent are never reached in the wrong order, nor twice.
`Paths` and `Keys` tie the path, the names and the number of a call to those of its
parent, and give distinct siblings distinct keys; `Copied` ties a node's fields to its
raw node.  `ConversionWhole` and `RunsAreOverrides` are read off these; the second
also needs that the recursion of `OverrideRuns` along a list is defined
(`RunsAreDefined`), and takes a last position at which it could be wrong.

`Stages` says what is settled by when: once the conversion is done the nodes stay,
and the facts are `Walk` of them.  `NodeFactsAreRight` then is that reading order is a
total order of the children (`PlacesAreTheNumbers` makes it an index without gaps),
and that an overflow is the least that holds every child.  `Artboards` says that the
roots looked at are members or refused, one by one, and nothing else is;
`Grouped` that a group is what its members make it and that its diagnostics
are there.  `ArtboardsAreAnswered` and `GroupsAnswered` follow.

`ReportInv` is `Evaluated` (what is loaded and what was evaluated are prefixes, every
entry acceptable), `Progress` (how far they have come, by the phase) and `Reported`
(the findings are exactly those of the evaluated entries).  From these follow
`ReportsAreWhole` and, with `Grouped`, `QuietListsDoAgree`: of a list that is shown in
all artboards a slot was made, so that its items were compared.

**Model-checked only.**  Liveness (`Terminates`, twice), which is out of the
prover's reach, and `EqualHashEqualDesign`, which compares designs by what the
instance says that a look means.

## Assumptions

- A version string is never used again for another state of the file.  The code
  compares them and can do no better.
- A request about one id shows one version; about several, a version for each.
- `rename` is atomic, and a process that is killed leaves its open file as it was
  or torn.  `X.partial` is nobody's `--out` path.
- Documents are forests, and nothing below a hidden node is visible, as `convert`
  builds them.
- A level's sections are a set: the batches of a level may be any.  The order of
  their requests is not what a listing depends on.
- A stored snapshot is edited in whole fields.  Two captures of one id never have
  the same digest and different content: a digest is the value.
- A node and a node inside it may both be acquired; otherwise source ids are
  unique within a snapshot.
- In a slice that the gate is given, and in a document of `DiffGeometry`, no text has
  an auto-layout: in a file it is frames that have a `layoutMode`.
- A measured value is on the hundredth-pixel grid.  Rounding, and scaling by the
  root's width, are not modelled.

## Not modelled

| part | why |
|---|---|
| correspondence between snapshots | the validator is called by nothing but tests, and what would make a correspondence is out of the code's own scope (`nodeIdentity.ts` 178) |
| `verifyFresh` of `snapshot.ts` | asks the service again; no command calls it |
| effects, constraints, typography, text scans | fields that are copied, or read like one that is modelled |
| the pattern compiler | string matching; what a pattern captures is an input of `Facts` |
| order of findings and diagnostics, messages, evidence | layout of a report; findings and diagnostics are sets here |
| an empty source id | `sourceId` throws (`nodeIdentity.ts` 46); ids are names here |
| determinism primitives | SHA-256, canonical JSON and rounding of doubles; a hash is taken for the value it is computed from |
| wire formats, untrusted text, diagnostics | layout, wording and single-string functions without decisions that another part depends on |
| argument table, help | one comparison with a table per command |
| fixture client, builders, scripts, examples | test and release support |

## Plan

All modules are written, and every safety property is proved that is stated without
the means of an instance.  Next would come the parts under *Not
modelled* that decide something: the correspondence between snapshots, once a command
uses it, and constraints, once a rule reads them.
