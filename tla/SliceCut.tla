------------------------------ MODULE SliceCut ------------------------------
(***************************************************************************)
(* cutSlice: the bounded view of a document.                               *)
(*                                                                         *)
(* A document is a forest of occurrences, numbered in document order (the  *)
(* order of walkNodes).  An occurrence carries a source id; two of them    *)
(* carry the same one only when a snapshot was taken of a node and of a    *)
(* node inside it.  The recursion over the children is unrolled into a     *)
(* list of visits still to make, so that one step is one call of `visit`.  *)
(*                                                                         *)
(* What a node looks like is left out; so are the hashes, the findings and *)
(* the responsive groups that are filtered once the nodes are known.       *)
(***************************************************************************)
EXTENDS Integers, Sequences, FiniteSets

CONSTANTS
    Docs,       \* the documents: see IsDocument
    Requests,   \* [roots, maxDepth, maxNodes, includeHidden]
    Unlimited   \* the maxDepth of a request that gives none

NoParent == 0

(***************************************************************************)
(* above[o] are the ancestors of o and order the occurrences as a forest.  *)
(***************************************************************************)
IsForest(d) ==
    \A o \in d.nodes :
        /\ o \notin d.above[o]
        /\ d.above[o] = IF d.parent[o] = NoParent THEN {}
                        ELSE d.above[d.parent[o]] \cup {d.parent[o]}
        /\ \A a \in d.above[o] :
             /\ d.above[a] \subseteq d.above[o]
             /\ \A b \in d.above[o] : a = b \/ a \in d.above[b] \/ b \in d.above[a]
             /\ \E c \in d.nodes : d.parent[c] = a /\ (c = o \/ c \in d.above[o])

(* The children of a node are listed in document order.                    *)
ListsChildren(d) ==
    \A o \in d.nodes :
        /\ \A k \in DOMAIN d.children[o] : d.parent[d.children[o][k]] = o
        /\ \A c \in d.nodes : d.parent[c] = o => \E k \in DOMAIN d.children[o] : d.children[o][k] = c
        /\ \A j, k \in DOMAIN d.children[o] : j < k => d.children[o][j] < d.children[o][k]

(* walkNodes meets a node, then all that is below it, then the rest.       *)
NumberedAsWalked(d) ==
    \A o \in d.nodes : \A a \in d.above[o] :
        /\ a < o
        /\ \A b \in d.nodes : a < b /\ b < o => a \in d.above[b]

(* `visible` is effectiveVisible: nothing below a hidden node has it.      *)
IsDocument(d) ==
    /\ d.nodes \subseteq Nat \ {NoParent} /\ IsFiniteSet(d.nodes)
    /\ d.id \in [d.nodes -> Nat]
    /\ d.visible \in [d.nodes -> BOOLEAN]
    /\ d.parent \in [d.nodes -> d.nodes \cup {NoParent}]
    /\ d.above \in [d.nodes -> SUBSET d.nodes]
    /\ d.children \in [d.nodes -> Seq(d.nodes)]
    /\ IsForest(d)
    /\ ListsChildren(d)
    /\ NumberedAsWalked(d)
    /\ \A o \in d.nodes : d.visible[o] => \A a \in d.above[o] : d.visible[a]

IsRequest(r) ==
    /\ r.roots \in Seq(Nat)
    /\ r.maxDepth \in Int \cup {Unlimited}
    /\ r.maxNodes \in Int
    /\ r.includeHidden \in BOOLEAN

ASSUME DocsAssumption == \A d \in Docs : IsDocument(d)
ASSUME RequestsAssumption == \A r \in Requests : IsRequest(r)
ASSUME UnlimitedAssumption == Unlimited \notin Int

VARIABLES
    doc,         \* the document
    request,     \* what is asked for
    phase,       \* "start", "visiting", "done" or "refused"
    todo,        \* the calls of visit still to make: [at, parent, depth]
    nodes,       \* the slice: [at, parent, depth, truncated]
    omitted,     \* the subtrees left out: [at, parent, reason, descendants]
    cutByBudget  \* source ids of the nodes whose children met the node budget

vars == <<doc, request, phase, todo, nodes, omitted, cutByBudget>>

Elements(s) == {s[k] : k \in DOMAIN s}

(* The sum of a list of numbers.                                           *)
Total(sizes) ==
    LET before[k \in 1..(Len(sizes) + 1)] == IF k = 1 THEN 0 ELSE before[k - 1] + sizes[k - 1]
    IN before[Len(sizes) + 1]

-----------------------------------------------------------------------------
(* indexBySourceId: of two occurrences of an id the last one is kept.      *)
Located(d, i) ==
    CHOOSE o \in d.nodes :
        /\ d.id[o] = i
        /\ \A q \in d.nodes : d.id[q] = i => q <= o

Ids(d) == {d.id[o] : o \in d.nodes}

(* The requested ids in ascending order, each once.                        *)
IsAscending(s) == \A j, k \in DOMAIN s : j < k => s[j] < s[k]

(* Slip: looks at the direct parent of a root only.                        *)
EnclosedByParent(d, roots) ==
    \E i \in Elements(roots) :
        /\ d.parent[Located(d, i)] # NoParent
        /\ d.id[d.parent[Located(d, i)]] \in Elements(roots)

(* A root inside another root is refused, as far as the facts tell: they   *)
(* are indexed by source id and keep the last occurrence too.              *)
Enclosed(d, roots) ==
    \E i \in Elements(roots) :
        \E a \in d.above[Located(d, i)] : d.id[a] \in Elements(roots)

Acceptable(d, r) ==
    /\ r.roots # <<>>
    /\ r.maxDepth # Unlimited => r.maxDepth >= 0
    /\ r.maxNodes >= 1
    /\ \A j, k \in DOMAIN r.roots : r.roots[j] = r.roots[k] => j = k
    /\ Elements(r.roots) \subseteq Ids(d)
    /\ ~Enclosed(d, r.roots)

(* Slip: counts the children only.                                         *)
Children(o) == Len(doc.children[o])

Descendants(o) == Cardinality({q \in doc.nodes : o \in doc.above[q]})

Rendered(o) == request.includeHidden \/ doc.visible[o]

(* Slip: off by one.                                                       *)
BudgetExceeded == Len(nodes) > request.maxNodes

BudgetSpent == Len(nodes) >= request.maxNodes

AtLimit(depth) == request.maxDepth # Unlimited /\ depth >= request.maxDepth

Visit(o, p, depth) == [at |-> o, parent |-> p, depth |-> depth]

Omission(v, reason) ==
    [at |-> v.at, parent |-> v.parent, reason |-> reason, descendants |-> Descendants(v.at)]

Included(v, truncated) ==
    [at |-> v.at, parent |-> v.parent, depth |-> v.depth, truncated |-> truncated]

(* Slip: the children at the depth of their parent.                        *)
BelowAtSameDepth(v) ==
    [k \in DOMAIN doc.children[v.at] |-> Visit(doc.children[v.at][k], v.at, v.depth)]

(* The visits of the children of v, in document order.                     *)
Below(v) ==
    [k \in DOMAIN doc.children[v.at] |-> Visit(doc.children[v.at][k], v.at, v.depth + 1)]

-----------------------------------------------------------------------------
Init ==
    /\ doc \in Docs
    /\ request \in Requests
    /\ phase = "start"
    /\ todo = <<>>
    /\ nodes = <<>>
    /\ omitted = <<>>
    /\ cutByBudget = {}

Refuse ==
    /\ phase = "start"
    /\ ~Acceptable(doc, request)
    /\ phase' = "refused"
    /\ UNCHANGED <<doc, request, todo, nodes, omitted, cutByBudget>>

Begin ==
    /\ phase = "start"
    /\ Acceptable(doc, request)
    /\ \E s \in [1..Len(request.roots) -> Elements(request.roots)] :
         /\ IsAscending(s)
         /\ Elements(s) = Elements(request.roots)
         /\ todo' = [k \in DOMAIN s |-> Visit(Located(doc, s[k]), NoParent, 0)]
    /\ phase' = "visiting"
    /\ UNCHANGED <<doc, request, nodes, omitted, cutByBudget>>

(* visit: a hidden node is left out whatever the budget.                   *)
OmitHidden ==
    /\ phase = "visiting" /\ todo # <<>>
    /\ ~Rendered(Head(todo).at)
    /\ omitted' = Append(omitted, Omission(Head(todo), "not-rendered"))
    /\ todo' = Tail(todo)
    /\ UNCHANGED <<doc, request, phase, nodes, cutByBudget>>

(* Slip: the gap is in the list of omissions only.                         *)
OmitWithoutMark ==
    /\ phase = "visiting" /\ todo # <<>>
    /\ Rendered(Head(todo).at)
    /\ BudgetSpent
    /\ omitted' = Append(omitted, Omission(Head(todo), "max-nodes"))
    /\ todo' = Tail(todo)
    /\ UNCHANGED <<doc, request, phase, nodes, cutByBudget>>

(* Slip: what no longer fits is dropped without a word.                    *)
OmitSilently ==
    /\ phase = "visiting" /\ todo # <<>>
    /\ Rendered(Head(todo).at)
    /\ BudgetSpent
    /\ todo' = Tail(todo)
    /\ UNCHANGED <<doc, request, phase, nodes, omitted, cutByBudget>>

(* visit: the budget is spent, and the parent is remembered as cut short.  *)
OmitOverBudget ==
    LET v == Head(todo) IN
    /\ phase = "visiting" /\ todo # <<>>
    /\ Rendered(v.at)
    /\ BudgetSpent
    /\ omitted' = Append(omitted, Omission(v, "max-nodes"))
    /\ cutByBudget' = IF v.parent = NoParent THEN cutByBudget
                      ELSE cutByBudget \cup {doc.id[v.parent]}
    /\ todo' = Tail(todo)
    /\ UNCHANGED <<doc, request, phase, nodes>>

(* Slip: the hidden children at the limit are not recorded.                *)
IncludeAtLimitRendered ==
    LET v == Head(todo)
        seen == SelectSeq(Below(v), LAMBDA c : Rendered(c.at)) IN
    /\ phase = "visiting" /\ todo # <<>>
    /\ Rendered(v.at)
    /\ ~BudgetSpent
    /\ AtLimit(v.depth)
    /\ nodes' = Append(nodes, Included(v, IF Below(v) = <<>> THEN "no" ELSE "max-depth"))
    /\ omitted' = omitted \o [k \in DOMAIN seen |-> Omission(seen[k], "max-depth")]
    /\ todo' = Tail(todo)
    /\ UNCHANGED <<doc, request, phase, cutByBudget>>

(* visit: at the depth limit every child is left out, hidden ones as well. *)
IncludeAtLimit ==
    LET v == Head(todo) IN
    /\ phase = "visiting" /\ todo # <<>>
    /\ Rendered(v.at)
    /\ ~BudgetSpent
    /\ AtLimit(v.depth)
    /\ nodes' = Append(nodes, Included(v, IF Below(v) = <<>> THEN "no" ELSE "max-depth"))
    /\ omitted' = omitted \o [k \in DOMAIN Below(v) |-> Omission(Below(v)[k], "max-depth")]
    /\ todo' = Tail(todo)
    /\ UNCHANGED <<doc, request, phase, cutByBudget>>

(* Slip: level by level.                                                   *)
IncludeByLevel ==
    LET v == Head(todo) IN
    /\ phase = "visiting" /\ todo # <<>>
    /\ Rendered(v.at)
    /\ ~BudgetSpent
    /\ ~AtLimit(v.depth)
    /\ nodes' = Append(nodes, Included(v, "no"))
    /\ todo' = Tail(todo) \o Below(v)
    /\ UNCHANGED <<doc, request, phase, omitted, cutByBudget>>

(* visit: the children are visited before whatever comes after the node.   *)
IncludeAndDescend ==
    LET v == Head(todo) IN
    /\ phase = "visiting" /\ todo # <<>>
    /\ Rendered(v.at)
    /\ ~BudgetSpent
    /\ ~AtLimit(v.depth)
    /\ nodes' = Append(nodes, Included(v, "no"))
    /\ todo' = Below(v) \o Tail(todo)
    /\ UNCHANGED <<doc, request, phase, omitted, cutByBudget>>

(* Once every visit is made, the nodes the budget cut short are marked.    *)
Finish ==
    /\ phase = "visiting" /\ todo = <<>>
    /\ nodes' = [k \in DOMAIN nodes |->
                   IF doc.id[nodes[k].at] \in cutByBudget
                   THEN [nodes[k] EXCEPT !.truncated = "max-nodes"]
                   ELSE nodes[k]]
    /\ phase' = "done"
    /\ UNCHANGED <<doc, request, todo, omitted, cutByBudget>>

Next ==
    \/ Refuse
    \/ Begin
    \/ OmitHidden
    \/ OmitOverBudget
    \/ IncludeAtLimit
    \/ IncludeAndDescend
    \/ Finish

Spec == Init /\ [][Next]_vars

-----------------------------------------------------------------------------
(***************************************************************************)
(* Properties                                                              *)
(***************************************************************************)
VisitType == [at : doc.nodes, parent : doc.nodes \cup {NoParent}, depth : Nat]
NodeType == [at : doc.nodes, parent : doc.nodes \cup {NoParent}, depth : Nat,
             truncated : {"no", "max-depth", "max-nodes"}]
OmissionType == [at : doc.nodes, parent : doc.nodes \cup {NoParent},
                 reason : {"not-rendered", "max-depth", "max-nodes"}, descendants : Nat]

(* Every variable has its type, and the slice never exceeds its budget.    *)
TypeOK ==
    /\ phase \in {"start", "visiting", "done", "refused"}
    /\ todo \in Seq(VisitType)
    /\ nodes \in Seq(NodeType)
    /\ omitted \in Seq(OmissionType)
    /\ cutByBudget \subseteq Ids(doc)
    /\ nodes # <<>> => Len(nodes) <= request.maxNodes

(* o or something above it.                                                *)
Covers(a, o) == a = o \/ a \in doc.above[o]

Shown == {nodes[k].at : k \in DOMAIN nodes}

Requested == {o \in doc.nodes : \E i \in Elements(request.roots) : Covers(Located(doc, i), o)}

(* "A slice that hides its omissions reads as complete" (slice/types.ts):  *)
(* of everything under the requested roots, what the slice does not show   *)
(* lies under exactly one recorded omission, and what it shows under none. *)
EveryNodeAccounted ==
    phase = "done" =>
        \A o \in Requested :
            IF o \in Shown
            THEN \A k \in DOMAIN omitted : ~Covers(omitted[k].at, o)
            ELSE \E k \in DOMAIN omitted :
                   /\ Covers(omitted[k].at, o)
                   /\ \A j \in DOMAIN omitted : Covers(omitted[j].at, o) => j = k

(* cutSlice: "A root inside another root would visit the same node twice,  *)
(* with different parents each time": a source id is in the slice once.    *)
EachIdOnce ==
    \A j, k \in DOMAIN nodes : doc.id[nodes[j].at] = doc.id[nodes[k].at] => j = k

(* A reader holding a node sees the gap under it, without the list of      *)
(* omissions: a node is marked as truncated for a reason exactly when a    *)
(* child of it was left out for that reason.  Hidden children are no gap.  *)
CutIsMarked ==
    phase = "done" =>
        \A k \in DOMAIN nodes : \A reason \in {"max-depth", "max-nodes"} :
            nodes[k].truncated = reason <=>
                \E j \in DOMAIN omitted :
                    omitted[j].parent = nodes[k].at /\ omitted[j].reason = reason

(* The slice is a tree below its roots: a node follows the node it names   *)
(* as its parent, one level up.                                            *)
ParentFirst ==
    \A k \in DOMAIN nodes :
        \/ nodes[k].parent = NoParent
        \/ \E j \in 1..(k - 1) :
             nodes[j].at = nodes[k].parent /\ nodes[k].depth = nodes[j].depth + 1

(* A slice is read without the snapshot it was cut from: every id in it is *)
(* shown once, below a parent that is there, and marked where something is *)
(* missing.                                                                *)
SliceStandsAlone == EachIdOnce /\ ParentFirst /\ CutIsMarked
(* The requested root that o lies under.                                   *)
Top(o) == CHOOSE r \in Requested : Covers(r, o) /\ doc.id[r] \in Elements(request.roots)

(* Roots by id, below a root by document order.                            *)
Before(o, q) ==
    \/ doc.id[Top(o)] < doc.id[Top(q)]
    \/ Top(o) = Top(q) /\ o < q

Depth(o) == Cardinality({a \in doc.above[o] : Covers(Top(o), a)})

(* What a slice would show if it had no node budget.                       *)
Eligible ==
    {o \in Requested :
        /\ request.includeHidden \/ doc.visible[o]
        /\ request.maxDepth = Unlimited \/ Depth(o) <= request.maxDepth}

(* cutSlice: the node budget keeps a prefix.  The slice is the first       *)
(* maxNodes of the nodes that it would otherwise show, in document order,  *)
(* so that a larger budget only ever adds nodes at the end.                *)
BudgetKeepsPrefix ==
    phase = "done" =>
        /\ Shown \subseteq Eligible
        /\ Shown = Eligible \/ Len(nodes) = request.maxNodes
        /\ \A o \in Shown, q \in Eligible \ Shown : Before(o, q)
        /\ \A j, k \in DOMAIN nodes : j < k => Before(nodes[j].at, nodes[k].at)

(* countDescendants: the nodes shown and the sizes of the omissions add up *)
(* to everything under the requested roots.                                *)
SizesAddUp ==
    phase = "done" =>
        Len(nodes) + Total([k \in DOMAIN omitted |-> 1 + omitted[k].descendants])
            = Cardinality(Requested)

(* Both together: a limit takes away neither more nor less than it says,   *)
(* and the omissions say how much that is.                                 *)
LimitsAreExact == BudgetKeepsPrefix /\ SizesAddUp
=============================================================================
