--------------------------- MODULE SliceCutProofs ---------------------------
(***************************************************************************)
(* For every document, every request and every budget: a slice accounts    *)
(* for every node under its roots exactly once, shows no id twice, marks   *)
(* the nodes whose children it left out, and keeps a prefix.               *)
(*                                                                         *)
(* The argument: the visits still to make and the omissions are subtrees   *)
(* that do not overlap, that hold no node already shown, and that together *)
(* with the nodes shown make up everything under the roots.  Replacing a   *)
(* visit by the visits of the children keeps it so, because the children   *)
(* of a node split what is below it.  In the same way, the visits are      *)
(* subtrees in the order of the document, behind every node shown, so that *)
(* what the node budget leaves out comes after all of these.               *)
(***************************************************************************)
EXTENDS SliceCut, DataFacts, FiniteSetTheorems, TLAPS

-----------------------------------------------------------------------------
(* Forests.                                                                *)

(* What is covered by both of two nodes puts one of them over the other.   *)
LEMMA OverlapIsNesting ==
    ASSUME NEW d, IsDocument(d), NEW a \in d.nodes, NEW b \in d.nodes, NEW o \in d.nodes,
           a = o \/ a \in d.above[o], b = o \/ b \in d.above[o]
    PROVE  a = b \/ a \in d.above[b] \/ b \in d.above[a]
  BY DEF IsDocument, IsForest

(* Nothing is above itself, through whatever it is above.                  *)
LEMMA NoCycle ==
    ASSUME NEW d, IsDocument(d), NEW a \in d.nodes, NEW b \in d.nodes, a \in d.above[b]
    PROVE  a # b /\ b \notin d.above[a]
  BY DEF IsDocument, IsForest

LEMMA CoversTransitive ==
    ASSUME NEW d, IsDocument(d), NEW a \in d.nodes, NEW b \in d.nodes, NEW o \in d.nodes,
           a \in d.above[b], b = o \/ b \in d.above[o]
    PROVE  a \in d.above[o]
  BY DEF IsDocument, IsForest

(* A child is below its parent and not above it.                           *)
LEMMA ChildFacts ==
    ASSUME NEW d, IsDocument(d), NEW v \in d.nodes, NEW k \in DOMAIN d.children[v]
    PROVE  /\ d.children[v][k] \in d.nodes
           /\ d.parent[d.children[v][k]] = v
           /\ v \in d.above[d.children[v][k]]
           /\ d.above[d.children[v][k]] = d.above[v] \cup {v}
  <1>1. d.children[v] \in Seq(d.nodes)
    BY DEF IsDocument
  <1>2. d.children[v][k] \in d.nodes
    BY <1>1
  <1>3. d.parent[d.children[v][k]] = v
    BY DEF IsDocument, ListsChildren
  <1>4. v # NoParent
    BY DEF IsDocument
  <1>5. d.above[d.children[v][k]] = d.above[v] \cup {v}
    <2>1. \A o \in d.nodes : d.parent[o] # NoParent =>
             d.above[o] = d.above[d.parent[o]] \cup {d.parent[o]}
      BY DEF IsDocument, IsForest
    <2> QED
      BY <1>2, <1>3, <1>4, <2>1
  <1>6. v \in d.above[d.children[v][k]]
    BY <1>5
  <1> QED
    BY <1>2, <1>3, <1>5, <1>6, Zenon

(* Two children of a node have nothing below them in common.               *)
LEMMA SiblingsApart ==
    ASSUME NEW d, IsDocument(d), NEW v \in d.nodes,
           NEW j \in DOMAIN d.children[v], NEW k \in DOMAIN d.children[v], j # k
    PROVE  /\ d.children[v][j] # d.children[v][k]
           /\ d.children[v][j] \notin d.above[d.children[v][k]]
  <1> DEFINE a == d.children[v][j]
             b == d.children[v][k]
  <1>1. a \in d.nodes /\ v \in d.above[a] /\ d.above[b] = d.above[v] \cup {v} /\ b \in d.nodes
    BY ChildFacts
  <1>2. a # b
    <2>1. d.children[v] \in Seq(d.nodes)
      BY DEF IsDocument
    <2>2. a \in Nat /\ b \in Nat
      BY <1>1 DEF IsDocument
    <2>3. j \in Nat /\ k \in Nat
      BY <2>1
    <2>4. j < k \/ k < j
      BY <2>3
    <2>5. \A x, y \in DOMAIN d.children[v] : x < y => d.children[v][x] < d.children[v][y]
      BY DEF IsDocument, ListsChildren
    <2> QED
      BY <2>2, <2>4, <2>5
  <1>3. a \notin d.above[v] /\ a # v
    BY <1>1, NoCycle
  <1> QED
    BY <1>1, <1>2, <1>3

(* What is below a node is a child of it or below one.                     *)
LEMMA ChildrenSplit ==
    ASSUME NEW d, IsDocument(d), NEW v \in d.nodes, NEW o \in d.nodes, v \in d.above[o]
    PROVE  \E k \in DOMAIN d.children[v] :
              d.children[v][k] = o \/ d.children[v][k] \in d.above[o]
  <1>1. PICK c \in d.nodes : d.parent[c] = v /\ (c = o \/ c \in d.above[o])
    BY DEF IsDocument, IsForest
  <1>2. PICK k \in DOMAIN d.children[v] : d.children[v][k] = c
    BY <1>1 DEF IsDocument, ListsChildren
  <1> QED
    BY <1>1, <1>2

-----------------------------------------------------------------------------
(* Types.                                                                  *)

TypeInv ==
    /\ doc \in Docs
    /\ request \in Requests
    /\ phase \in {"start", "visiting", "done", "refused"}
    /\ todo \in Seq(VisitType)
    /\ nodes \in Seq(NodeType)
    /\ omitted \in Seq(OmissionType)
    /\ cutByBudget \subseteq Ids(doc)

LEMMA DocIsDocument == TypeInv => IsDocument(doc)
  BY DocsAssumption DEF TypeInv

(* Ids are unique within a snapshot when no root lies inside another.      *)
UniqueIds == \A d \in Docs : \A o, q \in d.nodes : d.id[o] = d.id[q] => o = q

(* Every id is located: at the last of its occurrences.                    *)
LEMMA LocatedType ==
    ASSUME NEW d \in Docs, NEW i \in Ids(d)
    PROVE  Located(d, i) \in d.nodes /\ d.id[Located(d, i)] = i
  <1> DEFINE S == {o \in d.nodes : d.id[o] = i}
  <1>1. S # {} /\ S \subseteq d.nodes
    BY DEF Ids
  <1>2. d.nodes \subseteq Int /\ IsFiniteSet(d.nodes)
    BY DocsAssumption DEF IsDocument
  <1>3. IsFiniteSet(S)
    <2> HIDE DEF S
    <2> QED
      BY <1>1, <1>2, FS_Subset
  <1>4. PICK o \in S : \A q \in S : q <= o
    <2> HIDE DEF S
    <2> QED
      BY <1>1, <1>2, <1>3, GreatestInteger
  <1>5. o \in d.nodes /\ d.id[o] = i /\ \A q \in d.nodes : d.id[q] = i => q <= o
    BY <1>4
  <1> QED
    BY <1>5 DEF Located

LEMMA NodesAreFinite ==
    ASSUME doc \in Docs
    PROVE  IsFiniteSet(doc.nodes) /\ doc.nodes \subseteq Nat \ {NoParent}
  BY DocsAssumption DEF IsDocument

LEMMA DescendantsType == TypeInv => \A o \in doc.nodes : Descendants(o) \in Nat
  <1> SUFFICES ASSUME TypeInv, NEW o \in doc.nodes
               PROVE  Descendants(o) \in Nat
    OBVIOUS
  <1>1. IsFiniteSet(doc.nodes)
    BY DocIsDocument DEF IsDocument
  <1>2. IsFiniteSet({q \in doc.nodes : o \in doc.above[q]})
    BY <1>1, FS_Subset
  <1> QED
    BY <1>2, FS_CardinalityType DEF Descendants

(* The head of the list of visits, what is made of it, and its children.   *)
LEMMA HeadType ==
    ASSUME TypeInv, todo # <<>>
    PROVE  /\ Head(todo) \in VisitType
           /\ Head(todo).at \in doc.nodes
           /\ \A reason \in {"not-rendered", "max-nodes"} : Omission(Head(todo), reason) \in OmissionType
           /\ \A t \in {"no", "max-depth"} : Included(Head(todo), t) \in NodeType
           /\ Tail(todo) \in Seq(VisitType)
  <1>1. Head(todo) \in VisitType /\ Tail(todo) \in Seq(VisitType)
    BY TailFacts DEF TypeInv
  <1>2. Head(todo).at \in doc.nodes /\ Descendants(Head(todo).at) \in Nat
    BY <1>1, DescendantsType DEF VisitType
  <1> QED
    BY <1>1, <1>2 DEF VisitType, NodeType, OmissionType, Omission, Included

LEMMA BelowType ==
    ASSUME TypeInv, NEW v \in VisitType
    PROVE  /\ Below(v) \in Seq(VisitType)
           /\ DOMAIN Below(v) = DOMAIN doc.children[v.at]
           /\ Len(Below(v)) \in Nat
           /\ DOMAIN Below(v) = 1..Len(Below(v))
           /\ \A k \in DOMAIN Below(v) :
                /\ Below(v)[k] = Visit(doc.children[v.at][k], v.at, v.depth + 1)
                /\ Omission(Below(v)[k], "max-depth") \in OmissionType
           /\ [k \in DOMAIN Below(v) |-> Omission(Below(v)[k], "max-depth")] \in Seq(OmissionType)
  <1> DEFINE c == doc.children[v.at]
  <1>1. v.at \in doc.nodes /\ v.depth \in Nat
    BY DEF VisitType
  <1>2. c \in Seq(doc.nodes) /\ Len(c) \in Nat /\ DOMAIN c = 1..Len(c)
    BY <1>1, DocIsDocument DEF IsDocument
  <1>3. \A k \in DOMAIN c : Visit(c[k], v.at, v.depth + 1) \in VisitType
    BY <1>1, <1>2 DEF Visit, VisitType
  <1>4. Below(v) \in Seq(VisitType) /\ DOMAIN Below(v) = DOMAIN c
    BY <1>2, <1>3 DEF Below
  <1>5. \A k \in DOMAIN Below(v) : Below(v)[k] = Visit(c[k], v.at, v.depth + 1)
    BY <1>4 DEF Below
  <1>6. \A k \in DOMAIN Below(v) : Omission(Below(v)[k], "max-depth") \in OmissionType
    <2> SUFFICES ASSUME NEW k \in DOMAIN Below(v)
                 PROVE  Omission(Below(v)[k], "max-depth") \in OmissionType
      OBVIOUS
    <2>1. Below(v)[k] \in VisitType /\ Below(v)[k].at \in doc.nodes
      BY <1>3, <1>4, <1>5 DEF VisitType
    <2>2. Descendants(Below(v)[k].at) \in Nat
      BY <2>1, DescendantsType
    <2> QED
      BY <2>1, <2>2 DEF Omission, OmissionType, VisitType
  <1>7. Len(Below(v)) \in Nat /\ DOMAIN Below(v) = 1..Len(Below(v))
    BY <1>4
  <1>8. [k \in DOMAIN Below(v) |-> Omission(Below(v)[k], "max-depth")] \in Seq(OmissionType)
    BY <1>6, <1>7
  <1> QED
    BY <1>4, <1>5, <1>6, <1>7, <1>8

LEMMA TypeInit == Init => TypeInv
  BY DEF Init, TypeInv

LEMMA TypeStep ==
    ASSUME TypeInv, [Next]_vars
    PROVE  TypeInv'
  <1> USE DEF TypeInv
  <1>1. CASE Refuse
    BY <1>1 DEF Refuse, VisitType, NodeType, OmissionType
  <1>2. CASE Begin
    <2>1. PICK s \in [1..Len(request.roots) -> Elements(request.roots)] :
              todo' = [k \in DOMAIN s |-> Visit(Located(doc, s[k]), NoParent, 0)]
      BY <1>2 DEF Begin
    <2>2. \A k \in DOMAIN s : Located(doc, s[k]) \in doc.nodes
      BY <1>2, LocatedType DEF Begin, Acceptable
    <2>3. Len(request.roots) \in Nat
      BY RequestsAssumption DEF IsRequest
    <2>4. \A k \in DOMAIN s : Visit(Located(doc, s[k]), NoParent, 0) \in VisitType
      BY <2>2 DEF Visit, VisitType
    <2>5. todo' \in Seq(VisitType)
      BY <2>1, <2>3, <2>4
    <2> QED
      BY <1>2, <2>5 DEF Begin, VisitType, NodeType, OmissionType
  <1>3. CASE OmitHidden
    <2>1. Append(omitted, Omission(Head(todo), "not-rendered")) \in Seq(OmissionType)
      BY <1>3, HeadType, AppendFacts DEF OmitHidden
    <2> QED
      BY <1>3, <2>1, HeadType DEF OmitHidden, VisitType, NodeType, OmissionType
  <1>4. CASE OmitOverBudget
    <2>1. Append(omitted, Omission(Head(todo), "max-nodes")) \in Seq(OmissionType)
      BY <1>4, HeadType, AppendFacts DEF OmitOverBudget
    <2>2. cutByBudget' \subseteq Ids(doc)
      BY <1>4, HeadType DEF OmitOverBudget, VisitType, Ids
    <2> QED
      BY <1>4, <2>1, <2>2, HeadType DEF OmitOverBudget, VisitType, NodeType, OmissionType, Ids
  <1>5. CASE IncludeAtLimit
    <2> DEFINE v == Head(todo)
               more == [k \in DOMAIN Below(v) |-> Omission(Below(v)[k], "max-depth")]
    <2>1. Append(nodes, Included(v, IF Below(v) = <<>> THEN "no" ELSE "max-depth")) \in Seq(NodeType)
      BY <1>5, HeadType, AppendFacts DEF IncludeAtLimit
    <2>2. omitted \o more \in Seq(OmissionType)
      BY <1>5, HeadType, BelowType, ConcatFacts DEF IncludeAtLimit
    <2> QED
      BY <1>5, <2>1, <2>2, HeadType DEF IncludeAtLimit, VisitType, NodeType, OmissionType
  <1>6. CASE IncludeAndDescend
    <2> DEFINE v == Head(todo)
    <2>1. Append(nodes, Included(v, "no")) \in Seq(NodeType)
      BY <1>6, HeadType, AppendFacts DEF IncludeAndDescend
    <2>2. Below(v) \o Tail(todo) \in Seq(VisitType)
      BY <1>6, HeadType, BelowType, ConcatFacts DEF IncludeAndDescend
    <2> QED
      BY <1>6, <2>1, <2>2 DEF IncludeAndDescend, VisitType, NodeType, OmissionType
  <1>7. CASE Finish
    <2>1. nodes' \in Seq(NodeType)
      <3> DEFINE marked(x) == [x EXCEPT !.truncated = "max-nodes"]
      <3>0. \A k \in DOMAIN nodes : nodes[k] \in NodeType
        OBVIOUS
      <3>1. \A k \in DOMAIN nodes : marked(nodes[k]) \in NodeType
        BY <3>0 DEF NodeType
      <3>2. Len(nodes) \in Nat /\ DOMAIN nodes = 1..Len(nodes)
        OBVIOUS
      <3> DEFINE f == [k \in DOMAIN nodes |->
                        IF doc.id[nodes[k].at] \in cutByBudget
                        THEN [nodes[k] EXCEPT !.truncated = "max-nodes"] ELSE nodes[k]]
      <3>3. \A k \in 1..Len(nodes) : f[k] \in NodeType
        BY <3>0, <3>1, <3>2
      <3>4. f \in Seq(NodeType)
        BY <3>2, <3>3
      <3> QED
        BY <1>7, <3>4 DEF Finish
    <2> QED
      BY <1>7, <2>1 DEF Finish, VisitType, NodeType, OmissionType
  <1>8. CASE UNCHANGED vars
    BY <1>8 DEF vars, VisitType, NodeType, OmissionType
  <1> QED
    BY <1>1, <1>2, <1>3, <1>4, <1>5, <1>6, <1>7, <1>8 DEF Next

(* What a step adds to the slice is within the budget.                     *)
LEMMA BudgetStep ==
    ASSUME TypeInv, nodes # <<>> => Len(nodes) <= request.maxNodes, [Next]_vars
    PROVE  nodes' # <<>> => Len(nodes') <= request'.maxNodes
  <1>1. request.maxNodes \in Int /\ nodes \in Seq(NodeType) /\ Len(nodes) \in Nat
    BY RequestsAssumption DEF TypeInv, IsRequest
  <1>2. CASE IncludeAtLimit \/ IncludeAndDescend
    <2>1. PICK t \in {"no", "max-depth"} :
            request' = request /\ ~BudgetSpent /\ todo # <<>> /\ nodes' = Append(nodes, Included(Head(todo), t))
      BY <1>2 DEF IncludeAtLimit, IncludeAndDescend
    <2>2. Included(Head(todo), t) \in NodeType
      BY <2>1, HeadType
    <2>3. Len(nodes') = Len(nodes) + 1
      BY <1>1, <2>1, <2>2, AppendFacts
    <2> QED
      BY <1>1, <2>1, <2>3 DEF BudgetSpent
  <1>3. CASE Finish
    <2>1. DOMAIN nodes' = DOMAIN nodes /\ request' = request /\ nodes' \in Seq(NodeType')
      BY <1>3, TypeStep DEF Finish, TypeInv
    <2>2. DOMAIN nodes' = 1..Len(nodes') /\ Len(nodes') \in Nat /\ DOMAIN nodes = 1..Len(nodes)
      BY <1>1, <2>1
    <2>3. \A a, b \in Nat : 1..a = 1..b => a = b
      <3> SUFFICES ASSUME NEW a \in Nat, NEW b \in Nat, 1..a = 1..b  PROVE a = b
        OBVIOUS
      <3>1. (a # 0 => a \in 1..b) /\ (b # 0 => b \in 1..a)
        OBVIOUS
      <3> QED
        BY <3>1
    <2>4. Len(nodes') = Len(nodes)
      BY <1>1, <2>1, <2>2, <2>3
    <2>5. ASSUME nodes = <<>>  PROVE nodes' = <<>>
      <3>1. Len(nodes') = 0
        BY <2>4, <2>5
      <3> QED
        BY <2>1, <3>1
    <2> QED
      BY <2>1, <2>4, <2>5
  <1>4. CASE Refuse \/ Begin \/ OmitHidden \/ OmitOverBudget \/ UNCHANGED vars
    BY <1>4 DEF Refuse, Begin, OmitHidden, OmitOverBudget, vars
  <1> QED
    BY <1>2, <1>3, <1>4 DEF Next

(* Every variable has its type, and a slice never exceeds its budget.      *)
THEOREM SliceTypes == Spec => []TypeOK
  <1> DEFINE Inv == TypeInv /\ (nodes # <<>> => Len(nodes) <= request.maxNodes)
  <1>1. Init => Inv
    BY TypeInit DEF Init
  <1>2. Inv /\ [Next]_vars => Inv'
    BY TypeStep, BudgetStep
  <1>3. Inv => TypeOK
    BY DEF TypeInv, TypeOK
  <1> QED
    BY <1>1, <1>2, <1>3, PTL DEF Spec

-----------------------------------------------------------------------------
(* The invariant.                                                          *)

Working == phase \in {"visiting", "done"}

(* Visits to make and omissions are subtrees that do not overlap and hold  *)
(* no node that is shown; no node is shown twice.                          *)
TodoApart ==
    \A j, k \in DOMAIN todo : j # k => ~Covers(todo[j].at, todo[k].at)

OmittedApart ==
    \A j, k \in DOMAIN omitted : j # k => ~Covers(omitted[j].at, omitted[k].at)

TodoOmittedApart ==
    \A j \in DOMAIN todo, k \in DOMAIN omitted :
        ~Covers(todo[j].at, omitted[k].at) /\ ~Covers(omitted[k].at, todo[j].at)

ShownApart ==
    \A n \in DOMAIN nodes :
        /\ \A j \in DOMAIN todo : ~Covers(todo[j].at, nodes[n].at)
        /\ \A j \in DOMAIN omitted : ~Covers(omitted[j].at, nodes[n].at)
        /\ \A m \in DOMAIN nodes : m # n => nodes[m].at # nodes[n].at

Apart == TodoApart /\ OmittedApart /\ TodoOmittedApart /\ ShownApart

(* Together with the nodes shown they are everything asked for.            *)
Whole ==
    Working =>
        \A o \in Requested :
            \/ \E n \in DOMAIN nodes : nodes[n].at = o
            \/ \E j \in DOMAIN todo : Covers(todo[j].at, o)
            \/ \E k \in DOMAIN omitted : Covers(omitted[k].at, o)

Partition == TypeInv /\ Apart /\ Whole /\ (phase = "start" => todo = <<>> /\ nodes = <<>> /\ omitted = <<>>)
                     /\ (phase = "done" => todo = <<>>)

LEMMA PartitionInit == Init => Partition
  BY TypeInit DEF Init, Partition, Apart, TodoApart, OmittedApart, TodoOmittedApart, ShownApart, Whole, Working

(* The first visits: one for each root, and no root lies inside another.   *)
LEMMA PartitionBegin ==
    ASSUME UniqueIds, Partition, Begin
    PROVE  Apart' /\ Whole'
  <1>1. PICK s \in [1..Len(request.roots) -> Elements(request.roots)] :
            /\ IsAscending(s)
            /\ Elements(s) = Elements(request.roots)
            /\ todo' = [k \in DOMAIN s |-> Visit(Located(doc, s[k]), NoParent, 0)]
    BY DEF Begin
  <1> DEFINE at(k) == Located(doc, s[k])
  <1>2. DOMAIN todo' = DOMAIN s /\ \A k \in DOMAIN s : todo'[k].at = at(k)
    BY <1>1 DEF Visit
  <1>3. \A k \in DOMAIN s : /\ s[k] \in Elements(request.roots)
                           /\ at(k) \in doc.nodes
                           /\ doc.id[at(k)] = s[k]
    BY <1>1, LocatedType DEF Begin, Acceptable, Partition, TypeInv
  <1>4. \A j, k \in DOMAIN s : j # k => ~Covers(at(j), at(k))
    <2> SUFFICES ASSUME NEW j \in DOMAIN s, NEW k \in DOMAIN s, j # k, Covers(at(j), at(k))
                 PROVE  FALSE
      OBVIOUS
    <2>1. CASE at(j) = at(k)
      <3>1. s[j] = s[k]
        BY <2>1, <1>3
      <3>2. \A i \in DOMAIN s : i \in Nat /\ s[i] \in Nat
        <4>1. Len(request.roots) \in Nat /\ \A i \in DOMAIN request.roots : request.roots[i] \in Nat
          BY RequestsAssumption DEF IsRequest, Partition, TypeInv
        <4> QED
          BY <4>1, <1>3 DEF Elements
      <3>3. j < k \/ k < j
        BY <3>2
      <3> QED
        BY <3>1, <3>2, <3>3, <1>1 DEF IsAscending
    <2>2. CASE at(j) \in doc.above[at(k)]
      <3>1. Enclosed(doc, request.roots)
        BY <2>2, <1>3 DEF Enclosed
      <3> QED
        BY <3>1 DEF Begin, Acceptable
    <2> QED
      BY <2>1, <2>2 DEF Covers
  <1>5. nodes' = <<>> /\ omitted' = <<>> /\ doc' = doc /\ request' = request
    BY DEF Begin, Partition
  <1>6. Apart'
    BY <1>2, <1>4, <1>5 DEF Apart, TodoApart, OmittedApart, TodoOmittedApart, ShownApart, Covers
  <1>7. \A o \in Requested : \E k \in DOMAIN s : Covers(at(k), o)
    BY <1>1 DEF Requested, Elements
  <1> QED
    BY <1>2, <1>5, <1>6, <1>7 DEF Whole, Requested, Covers

(* A visit that ends in an omission: the subtree changes its list.         *)
LEMMA PartitionOmit ==
    ASSUME Partition, OmitHidden \/ OmitOverBudget
    PROVE  Apart' /\ Whole'
  <1> USE DEF Partition
  <1>1. PICK e \in OmissionType :
            /\ todo # <<>> /\ phase = "visiting" /\ phase' = "visiting"
            /\ e.at = Head(todo).at
            /\ omitted' = Append(omitted, e)
            /\ todo' = Tail(todo)
            /\ nodes' = nodes /\ doc' = doc /\ request' = request
    BY HeadType DEF OmitHidden, OmitOverBudget, Omission
  <1> DEFINE n == Len(omitted) + 1
  <1>2. /\ DOMAIN omitted' = DOMAIN omitted \cup {n}
        /\ n \notin DOMAIN omitted
        /\ \A k \in DOMAIN omitted : omitted'[k] = omitted[k]
        /\ omitted'[n].at = todo[1].at
    BY <1>1, AppendFacts, TailFacts DEF TypeInv
  <1>3. /\ 1 \in DOMAIN todo
        /\ \A k \in DOMAIN todo' : k + 1 \in DOMAIN todo /\ k + 1 # 1 /\ todo'[k] = todo[k + 1]
        /\ \A k, j \in DOMAIN todo' : k # j => k + 1 # j + 1
        /\ \A k \in DOMAIN todo : k = 1 \/ (k - 1 \in DOMAIN todo' /\ todo'[k - 1] = todo[k])
    BY <1>1, TailFacts DEF TypeInv
  <1> HIDE DEF n
  <1>4. TodoApart'
    BY <1>1, <1>3 DEF Apart, TodoApart, Covers
  <1>5. OmittedApart'
    BY <1>1, <1>2, <1>3 DEF Apart, OmittedApart, TodoOmittedApart, Covers
  <1>6. TodoOmittedApart'
    BY <1>1, <1>2, <1>3 DEF Apart, TodoApart, TodoOmittedApart, Covers
  <1>7. ShownApart'
    BY <1>1, <1>2, <1>3 DEF Apart, ShownApart, Covers
  <1>8. Whole'
    <2> SUFFICES ASSUME NEW o \in Requested
                 PROVE  \/ \E m \in DOMAIN nodes : nodes[m].at = o
                        \/ \E j \in DOMAIN todo' : Covers(todo'[j].at, o)
                        \/ \E k \in DOMAIN omitted' : Covers(omitted'[k].at, o)
      BY <1>1 DEF Whole, Requested, Covers
    <2>1. CASE \E m \in DOMAIN nodes : nodes[m].at = o
      BY <2>1
    <2>2. CASE \E j \in DOMAIN todo : Covers(todo[j].at, o)
      BY <2>2, <1>2, <1>3
    <2>3. CASE \E k \in DOMAIN omitted : Covers(omitted[k].at, o)
      BY <2>3, <1>2
    <2> QED
      BY <2>1, <2>2, <2>3, <1>1 DEF Whole, Working
  <1> QED
    BY <1>4, <1>5, <1>6, <1>7, <1>8 DEF Apart

(* The children of a node split what is below it, and touch nothing that   *)
(* the node did not touch.                                                 *)
LEMMA BelowSplits ==
    ASSUME TypeInv, NEW v \in VisitType
    PROVE  /\ \A k \in DOMAIN Below(v) : Below(v)[k].at \in doc.nodes
           /\ \A k \in DOMAIN Below(v) : ~Covers(Below(v)[k].at, v.at)
           /\ \A j, k \in DOMAIN Below(v) : j # k => ~Covers(Below(v)[j].at, Below(v)[k].at)
           /\ \A k \in DOMAIN Below(v), x \in doc.nodes :
                ~Covers(v.at, x) => ~Covers(Below(v)[k].at, x)
           /\ \A k \in DOMAIN Below(v), x \in doc.nodes :
                ~Covers(v.at, x) /\ ~Covers(x, v.at) => ~Covers(x, Below(v)[k].at)
           /\ \A o \in doc.nodes :
                Covers(v.at, o) => o = v.at \/ \E k \in DOMAIN Below(v) : Covers(Below(v)[k].at, o)
  <1> DEFINE c == doc.children[v.at]
  <1>1. v.at \in doc.nodes /\ IsDocument(doc)
    BY DocIsDocument DEF VisitType
  <1>2. DOMAIN Below(v) = DOMAIN c /\ \A k \in DOMAIN c : Below(v)[k].at = c[k]
    <2>1. DOMAIN Below(v) = DOMAIN c
      BY BelowType
    <2>2. \A k \in DOMAIN c : Below(v)[k] = Visit(c[k], v.at, v.depth + 1)
      BY BelowType
    <2>3. \A x, p, n : Visit(x, p, n).at = x
      BY DEF Visit
    <2> HIDE DEF c
    <2> QED
      BY <2>1, <2>2, <2>3
  <1>3. \A k \in DOMAIN c : /\ c[k] \in doc.nodes
                           /\ v.at \in doc.above[c[k]]
                           /\ doc.above[c[k]] = doc.above[v.at] \cup {v.at}
    BY <1>1, ChildFacts
  <1>4. \A k \in DOMAIN c : ~Covers(c[k], v.at)
    BY <1>1, <1>3, NoCycle DEF Covers
  <1>5. \A j, k \in DOMAIN c : j # k => ~Covers(c[j], c[k])
    BY <1>1, SiblingsApart DEF Covers
  <1>6. \A k \in DOMAIN c, x \in doc.nodes : ~Covers(v.at, x) => ~Covers(c[k], x)
    BY <1>1, <1>3, CoversTransitive DEF Covers
  <1>7. \A k \in DOMAIN c, x \in doc.nodes :
           ~Covers(v.at, x) /\ ~Covers(x, v.at) => ~Covers(x, c[k])
    BY <1>1, <1>3 DEF Covers
  <1>8. \A o \in doc.nodes : Covers(v.at, o) => o = v.at \/ \E k \in DOMAIN c : Covers(c[k], o)
    BY <1>1, ChildrenSplit DEF Covers
  <1> HIDE DEF c
  <1> QED
    BY <1>2, <1>3, <1>4, <1>5, <1>6, <1>7, <1>8

(* Where the subtrees of the invariant are.                                *)
LEMMA EntriesInDocument ==
    ASSUME TypeInv
    PROVE  /\ \A k \in DOMAIN todo : todo[k].at \in doc.nodes
           /\ \A k \in DOMAIN omitted : omitted[k].at \in doc.nodes
           /\ \A k \in DOMAIN nodes : nodes[k].at \in doc.nodes
           /\ Requested \subseteq doc.nodes
  <1>1. \A k \in DOMAIN todo : todo[k] \in VisitType
    BY DEF TypeInv
  <1>2. \A k \in DOMAIN omitted : omitted[k] \in OmissionType
    BY DEF TypeInv
  <1>3. \A k \in DOMAIN nodes : nodes[k] \in NodeType
    BY DEF TypeInv
  <1> QED
    BY <1>1, <1>2, <1>3 DEF VisitType, OmissionType, NodeType, Requested

(* At the depth limit the node is shown and its children are omitted.      *)
LEMMA PartitionAtLimit ==
    ASSUME Partition, IncludeAtLimit
    PROVE  Apart' /\ Whole'
  <1> USE DEF Partition
  <1> DEFINE v == Head(todo)
             B == Below(v)
             more == [k \in DOMAIN B |-> Omission(B[k], "max-depth")]
             L == Len(omitted)
             n == Len(nodes) + 1
  <1>1. /\ todo # <<>> /\ phase = "visiting" /\ phase' = "visiting"
        /\ omitted' = omitted \o more
        /\ todo' = Tail(todo)
        /\ doc' = doc /\ request' = request
    BY DEF IncludeAtLimit
  <1>2. /\ v \in VisitType /\ v.at = todo[1].at /\ 1 \in DOMAIN todo
        /\ \A k \in DOMAIN todo' : k + 1 \in DOMAIN todo /\ k + 1 # 1 /\ todo'[k] = todo[k + 1]
        /\ \A k, j \in DOMAIN todo' : k # j => k + 1 # j + 1
        /\ \A k \in DOMAIN todo : k = 1 \/ (k - 1 \in DOMAIN todo' /\ todo'[k - 1] = todo[k])
    BY <1>1, TailFacts, HeadType DEF TypeInv
  <1>3. /\ DOMAIN nodes' = DOMAIN nodes \cup {n}
        /\ n \notin DOMAIN nodes
        /\ \A k \in DOMAIN nodes : nodes'[k] = nodes[k]
        /\ nodes'[n].at = v.at
    BY <1>1, HeadType, AppendFacts DEF TypeInv, IncludeAtLimit, Included
  <1>4. more \in Seq(OmissionType) /\ DOMAIN more = DOMAIN B /\ \A k \in DOMAIN B : more[k].at = B[k].at
    BY <1>2, BelowType DEF Omission
  <1>5. /\ \A k \in DOMAIN omitted : k \in DOMAIN omitted' /\ omitted'[k] = omitted[k]
        /\ \A k \in DOMAIN B : k + L \in DOMAIN omitted' /\ omitted'[k + L].at = B[k].at
        /\ \A k \in DOMAIN omitted' :
             \/ k \in DOMAIN omitted /\ omitted'[k] = omitted[k]
             \/ k - L \in DOMAIN B /\ omitted'[k].at = B[k - L].at
        /\ \A j, k \in DOMAIN omitted' : j # k => j - L # k - L
    <2>1. omitted \in Seq(OmissionType) /\ L \in Nat /\ Len(more) \in Nat
      BY <1>4 DEF TypeInv
    <2> HIDE DEF more
    <2>2. /\ DOMAIN omitted' = 1..(L + Len(more))
          /\ \A k \in DOMAIN omitted : k \in DOMAIN omitted' /\ omitted'[k] = omitted[k]
          /\ \A k \in DOMAIN more : k + L \in DOMAIN omitted' /\ omitted'[k + L] = more[k]
          /\ \A k \in DOMAIN omitted' :
               \/ k \in DOMAIN omitted /\ omitted'[k] = omitted[k]
               \/ k - L \in DOMAIN more /\ omitted'[k] = more[k - L]
      BY <1>1, <1>4, <2>1, ConcatFacts
    <2>3. \A j, k \in DOMAIN omitted' : j # k => j - L # k - L
      BY <2>1, <2>2
    <2> HIDE DEF L
    <2> QED
      BY <2>2, <2>3, <1>4
  <1>6. TypeInv
    OBVIOUS
  <1> HIDE DEF v, B, more, L, n
  <1>7. /\ \A k \in DOMAIN B : B[k].at \in doc.nodes
        /\ \A k \in DOMAIN B : ~Covers(B[k].at, v.at)
        /\ \A j, k \in DOMAIN B : j # k => ~Covers(B[j].at, B[k].at)
        /\ \A k \in DOMAIN B, x \in doc.nodes : ~Covers(v.at, x) => ~Covers(B[k].at, x)
        /\ \A k \in DOMAIN B, x \in doc.nodes :
             ~Covers(v.at, x) /\ ~Covers(x, v.at) => ~Covers(x, B[k].at)
        /\ \A o \in doc.nodes : Covers(v.at, o) => o = v.at \/ \E k \in DOMAIN B : Covers(B[k].at, o)
    BY <1>2, <1>6, BelowSplits DEF B
  <1>8. /\ \A k \in DOMAIN todo : todo[k].at \in doc.nodes
        /\ \A k \in DOMAIN omitted : omitted[k].at \in doc.nodes
        /\ \A k \in DOMAIN nodes : nodes[k].at \in doc.nodes
        /\ Requested \subseteq doc.nodes
    BY <1>6, EntriesInDocument
  <1>9. /\ \A k \in DOMAIN omitted : ~Covers(v.at, omitted[k].at) /\ ~Covers(omitted[k].at, v.at)
        /\ \A k \in DOMAIN todo' : ~Covers(v.at, todo'[k].at) /\ ~Covers(todo'[k].at, v.at)
        /\ \A k \in DOMAIN nodes : ~Covers(v.at, nodes[k].at)
    BY <1>2 DEF Apart, TodoApart, TodoOmittedApart, ShownApart
  <1>10. TodoApart'
    BY <1>1, <1>2 DEF Apart, TodoApart, Covers
  <1>11. OmittedApart'
    <2> SUFFICES ASSUME NEW j \in DOMAIN omitted', NEW k \in DOMAIN omitted', j # k
                 PROVE  ~Covers(omitted'[j].at, omitted'[k].at)
      BY <1>1 DEF OmittedApart, Covers
    <2>1. CASE j \in DOMAIN omitted /\ omitted'[j] = omitted[j]
      BY <2>1, <1>5, <1>7, <1>8, <1>9 DEF Apart, OmittedApart
    <2>2. CASE j - L \in DOMAIN B /\ omitted'[j].at = B[j - L].at
      BY <2>2, <1>5, <1>7, <1>8, <1>9
    <2> QED
      BY <2>1, <2>2, <1>5
  <1>12. TodoOmittedApart'
    <2> SUFFICES ASSUME NEW j \in DOMAIN todo', NEW k \in DOMAIN omitted'
                 PROVE  ~Covers(todo'[j].at, omitted'[k].at) /\ ~Covers(omitted'[k].at, todo'[j].at)
      BY <1>1 DEF TodoOmittedApart, Covers
    <2>1. CASE k \in DOMAIN omitted /\ omitted'[k] = omitted[k]
      BY <2>1, <1>2 DEF Apart, TodoOmittedApart
    <2>2. CASE k - L \in DOMAIN B /\ omitted'[k].at = B[k - L].at
      BY <2>2, <1>2, <1>7, <1>8, <1>9
    <2> QED
      BY <2>1, <2>2, <1>5
  <1>13. ShownApart'
    <2>1. \A x \in DOMAIN nodes' : (nodes'[x].at = v.at /\ x = n) \/ (x \in DOMAIN nodes /\ nodes'[x] = nodes[x])
      BY <1>3
    <2>2. \A x \in DOMAIN nodes', j \in DOMAIN todo' : ~Covers(todo'[j].at, nodes'[x].at)
      BY <2>1, <1>2, <1>9 DEF Apart, ShownApart
    <2>3. \A x \in DOMAIN nodes', j \in DOMAIN omitted' : ~Covers(omitted'[j].at, nodes'[x].at)
      <3> SUFFICES ASSUME NEW x \in DOMAIN nodes', NEW j \in DOMAIN omitted'
                   PROVE  ~Covers(omitted'[j].at, nodes'[x].at)
        OBVIOUS
      <3>1. CASE j \in DOMAIN omitted /\ omitted'[j] = omitted[j]
        BY <3>1, <2>1, <1>9 DEF Apart, ShownApart
      <3>2. CASE j - L \in DOMAIN B /\ omitted'[j].at = B[j - L].at
        BY <3>2, <2>1, <1>7, <1>8, <1>9
      <3> QED
        BY <3>1, <3>2, <1>5
    <2>4. \A x, y \in DOMAIN nodes' : y # x => nodes'[y].at # nodes'[x].at
      BY <2>1, <1>9 DEF Apart, ShownApart, Covers
    <2> QED
      BY <2>2, <2>3, <2>4, <1>1 DEF ShownApart, Covers
  <1>14. Whole'
    <2> SUFFICES ASSUME NEW o \in Requested
                 PROVE  \/ \E m \in DOMAIN nodes' : nodes'[m].at = o
                        \/ \E j \in DOMAIN todo' : Covers(todo'[j].at, o)
                        \/ \E k \in DOMAIN omitted' : Covers(omitted'[k].at, o)
      BY <1>1 DEF Whole, Requested, Covers
    <2>1. CASE \E m \in DOMAIN nodes : nodes[m].at = o
      BY <2>1, <1>3
    <2>2. CASE \E j \in DOMAIN todo : Covers(todo[j].at, o)
      BY <2>2, <1>2, <1>3, <1>5, <1>7, <1>8
    <2>3. CASE \E k \in DOMAIN omitted : Covers(omitted[k].at, o)
      BY <2>3, <1>5
    <2> QED
      BY <2>1, <2>2, <2>3, <1>1 DEF Whole, Working
  <1> QED
    BY <1>10, <1>11, <1>12, <1>13, <1>14 DEF Apart

(* Otherwise the node is shown and its children take its place.            *)
LEMMA PartitionDescend ==
    ASSUME Partition, IncludeAndDescend
    PROVE  Apart' /\ Whole'
  <1> USE DEF Partition
  <1> DEFINE v == Head(todo)
             B == Below(v)
             rest == Tail(todo)
             L == Len(B)
             n == Len(nodes) + 1
  <1>1. /\ todo # <<>> /\ phase = "visiting" /\ phase' = "visiting"
        /\ todo' = B \o rest
        /\ omitted' = omitted /\ doc' = doc /\ request' = request
    BY DEF IncludeAndDescend
  <1>2. /\ v \in VisitType /\ v.at = todo[1].at /\ 1 \in DOMAIN todo
        /\ rest \in Seq(VisitType)
        /\ \A k \in DOMAIN rest : k + 1 \in DOMAIN todo /\ k + 1 # 1 /\ rest[k] = todo[k + 1]
        /\ \A k, j \in DOMAIN rest : k # j => k + 1 # j + 1
        /\ \A k \in DOMAIN todo : k = 1 \/ (k - 1 \in DOMAIN rest /\ rest[k - 1] = todo[k])
    BY <1>1, TailFacts, HeadType DEF TypeInv
  <1>3. /\ DOMAIN nodes' = DOMAIN nodes \cup {n}
        /\ n \notin DOMAIN nodes
        /\ \A k \in DOMAIN nodes : nodes'[k] = nodes[k]
        /\ nodes'[n].at = v.at
    BY <1>1, HeadType, AppendFacts DEF TypeInv, IncludeAndDescend, Included
  <1>4. B \in Seq(VisitType)
    BY <1>2, BelowType
  <1>5. /\ \A k \in DOMAIN B : k \in DOMAIN todo' /\ todo'[k] = B[k]
        /\ \A k \in DOMAIN rest : k + L \in DOMAIN todo' /\ todo'[k + L] = rest[k]
        /\ \A k \in DOMAIN todo' :
             \/ k \in DOMAIN B /\ todo'[k] = B[k]
             \/ k - L \in DOMAIN rest /\ todo'[k] = rest[k - L]
        /\ \A j, k \in DOMAIN todo' : j # k => j - L # k - L
    <2>1. todo' = B \o rest /\ rest \in Seq(VisitType) /\ B \in Seq(VisitType)
      BY <1>1, <1>2, <1>4
    <2> HIDE DEF B, rest
    <2>2. /\ \A k \in DOMAIN B : k \in DOMAIN todo' /\ todo'[k] = B[k]
          /\ \A k \in DOMAIN rest : k + L \in DOMAIN todo' /\ todo'[k + L] = rest[k]
          /\ \A k \in DOMAIN todo' :
               \/ k \in DOMAIN B /\ todo'[k] = B[k]
               \/ k - L \in DOMAIN rest /\ todo'[k] = rest[k - L]
      BY <2>1, ConcatFacts
    <2>3. DOMAIN todo' = 1..(Len(B) + Len(rest)) /\ L \in Nat /\ Len(rest) \in Nat
      BY <2>1, ConcatFacts
    <2>4. \A j, k \in DOMAIN todo' : j # k => j - L # k - L
      BY <2>3
    <2> QED
      BY <2>2, <2>4
  <1>6. TypeInv
    OBVIOUS
  <1> HIDE DEF v, B, rest, L, n
  <1>7. /\ \A k \in DOMAIN B : B[k].at \in doc.nodes
        /\ \A k \in DOMAIN B : ~Covers(B[k].at, v.at)
        /\ \A j, k \in DOMAIN B : j # k => ~Covers(B[j].at, B[k].at)
        /\ \A k \in DOMAIN B, x \in doc.nodes : ~Covers(v.at, x) => ~Covers(B[k].at, x)
        /\ \A k \in DOMAIN B, x \in doc.nodes :
             ~Covers(v.at, x) /\ ~Covers(x, v.at) => ~Covers(x, B[k].at)
        /\ \A o \in doc.nodes : Covers(v.at, o) => o = v.at \/ \E k \in DOMAIN B : Covers(B[k].at, o)
    BY <1>2, <1>6, BelowSplits DEF B
  <1>8. /\ \A k \in DOMAIN rest : rest[k].at \in doc.nodes
        /\ \A k \in DOMAIN omitted : omitted[k].at \in doc.nodes
        /\ \A k \in DOMAIN nodes : nodes[k].at \in doc.nodes
        /\ Requested \subseteq doc.nodes
    BY <1>2, <1>6, EntriesInDocument
  <1>9. /\ \A k \in DOMAIN omitted : ~Covers(v.at, omitted[k].at) /\ ~Covers(omitted[k].at, v.at)
        /\ \A k \in DOMAIN rest : ~Covers(v.at, rest[k].at) /\ ~Covers(rest[k].at, v.at)
        /\ \A k \in DOMAIN nodes : ~Covers(v.at, nodes[k].at)
        /\ \A j, k \in DOMAIN rest : j # k => ~Covers(rest[j].at, rest[k].at)
        /\ \A j \in DOMAIN rest, k \in DOMAIN omitted :
             ~Covers(rest[j].at, omitted[k].at) /\ ~Covers(omitted[k].at, rest[j].at)
        /\ \A j \in DOMAIN rest, k \in DOMAIN nodes : ~Covers(rest[j].at, nodes[k].at)
    BY <1>2 DEF Apart, TodoApart, TodoOmittedApart, ShownApart
  <1>10. TodoApart'
    <2> SUFFICES ASSUME NEW j \in DOMAIN todo', NEW k \in DOMAIN todo', j # k
                 PROVE  ~Covers(todo'[j].at, todo'[k].at)
      BY <1>1 DEF TodoApart, Covers
    <2>1. CASE j \in DOMAIN B /\ todo'[j] = B[j]
      BY <2>1, <1>5, <1>7, <1>8, <1>9
    <2>2. CASE j - L \in DOMAIN rest /\ todo'[j] = rest[j - L]
      BY <2>2, <1>5, <1>7, <1>8, <1>9
    <2> QED
      BY <2>1, <2>2, <1>5
  <1>11. OmittedApart'
    BY <1>1 DEF Apart, OmittedApart, Covers
  <1>12. TodoOmittedApart'
    <2> SUFFICES ASSUME NEW j \in DOMAIN todo', NEW k \in DOMAIN omitted
                 PROVE  ~Covers(todo'[j].at, omitted[k].at) /\ ~Covers(omitted[k].at, todo'[j].at)
      BY <1>1 DEF TodoOmittedApart, Covers
    <2>1. CASE j \in DOMAIN B /\ todo'[j] = B[j]
      BY <2>1, <1>7, <1>8, <1>9
    <2>2. CASE j - L \in DOMAIN rest /\ todo'[j] = rest[j - L]
      BY <2>2, <1>9
    <2> QED
      BY <2>1, <2>2, <1>5
  <1>13. ShownApart'
    <2>1. \A x \in DOMAIN nodes' : (nodes'[x].at = v.at /\ x = n) \/ (x \in DOMAIN nodes /\ nodes'[x] = nodes[x])
      BY <1>3
    <2>2. \A x \in DOMAIN nodes', j \in DOMAIN todo' : ~Covers(todo'[j].at, nodes'[x].at)
      BY <2>1, <1>5, <1>7, <1>8, <1>9
    <2>3. \A x \in DOMAIN nodes', j \in DOMAIN omitted : ~Covers(omitted[j].at, nodes'[x].at)
      BY <2>1, <1>9 DEF Apart, ShownApart
    <2>4. \A x, y \in DOMAIN nodes' : y # x => nodes'[y].at # nodes'[x].at
      BY <2>1, <1>9 DEF Apart, ShownApart, Covers
    <2> QED
      BY <2>2, <2>3, <2>4, <1>1 DEF ShownApart, Covers
  <1>14. Whole'
    <2> SUFFICES ASSUME NEW o \in Requested
                 PROVE  \/ \E m \in DOMAIN nodes' : nodes'[m].at = o
                        \/ \E j \in DOMAIN todo' : Covers(todo'[j].at, o)
                        \/ \E k \in DOMAIN omitted : Covers(omitted[k].at, o)
      BY <1>1 DEF Whole, Requested, Covers
    <2>1. CASE \E m \in DOMAIN nodes : nodes[m].at = o
      BY <2>1, <1>3
    <2>2. CASE \E j \in DOMAIN todo : Covers(todo[j].at, o)
      BY <2>2, <1>2, <1>3, <1>5, <1>7, <1>8
    <2>3. CASE \E k \in DOMAIN omitted : Covers(omitted[k].at, o)
      BY <2>3
    <2> QED
      BY <2>1, <2>2, <2>3, <1>1 DEF Whole, Working
  <1> QED
    BY <1>10, <1>11, <1>12, <1>13, <1>14 DEF Apart

LEMMA PartitionStep ==
    ASSUME UniqueIds, Partition, [Next]_vars
    PROVE  Partition'
  <1> DEFINE Ends == /\ (phase = "start" => todo = <<>> /\ nodes = <<>> /\ omitted = <<>>)
                     /\ (phase = "done" => todo = <<>>)
  <1>1. TypeInv'
    BY TypeStep DEF Partition
  <1>2. Ends'
    BY DEF Partition, Next, vars, Refuse, Begin, OmitHidden, OmitOverBudget, IncludeAtLimit,
           IncludeAndDescend, Finish
  <1>3. Apart' /\ Whole'
    <2>1. CASE Refuse
      BY <2>1 DEF Refuse, Partition, Apart, TodoApart, OmittedApart, TodoOmittedApart,
                  ShownApart, Whole, Working, Covers
    <2>2. CASE Begin
      BY <2>2, PartitionBegin
    <2>3. CASE OmitHidden
      BY <2>3, PartitionOmit
    <2>4. CASE OmitOverBudget
      BY <2>4, PartitionOmit
    <2>5. CASE IncludeAtLimit
      BY <2>5, PartitionAtLimit
    <2>6. CASE IncludeAndDescend
      BY <2>6, PartitionDescend
    <2>7. CASE Finish
      <3>1. DOMAIN nodes' = DOMAIN nodes /\ \A k \in DOMAIN nodes : nodes'[k].at = nodes[k].at
        BY <2>7 DEF Finish, Partition, TypeInv, NodeType
      <3> QED
        BY <2>7, <3>1 DEF Finish, Partition, Apart, TodoApart, OmittedApart, TodoOmittedApart,
                    ShownApart, Whole, Working, Covers, Requested
    <2>8. CASE UNCHANGED vars
      BY <2>8 DEF vars, Partition, Apart, TodoApart, OmittedApart, TodoOmittedApart,
                  ShownApart, Whole, Working, Covers, Requested
    <2> QED
      BY <2>1, <2>2, <2>3, <2>4, <2>5, <2>6, <2>7, <2>8 DEF Next
  <1> QED
    BY <1>1, <1>2, <1>3 DEF Partition

(* cutSlice: when the traversal is over, everything under the roots is     *)
(* either in the slice or below exactly one omission.                      *)
LEMMA PartitionIsAccount == Partition => EveryNodeAccounted
  <1> SUFFICES ASSUME Partition, phase = "done", NEW o \in Requested
               PROVE  IF o \in Shown
                      THEN \A k \in DOMAIN omitted : ~Covers(omitted[k].at, o)
                      ELSE \E k \in DOMAIN omitted :
                             /\ Covers(omitted[k].at, o)
                             /\ \A j \in DOMAIN omitted : Covers(omitted[j].at, o) => j = k
    BY DEF EveryNodeAccounted
  <1>1. CASE o \in Shown
    BY <1>1 DEF Shown, Partition, Apart, ShownApart
  <1>2. CASE o \notin Shown
    <2>1. PICK k \in DOMAIN omitted : Covers(omitted[k].at, o)
      BY <1>2 DEF Shown, Partition, Whole, Working
    <2>2. \A j \in DOMAIN omitted : Covers(omitted[j].at, o) => j = k
      <3> SUFFICES ASSUME NEW j \in DOMAIN omitted, Covers(omitted[j].at, o), j # k
                   PROVE  FALSE
        OBVIOUS
      <3>1. o \in doc.nodes /\ omitted[j].at \in doc.nodes /\ omitted[k].at \in doc.nodes
        BY EntriesInDocument DEF Partition
      <3>2. Covers(omitted[j].at, omitted[k].at) \/ Covers(omitted[k].at, omitted[j].at)
        BY <2>1, <3>1, OverlapIsNesting, DocIsDocument DEF Covers, Partition
      <3> QED
        BY <3>2 DEF Partition, Apart, OmittedApart
    <2> QED
      BY <1>2, <2>1, <2>2
  <1> QED
    BY <1>1, <1>2

THEOREM SlicePartitions == UniqueIds => (Spec => []Partition)
  <1> SUFFICES ASSUME UniqueIds PROVE Spec => []Partition
    OBVIOUS
  <1>1. Init => Partition
    BY PartitionInit
  <1>2. Partition /\ [Next]_vars => Partition'
    BY PartitionStep
  <1> QED
    BY <1>1, <1>2, PTL DEF Spec

(* "A slice that hides its omissions reads as complete": none does.        *)
THEOREM SliceAccountsForEveryNode == UniqueIds => (Spec => []EveryNodeAccounted)
  BY SlicePartitions, PartitionIsAccount, PTL

(* cutSlice: no node is in a slice twice, under two parents.               *)
THEOREM SliceShowsIdsOnce == UniqueIds => (Spec => []EachIdOnce)
  <1> SUFFICES ASSUME UniqueIds PROVE Spec => []EachIdOnce
    OBVIOUS
  <1>1. Partition => EachIdOnce
    <2> SUFFICES ASSUME Partition, NEW j \in DOMAIN nodes, NEW k \in DOMAIN nodes,
                        doc.id[nodes[j].at] = doc.id[nodes[k].at]
                 PROVE  j = k
      BY DEF EachIdOnce
    <2>1. nodes[j].at = nodes[k].at
      BY EntriesInDocument DEF Partition, UniqueIds, TypeInv
    <2> QED
      BY <2>1 DEF Partition, Apart, ShownApart
  <1> QED
    BY <1>1, SlicePartitions, PTL
-----------------------------------------------------------------------------
(* The marks.  While visits are still to be made, a node with a visit to   *)
(* come among its children is not marked, and what is marked or remembered *)
(* as cut by the budget agrees with the omissions made so far.             *)

HasOmission(a, reason) ==
    \E j \in DOMAIN omitted : omitted[j].parent = a /\ omitted[j].reason = reason

Linked ==
    \A k \in DOMAIN todo :
        \/ todo[k].parent = NoParent
        \/ \E n \in DOMAIN nodes : /\ nodes[n].at = todo[k].parent
                                   /\ todo[k].depth = nodes[n].depth + 1
                                   /\ nodes[n].truncated = "no"

OmittedBelowShown ==
    \A k \in DOMAIN omitted :
        omitted[k].parent = NoParent \/ \E n \in DOMAIN nodes : nodes[n].at = omitted[k].parent

CutIsShown == \A i \in cutByBudget : \E n \in DOMAIN nodes : doc.id[nodes[n].at] = i

MarksAgree ==
    \A n \in DOMAIN nodes :
        /\ nodes[n].truncated # "max-nodes"
        /\ nodes[n].truncated = "max-depth" <=> HasOmission(nodes[n].at, "max-depth")
        /\ doc.id[nodes[n].at] \in cutByBudget <=> HasOmission(nodes[n].at, "max-nodes")
        /\ nodes[n].truncated = "max-depth" => doc.id[nodes[n].at] \notin cutByBudget

Marks ==
    /\ phase = "start" => nodes = <<>> /\ omitted = <<>> /\ cutByBudget = {}
    /\ phase = "visiting" => Linked /\ OmittedBelowShown /\ CutIsShown /\ MarksAgree
    /\ ParentFirst
    /\ CutIsMarked

LEMMA MarksInit == Init => Marks
  BY DEF Init, Marks, ParentFirst, CutIsMarked

LEMMA MarksBegin ==
    ASSUME Partition, Marks, Begin
    PROVE  Marks'
  <1>1. PICK s \in [1..Len(request.roots) -> Elements(request.roots)] :
            todo' = [k \in DOMAIN s |-> Visit(Located(doc, s[k]), NoParent, 0)]
    BY DEF Begin
  <1>2. \A k \in DOMAIN todo' : todo'[k].parent = NoParent
    BY <1>1 DEF Visit
  <1>3. nodes' = <<>> /\ omitted' = <<>> /\ cutByBudget' = {} /\ phase' = "visiting" /\ doc' = doc
    BY DEF Begin, Marks
  <1> QED
    BY <1>2, <1>3 DEF Marks, Linked, OmittedBelowShown, CutIsShown, MarksAgree, ParentFirst, CutIsMarked

(* What is known of the visit at the head of the list.                     *)
LEMMA HeadLinked ==
    ASSUME Partition, Marks, phase = "visiting", todo # <<>>
    PROVE  /\ \/ Head(todo).parent = NoParent
              \/ \E n \in DOMAIN nodes : /\ nodes[n].at = Head(todo).parent
                                         /\ Head(todo).depth = nodes[n].depth + 1
                                         /\ nodes[n].truncated = "no"
           /\ \A k \in DOMAIN Tail(todo) : k + 1 \in DOMAIN todo /\ Tail(todo)[k] = todo[k + 1]
           /\ \A n \in DOMAIN nodes : nodes[n].at # Head(todo).at
  <1>1. /\ Head(todo) = todo[1] /\ 1 \in DOMAIN todo
        /\ \A k \in DOMAIN Tail(todo) : k + 1 \in DOMAIN todo /\ Tail(todo)[k] = todo[k + 1]
    BY TailFacts DEF Partition, TypeInv
  <1> QED
    BY <1>1 DEF Marks, Linked, Partition, Apart, ShownApart, Covers

LEMMA MarksOmit ==
    ASSUME UniqueIds, Partition, Marks, OmitHidden \/ OmitOverBudget
    PROVE  Marks'
  <1> DEFINE v == Head(todo)
             n == Len(omitted) + 1
  <1>1. PICK e \in OmissionType :
            /\ e.parent = v.parent
            /\ \/ e.reason = "not-rendered" /\ cutByBudget' = cutByBudget
               \/ /\ e.reason = "max-nodes"
                  /\ cutByBudget' = IF v.parent = NoParent THEN cutByBudget
                                    ELSE cutByBudget \cup {doc.id[v.parent]}
            /\ omitted' = Append(omitted, e)
    BY HeadType DEF OmitHidden, OmitOverBudget, Omission, Partition
  <1>2. /\ todo # <<>> /\ phase = "visiting" /\ phase' = "visiting"
        /\ todo' = Tail(todo)
        /\ nodes' = nodes /\ doc' = doc /\ request' = request
    BY DEF OmitHidden, OmitOverBudget
  <1>3. /\ DOMAIN omitted' = DOMAIN omitted \cup {n}
        /\ \A k \in DOMAIN omitted : omitted'[k] = omitted[k]
        /\ omitted'[n] = e
    BY <1>1, AppendFacts DEF Partition, TypeInv
  <1>4. /\ \/ v.parent = NoParent
           \/ \E m \in DOMAIN nodes : /\ nodes[m].at = v.parent
                                      /\ nodes[m].truncated = "no"
        /\ \A k \in DOMAIN Tail(todo) : k + 1 \in DOMAIN todo /\ Tail(todo)[k] = todo[k + 1]
    BY <1>2, HeadLinked
  <1>5. /\ \A m \in DOMAIN nodes : nodes[m].at \in doc.nodes /\ nodes[m].at # NoParent
        /\ \A l, m \in DOMAIN nodes : doc.id[nodes[l].at] = doc.id[nodes[m].at] => l = m
        /\ \A l, m \in DOMAIN nodes : nodes[l].at = nodes[m].at => l = m
    <2>1. \A m \in DOMAIN nodes : nodes[m].at \in doc.nodes
      BY EntriesInDocument DEF Partition
    <2>2. \A l, m \in DOMAIN nodes : nodes[l].at = nodes[m].at => l = m
      BY DEF Partition, Apart, ShownApart
    <2>3. \A x \in doc.nodes : x # NoParent
      BY DocIsDocument DEF Partition, IsDocument
    <2> QED
      BY <2>1, <2>2, <2>3 DEF UniqueIds, Partition, TypeInv
  <1> HIDE DEF v, n
  <1>6. /\ \A a : HasOmission(a, "max-depth")' <=> HasOmission(a, "max-depth")
        /\ \A a : HasOmission(a, "max-nodes")' <=>
                    HasOmission(a, "max-nodes") \/ (e.parent = a /\ e.reason = "max-nodes")
    BY <1>1, <1>3 DEF HasOmission
  <1>7. Linked'
    BY <1>2, <1>4 DEF Marks, Linked
  <1>8. OmittedBelowShown'
    BY <1>1, <1>2, <1>3, <1>4 DEF Marks, OmittedBelowShown
  <1>9. CutIsShown'
    BY <1>1, <1>2, <1>4 DEF Marks, CutIsShown
  <1>10. MarksAgree'
    <2> SUFFICES ASSUME NEW m \in DOMAIN nodes, NEW a, a = nodes[m].at
                 PROVE  /\ nodes[m].truncated # "max-nodes"
                        /\ nodes[m].truncated = "max-depth" <=> HasOmission(a, "max-depth")'
                        /\ doc.id[a] \in cutByBudget' <=> HasOmission(a, "max-nodes")'
                        /\ nodes[m].truncated = "max-depth" => doc.id[a] \notin cutByBudget'
      BY <1>2 DEF MarksAgree, HasOmission
    <2>1. /\ nodes[m].truncated # "max-nodes"
          /\ nodes[m].truncated = "max-depth" <=> HasOmission(a, "max-depth")
          /\ doc.id[a] \in cutByBudget <=> HasOmission(a, "max-nodes")
          /\ nodes[m].truncated = "max-depth" => doc.id[a] \notin cutByBudget
      BY <1>2 DEF Marks, MarksAgree
    <2>2. CASE e.reason = "not-rendered" /\ cutByBudget' = cutByBudget
      BY <2>1, <2>2, <1>6
    <2>3. CASE e.reason = "max-nodes" /\ v.parent = NoParent /\ cutByBudget' = cutByBudget
      BY <2>1, <2>3, <1>1, <1>5, <1>6
    <2>4. CASE /\ e.reason = "max-nodes" /\ v.parent # NoParent
               /\ cutByBudget' = cutByBudget \cup {doc.id[v.parent]}
      <3>1. PICK p \in DOMAIN nodes : nodes[p].at = v.parent /\ nodes[p].truncated = "no"
        BY <2>4, <1>4
      <3>2. CASE m = p
        BY <3>1, <3>2, <2>1, <2>4, <1>1, <1>6
      <3>3. CASE m # p
        <4>1. a # v.parent /\ doc.id[a] # doc.id[v.parent]
          BY <3>1, <3>3, <1>5
        <4> QED
          BY <4>1, <2>1, <2>4, <1>1, <1>6
      <3> QED
        BY <3>2, <3>3
    <2> QED
      BY <2>2, <2>3, <2>4, <1>1
  <1> QED
    BY <1>2, <1>7, <1>8, <1>9, <1>10 DEF Marks, ParentFirst, CutIsMarked

(* The node that is shown last, and the marks of those before it.          *)
LEMMA MarksInclude ==
    ASSUME UniqueIds, Partition, Marks, IncludeAtLimit \/ IncludeAndDescend
    PROVE  Marks'
  <1> DEFINE v == Head(todo)
             B == Below(v)
             more == [k \in DOMAIN B |-> Omission(B[k], "max-depth")]
             n == Len(nodes) + 1
             L == Len(omitted)
             M == Len(B)
  <1>1. /\ todo # <<>> /\ phase = "visiting" /\ phase' = "visiting"
        /\ doc' = doc /\ request' = request /\ cutByBudget' = cutByBudget
    BY DEF IncludeAtLimit, IncludeAndDescend
  <1>2. PICK t \in {"no", "max-depth"} :
            /\ nodes' = Append(nodes, Included(v, t))
            /\ \/ /\ t = IF B = <<>> THEN "no" ELSE "max-depth"
                  /\ omitted' = omitted \o more
                  /\ todo' = Tail(todo)
               \/ /\ t = "no"
                  /\ omitted' = omitted
                  /\ todo' = B \o Tail(todo)
    BY DEF IncludeAtLimit, IncludeAndDescend
  <1>3. /\ v \in VisitType
        /\ \/ v.parent = NoParent
           \/ \E m \in DOMAIN nodes : /\ nodes[m].at = v.parent
                                      /\ v.depth = nodes[m].depth + 1
                                      /\ nodes[m].truncated = "no"
        /\ \A k \in DOMAIN Tail(todo) : k + 1 \in DOMAIN todo /\ Tail(todo)[k] = todo[k + 1]
        /\ \A m \in DOMAIN nodes : nodes[m].at # v.at
    BY <1>1, HeadLinked, HeadType DEF Partition
  <1>4. /\ n \in Nat /\ DOMAIN nodes = 1..(n - 1) /\ DOMAIN nodes' = 1..n
        /\ DOMAIN nodes' = DOMAIN nodes \cup {n}
        /\ \A k \in DOMAIN nodes : nodes'[k] = nodes[k]
        /\ nodes'[n] = Included(v, t)
    BY <1>1, <1>2, HeadType, AppendFacts DEF Partition, TypeInv
  <1>5. nodes'[n].at = v.at /\ nodes'[n].parent = v.parent /\ nodes'[n].depth = v.depth /\ nodes'[n].truncated = t
    BY <1>4 DEF Included
  <1>6. /\ B \in Seq(VisitType) /\ M \in Nat /\ DOMAIN B = 1..M
        /\ \A k \in DOMAIN B : B[k].parent = v.at /\ B[k].depth = v.depth + 1
        /\ more \in Seq(OmissionType) /\ DOMAIN more = DOMAIN B
        /\ \A k \in DOMAIN B : more[k].parent = v.at /\ more[k].reason = "max-depth"
    <2>1. /\ B \in Seq(VisitType) /\ M \in Nat /\ DOMAIN B = 1..M
          /\ \A k \in DOMAIN B : B[k] = Visit(doc.children[v.at][k], v.at, v.depth + 1)
          /\ more \in Seq(OmissionType)
      BY <1>3, BelowType DEF Partition
    <2> HIDE DEF B, v
    <2>2. \A k \in DOMAIN B : B[k].parent = v.at /\ B[k].depth = v.depth + 1
      BY <2>1 DEF Visit
    <2> QED
      BY <2>1, <2>2 DEF Omission
  <1>7. /\ v.at \in doc.nodes /\ v.at # NoParent
        /\ doc.id[v.at] \notin cutByBudget
        /\ ~HasOmission(v.at, "max-depth") /\ ~HasOmission(v.at, "max-nodes")
    <2>1. v.at \in doc.nodes /\ v.at # NoParent
      BY <1>3, DocIsDocument DEF VisitType, Partition, IsDocument
    <2>2. \A k \in DOMAIN nodes : nodes[k].at \in doc.nodes
      BY EntriesInDocument DEF Partition
    <2>3. doc.id[v.at] \notin cutByBudget
      BY <1>1, <1>3, <2>1, <2>2 DEF Marks, CutIsShown, UniqueIds, Partition, TypeInv
    <2>4. \A k \in DOMAIN omitted : omitted[k].parent # v.at
      BY <1>1, <1>3, <2>1 DEF Marks, OmittedBelowShown
    <2> QED
      BY <2>1, <2>3, <2>4 DEF HasOmission
  <1>8. \A m \in DOMAIN nodes' : (m = n) \/ (m \in DOMAIN nodes /\ nodes'[m] = nodes[m] /\ nodes'[m].at # v.at)
    BY <1>3, <1>4
  <1> HIDE DEF v, B, more, n, L, M
  <1>9. /\ \A a : HasOmission(a, "max-nodes")' <=> HasOmission(a, "max-nodes")
        /\ \A a : HasOmission(a, "max-depth")' <=>
                    HasOmission(a, "max-depth") \/ (t = "max-depth" /\ a = v.at)
        /\ OmittedBelowShown'
    <2>1. CASE t = "no" /\ omitted' = omitted
      BY <2>1, <1>1, <1>4 DEF HasOmission, Marks, OmittedBelowShown
    <2>2. CASE t = (IF B = <<>> THEN "no" ELSE "max-depth") /\ omitted' = omitted \o more
      <3>1. omitted \in Seq(OmissionType) /\ L \in Nat
        BY DEF Partition, TypeInv, L
      <3>2. /\ \A k \in DOMAIN omitted : k \in DOMAIN omitted' /\ omitted'[k] = omitted[k]
            /\ \A k \in DOMAIN B : k + L \in DOMAIN omitted' /\ omitted'[k + L] = more[k]
            /\ \A k \in DOMAIN omitted' :
                 \/ k \in DOMAIN omitted /\ omitted'[k] = omitted[k]
                 \/ k - L \in DOMAIN B /\ omitted'[k] = more[k - L]
        BY <2>2, <3>1, <1>6, ConcatFacts DEF L
      <3>3. t = "max-depth" <=> \E k \in DOMAIN B : TRUE
        <4>1. B = <<>> <=> M = 0
          BY <1>6 DEF M
        <4>2. (\E k \in DOMAIN B : TRUE) <=> M # 0
          BY <1>6
        <4> QED
          BY <4>1, <4>2, <2>2
      <3>4. \A a : HasOmission(a, "max-nodes")' <=> HasOmission(a, "max-nodes")
        BY <3>2, <1>6 DEF HasOmission
      <3>5. \A a : HasOmission(a, "max-depth")' <=>
                     HasOmission(a, "max-depth") \/ (t = "max-depth" /\ a = v.at)
        <4>1. ASSUME NEW a, HasOmission(a, "max-depth")'
              PROVE  HasOmission(a, "max-depth") \/ (t = "max-depth" /\ a = v.at)
          BY <4>1, <3>2, <3>3, <1>6 DEF HasOmission
        <4>2. ASSUME NEW a, HasOmission(a, "max-depth")
              PROVE  HasOmission(a, "max-depth")'
          BY <4>2, <3>2 DEF HasOmission
        <4>3. ASSUME NEW a, t = "max-depth", a = v.at
              PROVE  HasOmission(a, "max-depth")'
          BY <4>3, <3>2, <3>3, <1>6 DEF HasOmission
        <4> QED
          BY <4>1, <4>2, <4>3
      <3>6. OmittedBelowShown'
        <4> SUFFICES ASSUME NEW k \in DOMAIN omitted'
                     PROVE  \/ omitted'[k].parent = NoParent
                            \/ \E m \in DOMAIN nodes' : nodes'[m].at = omitted'[k].parent
          BY <1>1 DEF OmittedBelowShown
        <4>1. CASE k \in DOMAIN omitted /\ omitted'[k] = omitted[k]
          BY <4>1, <1>1, <1>4 DEF Marks, OmittedBelowShown
        <4>2. CASE k - L \in DOMAIN B /\ omitted'[k] = more[k - L]
          <5>1. omitted'[k].parent = v.at
            BY <4>2, <1>6
          <5>2. n \in DOMAIN nodes' /\ nodes'[n].at = v.at
            BY <1>4, <1>5
          <5> QED
            BY <5>1, <5>2
        <4> QED
          BY <4>1, <4>2, <3>2
      <3> QED
        BY <3>4, <3>5, <3>6
    <2> QED
      BY <2>1, <2>2, <1>2
  <1>10. Linked'
    <2>1. \A k \in DOMAIN Tail(todo) :
             \/ Tail(todo)[k].parent = NoParent
             \/ \E m \in DOMAIN nodes' : /\ nodes'[m].at = Tail(todo)[k].parent
                                         /\ Tail(todo)[k].depth = nodes'[m].depth + 1
                                         /\ nodes'[m].truncated = "no"
      BY <1>1, <1>3, <1>4 DEF Marks, Linked
    <2>2. CASE todo' = Tail(todo)
      BY <2>1, <2>2 DEF Linked
    <2>3. CASE t = "no" /\ todo' = B \o Tail(todo)
      <3>1. Tail(todo) \in Seq(VisitType)
        BY <1>1, HeadType DEF Partition
      <3>2. \A k \in DOMAIN todo' :
               \/ k \in DOMAIN B /\ todo'[k] = B[k]
               \/ k - M \in DOMAIN Tail(todo) /\ todo'[k] = Tail(todo)[k - M]
        BY <2>3, <3>1, <1>6, ConcatFacts DEF M
      <3>3. \A k \in DOMAIN B : /\ nodes'[n].at = B[k].parent
                                /\ B[k].depth = nodes'[n].depth + 1
                                /\ nodes'[n].truncated = "no"
        BY <2>3, <1>5, <1>6
      <3>4. n \in DOMAIN nodes'
        BY <1>4
      <3> SUFFICES ASSUME NEW k \in DOMAIN todo'
                   PROVE  \/ todo'[k].parent = NoParent
                          \/ \E m \in DOMAIN nodes' : /\ nodes'[m].at = todo'[k].parent
                                                      /\ todo'[k].depth = nodes'[m].depth + 1
                                                      /\ nodes'[m].truncated = "no"
        BY DEF Linked
      <3>5. CASE k \in DOMAIN B /\ todo'[k] = B[k]
        BY <3>3, <3>4, <3>5
      <3>6. CASE k - M \in DOMAIN Tail(todo) /\ todo'[k] = Tail(todo)[k - M]
        BY <3>6, <2>1
      <3> QED
        BY <3>2, <3>5, <3>6
    <2> QED
      BY <2>2, <2>3, <1>2
  <1>11. CutIsShown'
    BY <1>1, <1>4 DEF Marks, CutIsShown
  <1>12. MarksAgree'
    <2> SUFFICES ASSUME NEW m \in DOMAIN nodes', NEW a, a = nodes'[m].at
                 PROVE  /\ nodes'[m].truncated # "max-nodes"
                        /\ nodes'[m].truncated = "max-depth" <=> HasOmission(a, "max-depth")'
                        /\ doc.id[a] \in cutByBudget <=> HasOmission(a, "max-nodes")'
                        /\ nodes'[m].truncated = "max-depth" => doc.id[a] \notin cutByBudget
      BY <1>1 DEF MarksAgree, HasOmission
    <2>1. CASE m = n
      BY <2>1, <1>5, <1>7, <1>9
    <2>2. CASE m \in DOMAIN nodes /\ nodes'[m] = nodes[m] /\ nodes'[m].at # v.at
      BY <2>2, <1>1, <1>9 DEF Marks, MarksAgree
    <2> QED
      BY <2>1, <2>2, <1>8
  <1>13. ParentFirst'
    <2> SUFFICES ASSUME NEW m \in DOMAIN nodes'
                 PROVE  \/ nodes'[m].parent = NoParent
                        \/ \E j \in 1..(m - 1) : nodes'[j].at = nodes'[m].parent /\ nodes'[m].depth = nodes'[j].depth + 1
      BY DEF ParentFirst
    <2>1. CASE m = n
      BY <2>1, <1>3, <1>4, <1>5
    <2>2. CASE m \in DOMAIN nodes
      <3>1. \/ nodes[m].parent = NoParent
            \/ \E j \in 1..(m - 1) : nodes[j].at = nodes[m].parent /\ nodes[m].depth = nodes[j].depth + 1
        BY <2>2 DEF Marks, ParentFirst
      <3>2. \A j \in 1..(m - 1) : j \in DOMAIN nodes
        BY <2>2, <1>4
      <3> QED
        BY <3>1, <3>2, <2>2, <1>4
    <2> QED
      BY <2>1, <2>2, <1>4
  <1> QED
    BY <1>1, <1>9, <1>10, <1>11, <1>12, <1>13 DEF Marks, CutIsMarked

LEMMA MarksFinish ==
    ASSUME Partition, Marks, Finish
    PROVE  Marks'
  <1>1. /\ phase = "visiting" /\ phase' = "done" /\ doc' = doc /\ omitted' = omitted
        /\ DOMAIN nodes' = DOMAIN nodes
    BY DEF Finish
  <1>2. \A k \in DOMAIN nodes :
           nodes'[k] = IF doc.id[nodes[k].at] \in cutByBudget
                       THEN [nodes[k] EXCEPT !.truncated = "max-nodes"] ELSE nodes[k]
    BY DEF Finish
  <1>3. \A k \in DOMAIN nodes : nodes[k] \in NodeType
    BY DEF Partition, TypeInv
  <1>4. \A k \in DOMAIN nodes :
           /\ nodes'[k].at = nodes[k].at /\ nodes'[k].parent = nodes[k].parent
           /\ nodes'[k].depth = nodes[k].depth
           /\ nodes'[k].truncated = IF doc.id[nodes[k].at] \in cutByBudget
                                    THEN "max-nodes" ELSE nodes[k].truncated
    BY <1>2, <1>3 DEF NodeType
  <1>5. ParentFirst'
    <2>1. DOMAIN nodes = 1..Len(nodes) /\ Len(nodes) \in Nat
      BY DEF Partition, TypeInv
    <2> SUFFICES ASSUME NEW m \in DOMAIN nodes
                 PROVE  \/ nodes'[m].parent = NoParent
                        \/ \E j \in 1..(m - 1) : nodes'[j].at = nodes'[m].parent /\ nodes'[m].depth = nodes'[j].depth + 1
      BY <1>1 DEF ParentFirst
    <2>2. \A j \in 1..(m - 1) : j \in DOMAIN nodes
      BY <2>1
    <2> QED
      BY <2>2, <1>4 DEF Marks, ParentFirst
  <1>6. CutIsMarked'
    <2> SUFFICES ASSUME NEW k \in DOMAIN nodes, NEW reason \in {"max-depth", "max-nodes"}
                 PROVE  nodes'[k].truncated = reason <=> HasOmission(nodes[k].at, reason)
      BY <1>1, <1>4 DEF CutIsMarked, HasOmission
    <2>1. /\ nodes[k].truncated # "max-nodes"
          /\ nodes[k].truncated = "max-depth" <=> HasOmission(nodes[k].at, "max-depth")
          /\ doc.id[nodes[k].at] \in cutByBudget <=> HasOmission(nodes[k].at, "max-nodes")
          /\ nodes[k].truncated = "max-depth" => doc.id[nodes[k].at] \notin cutByBudget
      BY <1>1 DEF Marks, MarksAgree
    <2> QED
      BY <2>1, <1>4
  <1> QED
    BY <1>1, <1>5, <1>6 DEF Marks

LEMMA MarksStep ==
    ASSUME UniqueIds, Partition, Marks, [Next]_vars
    PROVE  Marks'
  <1>1. CASE Refuse
    BY <1>1 DEF Refuse, Marks, ParentFirst, CutIsMarked
  <1>2. CASE UNCHANGED vars
    BY <1>2 DEF vars, Marks, Linked, OmittedBelowShown, CutIsShown, MarksAgree, HasOmission,
                ParentFirst, CutIsMarked
  <1> QED
    BY <1>1, <1>2, MarksBegin, MarksOmit, MarksInclude, MarksFinish DEF Next

LEMMA MarksInvariant == UniqueIds => (Spec => []Marks)
  <1> SUFFICES ASSUME UniqueIds PROVE Spec => []Marks
    OBVIOUS
  <1>1. Init => Marks
    BY MarksInit
  <1>2. Partition /\ Marks /\ [Next]_vars => Marks'
    BY MarksStep
  <1> QED
    BY <1>1, <1>2, SlicePartitions, PTL DEF Spec

(* At the end, too, what was left out below a node names a node shown.     *)
LEMMA OmissionsBelowShown == UniqueIds => (Spec => [](phase = "done" => OmittedBelowShown))
  <1> SUFFICES ASSUME UniqueIds PROVE Spec => [](phase = "done" => OmittedBelowShown)
    OBVIOUS
  <1>1. Init => (phase = "done" => OmittedBelowShown)
    BY DEF Init
  <1>2. ASSUME Partition, Marks, phase = "done" => OmittedBelowShown, [Next]_vars
        PROVE  (phase = "done" => OmittedBelowShown)'
    <2>1. CASE Finish
      <3>1. \A k \in DOMAIN nodes : nodes[k] \in NodeType
        BY <1>2 DEF Partition, TypeInv
      <3>2. DOMAIN nodes' = DOMAIN nodes /\ \A k \in DOMAIN nodes : nodes'[k].at = nodes[k].at
        BY <2>1, <3>1 DEF Finish, NodeType
      <3>3. omitted' = omitted /\ OmittedBelowShown
        BY <1>2, <2>1 DEF Finish, Marks
      <3> QED
        BY <3>2, <3>3 DEF OmittedBelowShown
    <2>2. CASE UNCHANGED vars
      BY <1>2, <2>2 DEF vars, OmittedBelowShown
    <2>3. CASE Next /\ ~Finish
      BY <2>3 DEF Next, Refuse, Begin, OmitHidden, OmitOverBudget, IncludeAtLimit, IncludeAndDescend
    <2> QED
      BY <1>2, <2>1, <2>2, <2>3
  <1> QED
    BY <1>1, <1>2, SlicePartitions, MarksInvariant, PTL DEF Spec

(* A node is marked as truncated exactly when a budget left out a child.   *)
THEOREM SliceMarksItsCuts == UniqueIds => (Spec => []CutIsMarked)
  <1>1. Marks => CutIsMarked
    BY DEF Marks
  <1> QED
    BY <1>1, MarksInvariant, PTL

(* A slice is a tree: a node comes after its parent and one level below.   *)
THEOREM SliceIsATree == UniqueIds => (Spec => []ParentFirst)
  <1>1. Marks => ParentFirst
    BY DEF Marks
  <1> QED
    BY <1>1, MarksInvariant, PTL

(* All three together: a slice can be read without the snapshot.           *)
THEOREM SliceIsSelfContained == UniqueIds => (Spec => []SliceStandsAlone)
  <1> SUFFICES ASSUME UniqueIds PROVE Spec => []SliceStandsAlone
    OBVIOUS
  <1>1. Spec => []EachIdOnce
    BY SliceShowsIdsOnce
  <1>2. Spec => []ParentFirst
    BY SliceIsATree
  <1>3. Spec => []CutIsMarked
    BY SliceMarksItsCuts
  <1> QED
    BY <1>1, <1>2, <1>3, PTL DEF SliceStandsAlone

-----------------------------------------------------------------------------
(* How a slice lies in the document it was cut from.                       *)

IsRoot(o) == \E i \in Elements(request.roots) : o = Located(doc, i)

(* A visit names the parent its node has in the document, unless the slice *)
(* begins there.                                                           *)
Placed(v) == v.parent = doc.parent[v.at] \/ (v.parent = NoParent /\ IsRoot(v.at))

(* Everything that is visited, shown or left out was asked for.            *)
Asked(v) == Placed(v) /\ v.at \in Requested

(* No root of an accepted request is inside another, what is visited keeps *)
(* its place, what is shown can be seen, and what is left out unrendered   *)
(* cannot.                                                                 *)
Faithful ==
    /\ Working => Acceptable(doc, request)
    /\ \A k \in DOMAIN todo : Asked(todo[k])
    /\ \A k \in DOMAIN nodes : Asked(nodes[k]) /\ Rendered(nodes[k].at)
    /\ \A k \in DOMAIN omitted :
         Asked(omitted[k]) /\ (omitted[k].reason = "not-rendered" => ~Rendered(omitted[k].at))

(* The nodes below what was asked for are asked for too.                   *)
LEMMA BelowIsAsked ==
    ASSUME TypeInv, NEW v \in VisitType, Asked(v)
    PROVE  \A k \in DOMAIN Below(v) : Asked(Below(v)[k])
<1>. SUFFICES ASSUME NEW k \in DOMAIN Below(v)  PROVE Asked(Below(v)[k])
  OBVIOUS
<1>. DEFINE c == doc.children[v.at][k]
<1>1. IsDocument(doc) /\ v.at \in doc.nodes /\ k \in DOMAIN doc.children[v.at]
      /\ Below(v)[k] = Visit(c, v.at, v.depth + 1)
  BY DocIsDocument, BelowType DEF VisitType
<1>2. Below(v)[k].at = c /\ Below(v)[k].parent = v.at
  BY <1>1 DEF Visit
<1>3. c \in doc.nodes /\ doc.parent[c] = v.at /\ doc.above[c] = doc.above[v.at] \cup {v.at}
  BY <1>1, ChildFacts
<1>4. c \in Requested
  BY <1>3 DEF Asked, Requested, Covers
<1>. QED  BY <1>2, <1>3, <1>4 DEF Asked, Placed

LEMMA FaithfulStep ==
    ASSUME TypeInv, Faithful, [Next]_vars
    PROVE  Faithful'
<1>1. /\ request \in Requests /\ doc \in Docs
      /\ todo \in Seq(VisitType) /\ nodes \in Seq(NodeType) /\ omitted \in Seq(OmissionType)
  BY DEF TypeInv
<1>2. doc' = doc /\ request' = request
  BY DEF Next, vars, Refuse, Begin, OmitHidden, OmitOverBudget, IncludeAtLimit, IncludeAndDescend, Finish
<1>3. (Working => Acceptable(doc, request))'
  <2>1. Acceptable(doc, request)' <=> Acceptable(doc, request)
    BY <1>2 DEF Acceptable, Enclosed, Located, Ids, Elements
  <2>2. Working' => Working \/ Acceptable(doc, request)
    BY DEF Working, Next, vars, Refuse, Begin, OmitHidden, OmitOverBudget, IncludeAtLimit,
           IncludeAndDescend, Finish
  <2>. QED  BY <2>1, <2>2 DEF Faithful
<1>. DEFINE Kept3 == /\ \A k \in DOMAIN todo' : Asked(todo'[k])
                     /\ \A k \in DOMAIN nodes' : Asked(nodes'[k]) /\ Rendered(nodes'[k].at)
                     /\ \A k \in DOMAIN omitted' :
                          Asked(omitted'[k]) /\ (omitted'[k].reason = "not-rendered" => ~Rendered(omitted'[k].at))
<1>4. Kept3 => Faithful'
  <2>1. \A o : (o \in Requested)' <=> o \in Requested
    BY <1>2 DEF Requested, Covers, Elements, Located
  <2>2. \A v : Placed(v)' <=> Placed(v)
    BY <1>2 DEF Placed, IsRoot, Located, Elements
  <2>3. \A v : Asked(v)' <=> Asked(v)
    BY <2>1, <2>2 DEF Asked
  <2>4. \A o : Rendered(o)' <=> Rendered(o)
    BY <1>2 DEF Rendered
  <2>. QED  BY <1>2, <1>3, <2>3, <2>4 DEF Faithful
<1>5. /\ \A k \in DOMAIN todo : Asked(todo[k])
      /\ \A k \in DOMAIN nodes : Asked(nodes[k]) /\ Rendered(nodes[k].at)
      /\ \A k \in DOMAIN omitted :
           Asked(omitted[k]) /\ (omitted[k].reason = "not-rendered" => ~Rendered(omitted[k].at))
  BY DEF Faithful
<1>6. ASSUME todo # <<>>
      PROVE  /\ Asked(Head(todo)) /\ Head(todo) \in VisitType
             /\ \A k \in DOMAIN Tail(todo) : Asked(Tail(todo)[k])
             /\ Tail(todo) \in Seq(VisitType)
  <2>1. Head(todo) = todo[1] /\ 1 \in DOMAIN todo
    BY <1>1, <1>6
  <2>. QED  BY <1>1, <1>5, <1>6, <2>1, TailFacts, HeadType
<1>7. CASE UNCHANGED vars
  BY <1>4, <1>5, <1>7 DEF vars
<1>8. CASE Refuse
  BY <1>4, <1>5, <1>8 DEF Refuse
<1>9. CASE Begin
  <2>1. PICK s \in [1..Len(request.roots) -> Elements(request.roots)] :
            todo' = [k \in DOMAIN s |-> Visit(Located(doc, s[k]), NoParent, 0)]
    BY <1>9 DEF Begin
  <2>2. \A k \in DOMAIN todo' : Asked(todo'[k])
    <3>1. ASSUME NEW k \in DOMAIN todo'  PROVE Asked(todo'[k])
      <4>1. k \in DOMAIN s /\ s[k] \in Elements(request.roots)
        BY <2>1
      <4>2. todo'[k].parent = NoParent /\ todo'[k].at = Located(doc, s[k])
        BY <2>1, <4>1 DEF Visit
      <4>3. s[k] \in Ids(doc)
        BY <1>9, <4>1 DEF Begin, Acceptable
      <4>4. Located(doc, s[k]) \in doc.nodes
        BY <1>1, <4>3, LocatedType
      <4>. QED  BY <4>1, <4>2, <4>4 DEF Asked, Placed, IsRoot, Requested, Covers
    <3>. QED  BY <3>1
  <2>. QED  BY <1>4, <1>5, <1>9, <2>2 DEF Begin
<1>10. CASE OmitHidden \/ OmitOverBudget
  <2>. DEFINE v == Head(todo)
  <2>1. PICK e : /\ omitted' = Append(omitted, e) /\ e \in OmissionType /\ Asked(e)
                 /\ e.reason = "not-rendered" => ~Rendered(e.at)
                 /\ todo # <<>> /\ todo' = Tail(todo) /\ nodes' = nodes
    <3>1. CASE OmitHidden
      <4>. DEFINE e == Omission(v, "not-rendered")
      <4>1. e \in OmissionType
        BY <3>1, HeadType DEF OmitHidden
      <4>2. omitted' = Append(omitted, e) /\ todo # <<>> /\ todo' = Tail(todo) /\ nodes' = nodes
            /\ ~Rendered(v.at) /\ e.at = v.at /\ e.parent = v.parent
        BY <3>1 DEF OmitHidden, Omission
      <4>3. Asked(e)
        BY <1>6, <4>2 DEF Asked, Placed
      <4>. QED  BY <4>1, <4>2, <4>3
    <3>2. CASE OmitOverBudget
      <4>. DEFINE e == Omission(v, "max-nodes")
      <4>1. e \in OmissionType
        BY <3>2, HeadType DEF OmitOverBudget
      <4>2. omitted' = Append(omitted, e) /\ todo # <<>> /\ todo' = Tail(todo) /\ nodes' = nodes
            /\ e.reason = "max-nodes" /\ e.at = v.at /\ e.parent = v.parent
        BY <3>2 DEF OmitOverBudget, Omission
      <4>3. Asked(e)
        BY <1>6, <4>2 DEF Asked, Placed
      <4>. QED  BY <4>1, <4>2, <4>3
    <3>. QED  BY <1>10, <3>1, <3>2
  <2>2. \A k \in DOMAIN omitted' :
          Asked(omitted'[k]) /\ (omitted'[k].reason = "not-rendered" => ~Rendered(omitted'[k].at))
    BY <1>1, <1>5, <2>1, AppendFacts
  <2>. QED  BY <1>4, <1>5, <1>6, <2>1, <2>2
<1>11. CASE IncludeAtLimit
  <2>. DEFINE v == Head(todo)
              B == Below(v)
              more == [k \in DOMAIN B |-> Omission(B[k], "max-depth")]
              e == Included(v, IF B = <<>> THEN "no" ELSE "max-depth")
  <2>1. /\ todo # <<>> /\ todo' = Tail(todo) /\ Rendered(v.at)
        /\ nodes' = Append(nodes, e) /\ omitted' = omitted \o more
    BY <1>1, <1>11 DEF IncludeAtLimit
  <2>2. e \in NodeType /\ Asked(e) /\ Rendered(e.at)
    <3>1. e \in NodeType
      BY <2>1, HeadType
    <3>2. e.at = v.at /\ e.parent = v.parent
      BY DEF Included
    <3>. QED  BY <1>6, <2>1, <3>1, <3>2 DEF Asked, Placed
  <2>3. more \in Seq(OmissionType) /\ \A k \in DOMAIN more : more[k].reason = "max-depth" /\ Asked(more[k])
    <3>1. v \in VisitType /\ Asked(v)
      BY <1>6, <2>1
    <3>. HIDE DEF v
    <3>2. more \in Seq(OmissionType)
      BY <3>1, BelowType
    <3>3. ASSUME NEW k \in DOMAIN more  PROVE more[k].reason = "max-depth" /\ Asked(more[k])
      <4>1. Asked(B[k])
        BY <3>1, BelowIsAsked
      <4>2. more[k].reason = "max-depth" /\ more[k].at = B[k].at /\ more[k].parent = B[k].parent
        BY DEF Omission
      <4>. QED  BY <4>1, <4>2 DEF Asked, Placed
    <3>. QED  BY <3>2, <3>3
  <2>. HIDE DEF e, more
  <2>4. \A k \in DOMAIN nodes' : Asked(nodes'[k]) /\ Rendered(nodes'[k].at)
    BY <1>1, <1>5, <2>1, <2>2, AppendFacts
  <2>5. \A k \in DOMAIN omitted' :
          Asked(omitted'[k]) /\ (omitted'[k].reason = "not-rendered" => ~Rendered(omitted'[k].at))
    BY <1>1, <1>5, <2>1, <2>3, ConcatFacts
  <2>. QED  BY <1>4, <1>6, <2>1, <2>4, <2>5
<1>12. CASE IncludeAndDescend
  <2>. DEFINE v == Head(todo)
              B == Below(v)
              e == Included(v, "no")
  <2>1. /\ todo # <<>> /\ todo' = B \o Tail(todo) /\ Rendered(v.at)
        /\ nodes' = Append(nodes, e) /\ omitted' = omitted
    BY <1>1, <1>12 DEF IncludeAndDescend
  <2>2. e \in NodeType /\ Asked(e) /\ Rendered(e.at)
    <3>1. e \in NodeType
      BY <2>1, HeadType
    <3>2. e.at = v.at /\ e.parent = v.parent
      BY DEF Included
    <3>. QED  BY <1>6, <2>1, <3>1, <3>2 DEF Asked, Placed
  <2>3. B \in Seq(VisitType) /\ \A k \in DOMAIN B : Asked(B[k])
    <3>1. v \in VisitType /\ Asked(v)
      BY <1>6, <2>1
    <3>. HIDE DEF v
    <3>. QED  BY <3>1, BelowType, BelowIsAsked
  <2>. HIDE DEF e, B
  <2>4. \A k \in DOMAIN nodes' : Asked(nodes'[k]) /\ Rendered(nodes'[k].at)
    BY <1>1, <1>5, <2>1, <2>2, AppendFacts
  <2>5. \A k \in DOMAIN todo' : Asked(todo'[k])
    BY <1>6, <2>1, <2>3, ConcatFacts
  <2>. QED  BY <1>4, <1>5, <2>1, <2>4, <2>5
<1>13. CASE Finish
  <2>1. DOMAIN nodes' = DOMAIN nodes
        /\ \A k \in DOMAIN nodes : nodes'[k].at = nodes[k].at /\ nodes'[k].parent = nodes[k].parent
    BY <1>1, <1>13 DEF Finish, NodeType
  <2>2. \A k \in DOMAIN nodes' : Asked(nodes'[k]) /\ Rendered(nodes'[k].at)
    BY <1>5, <2>1 DEF Asked, Placed
  <2>. QED  BY <1>4, <1>5, <1>13, <2>2 DEF Finish
<1>. QED  BY <1>7, <1>8, <1>9, <1>10, <1>11, <1>12, <1>13 DEF Next

LEMMA FaithfulInvariant == Spec => [](TypeInv /\ Faithful)
<1>1. Init => TypeInv /\ Faithful
  BY TypeInit DEF Init, Faithful, Working
<1>2. TypeInv /\ Faithful /\ [Next]_vars => TypeInv' /\ Faithful'
  BY TypeStep, FaithfulStep
<1>. QED  BY <1>1, <1>2, PTL DEF Spec

(* No root is inside another, so a node below another one that was asked   *)
(* for is no root.                                                         *)
LEMMA RequestedBelowIsPlaced ==
    ASSUME TypeInv, Acceptable(doc, request), NEW v, v.at \in Requested, Placed(v),
           doc.parent[v.at] \in Requested
    PROVE  v.parent = doc.parent[v.at]
<1>. DEFINE p == doc.parent[v.at]
<1>1. IsDocument(doc) /\ doc \in Docs /\ v.at \in doc.nodes /\ p \in doc.nodes
  BY DocIsDocument DEF Requested, TypeInv
<1>2. p # NoParent
  BY <1>1 DEF IsDocument
<1>3. p \in doc.above[v.at] /\ \A a \in doc.above[p] : a \in doc.above[v.at]
  <2>1. IsForest(doc)
    BY <1>1 DEF IsDocument
  <2>2. doc.above[v.at] = doc.above[p] \cup {p}
    BY <1>1, <1>2, <2>1 DEF IsForest
  <2>. QED  BY <2>2
<1>4. PICK i \in Elements(request.roots) : Covers(Located(doc, i), p)
  BY DEF Requested
<1>5. Located(doc, i) \in doc.above[v.at]
  BY <1>3, <1>4 DEF Covers
<1>6. Acceptable(doc, request)
  OBVIOUS
<1>7. doc.id[Located(doc, i)] = i
  BY <1>1, <1>4, <1>6, LocatedType DEF Acceptable
<1>8. ~IsRoot(v.at)
  BY <1>4, <1>5, <1>6, <1>7 DEF IsRoot, Acceptable, Enclosed
<1>. QED  BY <1>8 DEF Placed

(* Of a node whose children no limit left out, every child that can be     *)
(* seen is shown below it.                                                 *)
LEMMA ChildrenAreShown ==
    ASSUME Partition, Faithful, phase = "done", NEW o \in Shown,
           \A k \in DOMAIN omitted : omitted[k].parent = o => omitted[k].reason = "not-rendered",
           NEW c \in doc.nodes, doc.parent[c] = o, Rendered(c)
    PROVE  \E k \in DOMAIN nodes : nodes[k].at = c /\ nodes[k].parent = o
<1>1. /\ TypeInv /\ Working /\ EveryNodeAccounted /\ IsDocument(doc) /\ IsForest(doc)
      /\ Acceptable(doc, request)
  BY PartitionIsAccount, DocIsDocument DEF Partition, Working, IsDocument, Faithful
<1>2. /\ \A k \in DOMAIN nodes : Asked(nodes[k])
      /\ \A k \in DOMAIN omitted :
           Asked(omitted[k]) /\ (omitted[k].reason = "not-rendered" => ~Rendered(omitted[k].at))
  BY DEF Faithful
<1>3. o \in Requested /\ o \in doc.nodes /\ o # NoParent
  BY <1>1, <1>2 DEF Shown, Asked, Requested, IsDocument
<1>4. doc.above[c] = doc.above[o] \cup {o}
  BY <1>1, <1>3 DEF IsForest
<1>5. c \in Requested
  BY <1>3, <1>4 DEF Requested, Covers
<1>6. CASE c \in Shown
  <2>1. PICK k \in DOMAIN nodes : nodes[k].at = c
    BY <1>6 DEF Shown
  <2>2. nodes[k].parent = o
    BY <1>1, <1>2, <1>3, <1>5, <2>1, RequestedBelowIsPlaced DEF Asked
  <2>. QED  BY <2>1, <2>2
<1>7. CASE c \notin Shown
  <2>1. PICK k \in DOMAIN omitted : Covers(omitted[k].at, c)
    BY <1>1, <1>5, <1>7 DEF EveryNodeAccounted
  <2>2. ~Covers(omitted[k].at, o)
    BY <1>1, <1>3 DEF EveryNodeAccounted
  <2>3. omitted[k].at = c
    BY <1>4, <2>1, <2>2 DEF Covers
  <2>4. omitted[k].reason # "not-rendered" /\ Placed(omitted[k])
    BY <1>2, <2>3 DEF Asked
  <2>5. omitted[k].parent = o
    BY <1>1, <1>3, <1>5, <2>3, <2>4, RequestedBelowIsPlaced
  <2>. QED  BY <2>4, <2>5
<1>. QED  BY <1>6, <1>7

-----------------------------------------------------------------------------
(* Roots, and depth below them.                                            *)

(* A document and a request that is not refused.                           *)
Accepted == doc \in Docs /\ request \in Requests /\ Acceptable(doc, request)

(* Exactly one root lies over what is asked for.                           *)
LEMMA TopFacts ==
    ASSUME UniqueIds, Accepted, NEW o \in Requested
    PROVE  /\ o \in doc.nodes
           /\ Top(o) \in Requested /\ Covers(Top(o), o) /\ doc.id[Top(o)] \in Elements(request.roots)
           /\ \A r \in doc.nodes : Covers(r, o) /\ doc.id[r] \in Elements(request.roots) => r = Top(o)
  <1> DEFINE root(r) == Covers(r, o) /\ doc.id[r] \in Elements(request.roots)
  <1>1. IsDocument(doc) /\ Elements(request.roots) \subseteq Ids(doc) /\ ~Enclosed(doc, request.roots)
    BY DocsAssumption DEF Accepted, Acceptable
  <1>2. \A i \in Elements(request.roots) : Located(doc, i) \in doc.nodes /\ doc.id[Located(doc, i)] = i
    BY <1>1, LocatedType DEF Accepted
  <1>3. o \in doc.nodes
    BY DEF Requested
  <1>4. PICK i \in Elements(request.roots) : Covers(Located(doc, i), o)
    BY DEF Requested
  <1>5. \A r \in doc.nodes : root(r) => r \in Requested
    <2> SUFFICES ASSUME NEW r \in doc.nodes, root(r)
                 PROVE  r \in Requested
      OBVIOUS
    <2>1. Located(doc, doc.id[r]) \in doc.nodes /\ doc.id[Located(doc, doc.id[r])] = doc.id[r]
      BY <1>2
    <2>2. Located(doc, doc.id[r]) = r
      BY <2>1 DEF UniqueIds, Accepted
    <2> QED
      BY <2>2 DEF Requested, Covers
  <1>6. \E r \in Requested : root(r)
    BY <1>2, <1>4, <1>5
  <1>7. Top(o) \in Requested /\ root(Top(o))
    <2> HIDE DEF root
    <2>1. Top(o) = CHOOSE r \in Requested : root(r)
      BY DEF Top, root
    <2> QED
      BY <1>6, <2>1
  <1>8. ASSUME NEW r \in doc.nodes, root(r), NEW q \in doc.nodes, root(q)
        PROVE  r \notin doc.above[q]
    <2>1. Located(doc, doc.id[q]) = q
      BY <1>2, <1>8 DEF UniqueIds, Accepted
    <2> QED
      BY <1>1, <1>8, <2>1 DEF Enclosed
  <1>9. ASSUME NEW r \in doc.nodes, root(r)
        PROVE  r = Top(o)
    <2>1. Top(o) \in doc.nodes
      BY <1>7 DEF Requested
    <2>2. r = Top(o) \/ r \in doc.above[Top(o)] \/ Top(o) \in doc.above[r]
      BY <1>1, <1>3, <1>7, <1>9, <2>1, OverlapIsNesting DEF Covers
    <2> QED
      BY <1>7, <1>8, <1>9, <2>1, <2>2
  <1> QED
    BY <1>3, <1>7, <1>9

(* What is below something asked for is asked for too, under the same root. *)
LEMMA TopBelow ==
    ASSUME UniqueIds, Accepted, NEW o \in Requested, NEW q \in doc.nodes, Covers(o, q)
    PROVE  q \in Requested /\ Top(q) = Top(o)
  <1>1. IsDocument(doc) /\ o \in doc.nodes
    BY DocsAssumption DEF Accepted, Requested
  <1>2. \A r \in doc.nodes : Covers(r, o) => Covers(r, q)
    BY <1>1, CoversTransitive DEF Covers
  <1>3. \A i \in Elements(request.roots) : Located(doc, i) \in doc.nodes
    BY LocatedType DEF Accepted, Acceptable
  <1>4. q \in Requested
    BY <1>2, <1>3 DEF Requested
  <1>5. Top(o) \in doc.nodes /\ Covers(Top(o), o) /\ doc.id[Top(o)] \in Elements(request.roots)
    BY TopFacts DEF Requested
  <1> QED
    BY <1>2, <1>4, <1>5, TopFacts

LEMMA RootFacts ==
    ASSUME UniqueIds, Accepted, NEW i \in Elements(request.roots)
    PROVE  /\ Located(doc, i) \in Requested /\ Top(Located(doc, i)) = Located(doc, i)
           /\ doc.id[Located(doc, i)] = i
           /\ Depth(Located(doc, i)) = 0
  <1> DEFINE r == Located(doc, i)
  <1>1. IsDocument(doc)
    BY DocsAssumption DEF Accepted
  <1>2. r \in doc.nodes /\ doc.id[r] = i
    BY LocatedType DEF Accepted, Acceptable
  <1>3. r \in Requested
    BY <1>2 DEF Requested, Covers
  <1>4. Top(r) = r
    BY <1>2, <1>3, TopFacts DEF Covers
  <1>5. {a \in doc.above[r] : Covers(r, a)} = {}
    <2>1. doc.above[r] \subseteq doc.nodes
      BY <1>1, <1>2 DEF IsDocument
    <2> QED
      BY <1>1, <1>2, <2>1, NoCycle DEF Covers
  <1>6. Depth(r) = 0
    BY <1>4, <1>5, FS_EmptySet DEF Depth
  <1> QED
    BY <1>2, <1>3, <1>4, <1>6

(* The depth below the root grows by one with each level.                  *)
LEMMA DepthFacts ==
    ASSUME UniqueIds, Accepted, NEW o \in Requested
    PROVE  /\ Depth(o) \in Nat
           /\ \A k \in DOMAIN doc.children[o] : Depth(doc.children[o][k]) = Depth(o) + 1
           /\ \A q \in doc.nodes : Covers(o, q) => Depth(q) \in Nat /\ Depth(o) <= Depth(q)
  <1> DEFINE over(q) == {a \in doc.above[q] : Covers(Top(q), a)}
  <1>1. IsDocument(doc) /\ o \in doc.nodes /\ IsFiniteSet(doc.nodes)
    BY DocsAssumption DEF Accepted, Requested, IsDocument
  <1>2. \A q \in doc.nodes : doc.above[q] \subseteq doc.nodes
    BY <1>1 DEF IsDocument
  <1>3. \A q \in doc.nodes : IsFiniteSet(over(q)) /\ Cardinality(over(q)) \in Nat /\ Depth(q) = Cardinality(over(q))
    <2>1. \A q \in doc.nodes : over(q) \subseteq doc.nodes
      BY <1>2
    <2> QED
      BY <1>1, <2>1, FS_Subset, FS_CardinalityType DEF Depth
  <1>4. ASSUME NEW q \in doc.nodes, Covers(o, q)
        PROVE  Depth(o) <= Depth(q)
    <2>1. Top(q) = Top(o)
      BY <1>4, TopBelow
    <2>2. doc.above[o] \subseteq doc.above[q]
      BY <1>1, <1>4 DEF Covers, IsDocument, IsForest
    <2>3. over(o) \subseteq over(q)
      BY <2>1, <2>2
    <2> HIDE DEF over
    <2> QED
      BY <1>1, <1>3, <1>4, <2>3, FS_Subset
  <1>5. ASSUME NEW k \in DOMAIN doc.children[o]
        PROVE  Depth(doc.children[o][k]) = Depth(o) + 1
    <2> DEFINE c == doc.children[o][k]
    <2>1. c \in doc.nodes /\ o \in doc.above[c] /\ doc.above[c] = doc.above[o] \cup {o}
      BY <1>1, ChildFacts
    <2>2. Top(c) = Top(o) /\ Covers(Top(o), o)
      BY <2>1, TopBelow, TopFacts DEF Covers
    <2>3. over(c) = over(o) \cup {o}
      BY <2>1, <2>2
    <2>4. o \notin over(o)
      BY <1>1 DEF IsDocument, IsForest
    <2> HIDE DEF over, c
    <2>5. Cardinality(over(c)) = Cardinality(over(o)) + 1
      BY <1>1, <1>3, <2>3, <2>4, FS_AddElement
    <2> QED
      BY <1>1, <1>3, <2>1, <2>5 DEF c
  <1> QED
    BY <1>1, <1>3, <1>4, <1>5

-----------------------------------------------------------------------------
(* The order of a slice, between nodes and between subtrees.               *)

Following == {p \in doc.nodes \X doc.nodes : Before(p[1], p[2])}

AheadOfTree ==
    {p \in doc.nodes \X doc.nodes : \A q \in doc.nodes : Covers(p[2], q) => Before(p[1], q)}

TreeAhead ==
    {p \in doc.nodes \X doc.nodes :
        \A o, q \in doc.nodes : Covers(p[1], o) /\ Covers(p[2], q) => Before(o, q)}

(* A subtree holds the node it is the subtree of.                          *)
LEMMA AheadOfRoot ==
    ASSUME NEW v, NEW x
    PROVE  /\ <<x, v>> \in AheadOfTree => <<x, v>> \in Following
           /\ <<v, x>> \in TreeAhead => <<v, x>> \in AheadOfTree
  BY DEF AheadOfTree, TreeAhead, Following, Covers

(* The subtree of a root with the smaller id is ahead.                     *)
LEMMA RootsInOrder ==
    ASSUME UniqueIds, Accepted, NEW i \in Elements(request.roots), NEW j \in Elements(request.roots), i < j
    PROVE  <<Located(doc, i), Located(doc, j)>> \in TreeAhead
  <1> DEFINE r == Located(doc, i)
             s == Located(doc, j)
  <1>1. r \in Requested /\ s \in Requested /\ Top(r) = r /\ Top(s) = s /\ doc.id[r] = i /\ doc.id[s] = j
    BY RootFacts
  <1>2. r \in doc.nodes /\ s \in doc.nodes
    BY <1>1 DEF Requested
  <1>3. ASSUME NEW o \in doc.nodes, NEW q \in doc.nodes, Covers(r, o), Covers(s, q)
        PROVE  Before(o, q)
    <2>1. Top(o) = r /\ Top(q) = s
      BY <1>1, <1>3, TopBelow
    <2> QED
      BY <1>1, <2>1 DEF Before
  <1> QED
    BY <1>2, <1>3 DEF TreeAhead

(* A node is ahead of its children, and what is ahead of it as well.       *)
LEMMA ChildrenInOrder ==
    ASSUME UniqueIds, Accepted, NEW v \in Requested, NEW k \in DOMAIN doc.children[v]
    PROVE  /\ <<v, doc.children[v][k]>> \in AheadOfTree
           /\ \A x : <<x, v>> \in AheadOfTree => <<x, doc.children[v][k]>> \in AheadOfTree
           /\ \A x : <<v, x>> \in TreeAhead => <<doc.children[v][k], x>> \in TreeAhead
  <1> DEFINE c == doc.children[v][k]
  <1>1. IsDocument(doc) /\ v \in doc.nodes /\ c \in doc.nodes /\ v \in doc.above[c]
    BY DocsAssumption, ChildFacts DEF Accepted, Requested
  <1>2. \A q \in doc.nodes : Covers(c, q) => Covers(v, q) /\ v \in doc.above[q]
    BY <1>1, CoversTransitive DEF Covers
  <1>4. \A q \in doc.nodes : Covers(c, q) => Before(v, q)
    <2> SUFFICES ASSUME NEW q \in doc.nodes, Covers(c, q)  PROVE Before(v, q)
      OBVIOUS
    <2>1. v \in doc.above[q] /\ Top(q) = Top(v)
      BY <1>2, TopBelow
    <2>2. v < q
      BY <1>1, <2>1 DEF IsDocument, NumberedAsWalked
    <2> QED
      BY <2>1, <2>2 DEF Before
  <1> HIDE DEF c
  <1>5. <<v, c>> \in AheadOfTree
    BY <1>1, <1>4 DEF AheadOfTree
  <1>6. \A x : <<x, v>> \in AheadOfTree => <<x, c>> \in AheadOfTree
    BY <1>1, <1>2 DEF AheadOfTree
  <1>7. \A x : <<v, x>> \in TreeAhead => <<c, x>> \in TreeAhead
    BY <1>1, <1>2 DEF TreeAhead
  <1> QED
    BY <1>5, <1>6, <1>7 DEF c

(* What is below a child comes before what is below a later one.           *)
LEMMA SiblingsInOrder ==
    ASSUME UniqueIds, Accepted, NEW v \in Requested,
           NEW j \in DOMAIN doc.children[v], NEW k \in DOMAIN doc.children[v], j < k
    PROVE  <<doc.children[v][j], doc.children[v][k]>> \in TreeAhead
  <1> DEFINE a == doc.children[v][j]
             b == doc.children[v][k]
  <1>1. IsDocument(doc) /\ v \in doc.nodes /\ doc.nodes \subseteq Nat
    BY DocsAssumption DEF Accepted, Requested, IsDocument
  <1>2. a \in doc.nodes /\ b \in doc.nodes /\ v \in doc.above[a] /\ v \in doc.above[b]
    BY <1>1, ChildFacts
  <1>3. Top(a) = Top(v) /\ Top(b) = Top(v) /\ a \in Requested /\ b \in Requested
    BY <1>2, TopBelow DEF Covers
  <1>4. a < b
    BY <1>1 DEF IsDocument, ListsChildren
  <1>5. a \notin doc.above[b]
    <2>1. doc.children[v] \in Seq(doc.nodes)
      BY <1>1 DEF IsDocument
    <2>2. j \in Nat /\ k \in Nat
      BY <2>1
    <2>3. j # k
      BY <2>2
    <2> QED
      BY <1>1, <2>3, SiblingsApart
  <1>6. \A o \in doc.nodes : \A x \in doc.above[o] : x < o /\ \A y \in doc.nodes : x < y /\ y < o => x \in doc.above[y]
    BY <1>1 DEF IsDocument, NumberedAsWalked
  <1> HIDE DEF a, b
  <1>7. ASSUME NEW o \in doc.nodes, NEW q \in doc.nodes, Covers(a, o), Covers(b, q)
        PROVE  Before(o, q)
    <2>1. Top(o) = Top(v) /\ Top(q) = Top(v)
      BY <1>3, <1>7, TopBelow
    <2>2. o < b
      <3>1. CASE a = o
        BY <1>4, <3>1
      <3>2. CASE a \in doc.above[o]
        <4>1. ~(b < o) /\ b # o
          BY <1>2, <1>4, <1>5, <1>6, <3>2
        <4> QED
          BY <1>1, <1>2, <4>1
      <3> QED
        BY <1>7, <3>1, <3>2 DEF Covers
    <2>3. b <= q
      BY <1>1, <1>2, <1>6, <1>7 DEF Covers
    <2>4. o < q
      BY <1>1, <1>2, <2>2, <2>3
    <2> QED
      BY <2>1, <2>4 DEF Before
  <1> QED
    BY <1>2, <1>7 DEF TreeAhead, a, b

-----------------------------------------------------------------------------
(* What the limits leave out.                                              *)

Reached == {o \in Requested : request.maxDepth = Unlimited \/ Depth(o) <= request.maxDepth}

(* Nothing that the slice should show is here or below.                    *)
Barred == {o \in Requested : \A q \in doc.nodes : Covers(o, q) => q \notin Eligible}

DepthOf == [o \in doc.nodes |-> Depth(o)]

SizeOf == [o \in doc.nodes |-> Descendants(o)]

(* Below a hidden node everything is hidden, below a deep one all is deep. *)
LEMMA BarredFacts ==
    ASSUME UniqueIds, Accepted, NEW o \in Requested,
           ~Rendered(o) \/ (request.maxDepth # Unlimited /\ Depth(o) > request.maxDepth)
    PROVE  o \in Barred
  <1>1. IsDocument(doc) /\ IsRequest(request) /\ o \in doc.nodes
    BY DocsAssumption, RequestsAssumption DEF Accepted, Requested
  <1> SUFFICES ASSUME NEW q \in doc.nodes, Covers(o, q), q \in Eligible
               PROVE  FALSE
    BY DEF Barred
  <1>2. CASE ~Rendered(o)
    <2>1. ~request.includeHidden /\ ~doc.visible[o] /\ doc.visible[q]
      BY <1>2 DEF Rendered, Eligible
    <2> QED
      BY <1>1, <2>1 DEF Covers, IsDocument
  <1>3. CASE request.maxDepth # Unlimited /\ Depth(o) > request.maxDepth
    <2>1. Depth(o) \in Nat /\ Depth(q) \in Nat /\ Depth(o) <= Depth(q)
      BY DepthFacts
    <2>2. request.maxDepth \in Int /\ Depth(q) <= request.maxDepth
      BY <1>1, <1>3 DEF IsRequest, Eligible
    <2> QED
      BY <1>3, <2>1, <2>2
  <1> QED
    BY <1>2, <1>3

(* The depth limit admits the roots, and the children of what is above it. *)
LEMMA RootsAreReached ==
    ASSUME UniqueIds, Accepted, NEW i \in Elements(request.roots)
    PROVE  Located(doc, i) \in Reached /\ DepthOf[Located(doc, i)] = 0
  <1>1. Located(doc, i) \in Requested /\ Depth(Located(doc, i)) = 0
    BY RootFacts
  <1>2. request.maxDepth # Unlimited => 0 <= request.maxDepth
    <2>1. request.maxDepth \in Int \cup {Unlimited}
      BY RequestsAssumption DEF Accepted, IsRequest
    <2> QED
      BY <2>1 DEF Accepted, Acceptable
  <1> QED
    BY <1>1, <1>2 DEF Reached, DepthOf, Requested

LEMMA ReachFacts ==
    ASSUME UniqueIds, Accepted, NEW v \in Reached
    PROVE  /\ v \in doc.nodes /\ v \in Requested
           /\ Rendered(v) => v \in Eligible
           /\ ~Rendered(v) => v \in Barred
           /\ \A k \in DOMAIN doc.children[v] :
                /\ doc.children[v][k] \in Requested
                /\ DepthOf[doc.children[v][k]] = DepthOf[v] + 1
                /\ SizeOf[doc.children[v][k]] = Descendants(doc.children[v][k])
                /\ ~AtLimit(DepthOf[v]) => doc.children[v][k] \in Reached
                /\ AtLimit(DepthOf[v]) => doc.children[v][k] \in Barred
  <1>1. v \in doc.nodes /\ v \in Requested /\ (Rendered(v) => v \in Eligible)
    BY DEF Reached, Requested, Rendered, Eligible
  <1>2. ~Rendered(v) => v \in Barred
    BY <1>1, BarredFacts
  <1>3. request.maxDepth \in Int \cup {Unlimited}
    BY RequestsAssumption DEF Accepted, IsRequest
  <1>4. ASSUME NEW k \in DOMAIN doc.children[v]
        PROVE  /\ doc.children[v][k] \in Requested
               /\ DepthOf[doc.children[v][k]] = DepthOf[v] + 1
               /\ SizeOf[doc.children[v][k]] = Descendants(doc.children[v][k])
               /\ ~AtLimit(DepthOf[v]) => doc.children[v][k] \in Reached
               /\ AtLimit(DepthOf[v]) => doc.children[v][k] \in Barred
    <2> DEFINE c == doc.children[v][k]
    <2>1. c \in doc.nodes /\ v \in doc.above[c]
      BY <1>1, DocsAssumption, ChildFacts DEF Accepted
    <2>2. c \in Requested
      BY <1>1, <2>1, TopBelow DEF Covers
    <2>3. Depth(v) \in Nat /\ Depth(c) = Depth(v) + 1
      BY <1>1, DepthFacts
    <2>4. DepthOf[v] = Depth(v) /\ DepthOf[c] = Depth(c) /\ SizeOf[c] = Descendants(c)
      BY <1>1, <2>1 DEF DepthOf, SizeOf
    <2> HIDE DEF c
    <2>5. ~AtLimit(DepthOf[v]) => c \in Reached
      BY <1>3, <2>2, <2>3, <2>4 DEF AtLimit, Reached
    <2>6. AtLimit(DepthOf[v]) => request.maxDepth # Unlimited /\ Depth(c) > request.maxDepth
      BY <1>3, <2>3, <2>4 DEF AtLimit
    <2>7. AtLimit(DepthOf[v]) => c \in Barred
      BY <2>2, <2>6, BarredFacts
    <2> QED
      BY <2>2, <2>3, <2>4, <2>5, <2>7 DEF c
  <1> QED
    BY <1>1, <1>2, <1>4

-----------------------------------------------------------------------------
(* The invariant.                                                          *)

(* What is recorded about a node is what its place in the document says.   *)
Measured ==
    /\ \A k \in DOMAIN todo : todo[k].at \in Reached /\ todo[k].depth = DepthOf[todo[k].at]
    /\ \A k \in DOMAIN nodes : nodes[k].at \in Eligible
    /\ \A k \in DOMAIN omitted :
         /\ omitted[k].at \in Requested
         /\ omitted[k].descendants = SizeOf[omitted[k].at]
         /\ omitted[k].reason # "max-nodes" => omitted[k].at \in Barred

TodoInOrder ==
    \A j, k \in DOMAIN todo : j < k => <<todo[j].at, todo[k].at>> \in TreeAhead

ShownFirst ==
    \A n \in DOMAIN nodes, k \in DOMAIN todo : <<nodes[n].at, todo[k].at>> \in AheadOfTree

ShownInOrder ==
    \A m, n \in DOMAIN nodes : m < n => <<nodes[m].at, nodes[n].at>> \in Following

(* The budget leaves out only what comes after everything shown.           *)
CutAtBudget ==
    \A k \in DOMAIN omitted :
        omitted[k].reason = "max-nodes" =>
            /\ BudgetSpent
            /\ \A n \in DOMAIN nodes : <<nodes[n].at, omitted[k].at>> \in AheadOfTree

Limits ==
    /\ Working => Acceptable(doc, request)
    /\ Measured
    /\ TodoInOrder /\ ShownFirst /\ ShownInOrder /\ CutAtBudget

LEMMA LimitsInit == Init => Limits
  BY DEF Init, Limits, Working, Measured, TodoInOrder, ShownFirst, ShownInOrder, CutAtBudget

(* None of this changes while a slice is cut.                              *)
LEMMA SameQuestion ==
    ASSUME doc' = doc, request' = request
    PROVE  /\ Requested' = Requested /\ Eligible' = Eligible
           /\ Reached' = Reached /\ Barred' = Barred
           /\ DepthOf' = DepthOf /\ SizeOf' = SizeOf
           /\ Following' = Following /\ AheadOfTree' = AheadOfTree /\ TreeAhead' = TreeAhead
  BY DEF Requested, Eligible, Reached, Barred, DepthOf, SizeOf, Following, AheadOfTree, TreeAhead,
         Before, Top, Depth, Covers, Descendants

LEMMA StillAcceptable ==
    ASSUME doc' = doc, request' = request, Acceptable(doc, request)
    PROVE  Acceptable(doc, request)'
  OBVIOUS

LEMMA LimitsBegin ==
    ASSUME UniqueIds, Partition, Limits, Begin
    PROVE  Limits'
  <1>1. PICK s \in [1..Len(request.roots) -> Elements(request.roots)] :
            /\ IsAscending(s)
            /\ todo' = [k \in DOMAIN s |-> Visit(Located(doc, s[k]), NoParent, 0)]
    BY DEF Begin
  <1>2. /\ Accepted /\ nodes' = <<>> /\ omitted' = <<>> /\ doc' = doc /\ request' = request
        /\ Acceptable(doc, request)
    BY DEF Begin, Partition, TypeInv, Accepted
  <1>3. /\ DOMAIN todo' = DOMAIN s
        /\ \A k \in DOMAIN s : todo'[k].at = Located(doc, s[k]) /\ todo'[k].depth = 0
    BY <1>1 DEF Visit
  <1>4. \A k \in DOMAIN s : Located(doc, s[k]) \in Reached /\ DepthOf[Located(doc, s[k])] = 0
    BY <1>2, RootsAreReached
  <1>5. \A j, k \in DOMAIN s : j < k => <<Located(doc, s[j]), Located(doc, s[k])>> \in TreeAhead
    BY <1>1, <1>2, RootsInOrder DEF IsAscending
  <1>6. Reached' = Reached /\ DepthOf' = DepthOf /\ TreeAhead' = TreeAhead
    BY <1>2, SameQuestion
  <1>7. Measured' /\ TodoInOrder'
    BY <1>2, <1>3, <1>4, <1>5, <1>6 DEF Measured, TodoInOrder
  <1>8. ShownFirst' /\ ShownInOrder' /\ CutAtBudget' /\ Acceptable(doc, request)'
    BY <1>2, StillAcceptable DEF ShownFirst, ShownInOrder, CutAtBudget
  <1> QED
    BY <1>7, <1>8 DEF Limits

LEMMA LimitsOmit ==
    ASSUME UniqueIds, Partition, Limits, OmitHidden \/ OmitOverBudget
    PROVE  Limits'
  <1> DEFINE v == Head(todo)
             n == Len(omitted) + 1
  <1>1. /\ todo # <<>> /\ phase = "visiting" /\ todo' = Tail(todo)
        /\ nodes' = nodes /\ doc' = doc /\ request' = request
    BY DEF OmitHidden, OmitOverBudget
  <1>2. Accepted /\ Acceptable(doc, request)
    BY <1>1 DEF Limits, Working, Partition, TypeInv, Accepted
  <1>3. /\ v = todo[1] /\ 1 \in DOMAIN todo /\ v.at \in doc.nodes
        /\ \A k \in DOMAIN todo' : k \in Nat /\ k + 1 \in DOMAIN todo /\ 1 < k + 1 /\ todo'[k] = todo[k + 1]
    BY <1>1, TailFacts, HeadType DEF Partition, TypeInv
  <1>4. v.at \in Reached
    BY <1>3 DEF Limits, Measured
  <1>5. PICK e \in OmissionType :
            /\ e.at = v.at /\ e.descendants = SizeOf[v.at]
            /\ \/ e.reason = "not-rendered" /\ v.at \in Barred
               \/ e.reason = "max-nodes" /\ BudgetSpent
            /\ omitted' = Append(omitted, e)
    <2>1. SizeOf[v.at] = Descendants(v.at)
      BY <1>3 DEF SizeOf
    <2>2. ~Rendered(v.at) => v.at \in Barred
      BY <1>2, <1>4, ReachFacts
    <2> QED
      BY <1>1, <2>1, <2>2, HeadType DEF OmitHidden, OmitOverBudget, Omission, Partition
  <1>6. /\ DOMAIN omitted' = DOMAIN omitted \cup {n}
        /\ \A k \in DOMAIN omitted : omitted'[k] = omitted[k]
        /\ omitted'[n] = e
    BY <1>5, AppendFacts DEF Partition, TypeInv
  <1>7. /\ Requested' = Requested /\ Eligible' = Eligible
        /\ Reached' = Reached /\ Barred' = Barred
        /\ DepthOf' = DepthOf /\ SizeOf' = SizeOf
        /\ Following' = Following /\ AheadOfTree' = AheadOfTree /\ TreeAhead' = TreeAhead
    BY <1>1, SameQuestion
  <1>8. v.at \in Requested
    BY <1>2, <1>4, ReachFacts
  <1> HIDE DEF n
  <1>9. Measured'
    <2>1. \A k \in DOMAIN todo' : todo'[k].at \in Reached /\ todo'[k].depth = DepthOf[todo'[k].at]
      BY <1>3 DEF Limits, Measured
    <2>2. \A k \in DOMAIN omitted' :
             /\ omitted'[k].at \in Requested
             /\ omitted'[k].descendants = SizeOf[omitted'[k].at]
             /\ omitted'[k].reason # "max-nodes" => omitted'[k].at \in Barred
      BY <1>5, <1>6, <1>8 DEF Limits, Measured
    <2> QED
      BY <1>1, <1>7, <2>1, <2>2 DEF Limits, Measured
  <1>10. TodoInOrder'
    <2>1. \A j, k \in DOMAIN todo' : j < k => j + 1 < k + 1
      BY <1>3
    <2> QED
      BY <1>3, <1>7, <2>1 DEF Limits, TodoInOrder
  <1>11. ShownFirst'
    BY <1>1, <1>3, <1>7 DEF Limits, ShownFirst
  <1>12. ShownInOrder'
    BY <1>1, <1>7 DEF Limits, ShownInOrder
  <1>13. CutAtBudget'
    <2>1. BudgetSpent' <=> BudgetSpent
      BY <1>1 DEF BudgetSpent
    <2>2. \A m \in DOMAIN nodes : <<nodes[m].at, v.at>> \in AheadOfTree
      BY <1>3 DEF Limits, ShownFirst
    <2> QED
      BY <1>1, <1>5, <1>6, <1>7, <2>1, <2>2 DEF Limits, CutAtBudget
  <1> QED
    BY <1>1, <1>2, <1>9, <1>10, <1>11, <1>12, <1>13, StillAcceptable DEF Limits

LEMMA LimitsInclude ==
    ASSUME UniqueIds, Partition, Limits, IncludeAtLimit \/ IncludeAndDescend
    PROVE  Limits'
  <1> DEFINE v == Head(todo)
             c == doc.children[v.at]
             B == Below(v)
             rest == Tail(todo)
             more == [k \in DOMAIN B |-> Omission(B[k], "max-depth")]
             n == Len(nodes) + 1
             L == Len(omitted)
             M == Len(B)
  <1>1. /\ todo # <<>> /\ phase = "visiting" /\ ~BudgetSpent /\ Rendered(v.at)
        /\ doc' = doc /\ request' = request
    BY DEF IncludeAtLimit, IncludeAndDescend
  <1>2. PICK t \in {"no", "max-depth"} :
            /\ nodes' = Append(nodes, Included(v, t))
            /\ \/ AtLimit(v.depth) /\ omitted' = omitted \o more /\ todo' = rest
               \/ ~AtLimit(v.depth) /\ omitted' = omitted /\ todo' = B \o rest
    BY DEF IncludeAtLimit, IncludeAndDescend
  <1>3. Accepted /\ Acceptable(doc, request) /\ TypeInv
    BY <1>1 DEF Limits, Working, Partition, TypeInv, Accepted
  <1>4. /\ v = todo[1] /\ 1 \in DOMAIN todo /\ v \in VisitType /\ rest \in Seq(VisitType)
        /\ \A k \in DOMAIN rest : k \in Nat /\ k + 1 \in DOMAIN todo /\ 1 < k + 1 /\ rest[k] = todo[k + 1]
    BY <1>1, <1>3, TailFacts, HeadType DEF TypeInv
  <1>5. v.at \in Reached /\ v.depth = DepthOf[v.at]
    BY <1>4 DEF Limits, Measured
  <1>6. /\ v.at \in Requested /\ v.at \in Eligible
        /\ \A k \in DOMAIN c :
             /\ c[k] \in Requested
             /\ DepthOf[c[k]] = v.depth + 1
             /\ SizeOf[c[k]] = Descendants(c[k])
             /\ ~AtLimit(v.depth) => c[k] \in Reached
             /\ AtLimit(v.depth) => c[k] \in Barred
    BY <1>1, <1>3, <1>5, ReachFacts
  <1>7. /\ B \in Seq(VisitType) /\ M \in Nat /\ DOMAIN B = 1..M /\ DOMAIN B = DOMAIN c
        /\ \A k \in DOMAIN B : B[k].at = c[k] /\ B[k].depth = v.depth + 1
        /\ more \in Seq(OmissionType) /\ DOMAIN more = DOMAIN B
        /\ \A k \in DOMAIN B : /\ more[k].at = c[k] /\ more[k].reason = "max-depth"
                               /\ more[k].descendants = Descendants(c[k])
    <2>1. /\ B \in Seq(VisitType) /\ M \in Nat /\ DOMAIN B = 1..M /\ DOMAIN B = DOMAIN c
          /\ \A k \in DOMAIN B : B[k] = Visit(c[k], v.at, v.depth + 1)
          /\ more \in Seq(OmissionType)
      BY <1>3, <1>4, BelowType
    <2> HIDE DEF B, v, c
    <2>2. \A k \in DOMAIN B : B[k].at = c[k] /\ B[k].depth = v.depth + 1
      BY <2>1 DEF Visit
    <2> QED
      BY <2>1, <2>2 DEF Omission
  <1>8. /\ n \in Nat /\ DOMAIN nodes = 1..(n - 1) /\ DOMAIN nodes' = DOMAIN nodes \cup {n}
        /\ \A k \in DOMAIN nodes : nodes'[k] = nodes[k]
        /\ nodes'[n].at = v.at
    BY <1>1, <1>2, <1>3, HeadType, AppendFacts DEF TypeInv, Included
  <1>9. /\ Requested' = Requested /\ Eligible' = Eligible
        /\ Reached' = Reached /\ Barred' = Barred
        /\ DepthOf' = DepthOf /\ SizeOf' = SizeOf
        /\ Following' = Following /\ AheadOfTree' = AheadOfTree /\ TreeAhead' = TreeAhead
    BY <1>1, SameQuestion
  <1>10. /\ \A k \in DOMAIN rest : rest[k].at \in Reached /\ rest[k].depth = DepthOf[rest[k].at]
         /\ \A k \in DOMAIN rest : <<v.at, rest[k].at>> \in TreeAhead
         /\ \A j, k \in DOMAIN rest : j < k => <<rest[j].at, rest[k].at>> \in TreeAhead
         /\ \A m \in DOMAIN nodes : \A k \in DOMAIN rest : <<nodes[m].at, rest[k].at>> \in AheadOfTree
         /\ \A m \in DOMAIN nodes : <<nodes[m].at, v.at>> \in AheadOfTree
    <2>1. \A j, k \in DOMAIN rest : j < k => j + 1 < k + 1
      BY <1>4
    <2> HIDE DEF v, rest
    <2> QED
      BY <1>4, <2>1 DEF Limits, Measured, TodoInOrder, ShownFirst
  <1>11. /\ \A k \in DOMAIN c : <<v.at, c[k]>> \in AheadOfTree
         /\ \A k \in DOMAIN c : \A x : <<x, v.at>> \in AheadOfTree => <<x, c[k]>> \in AheadOfTree
         /\ \A k \in DOMAIN c : \A x : <<v.at, x>> \in TreeAhead => <<c[k], x>> \in TreeAhead
         /\ \A j, k \in DOMAIN c : j < k => <<c[j], c[k]>> \in TreeAhead
    BY <1>3, <1>6, ChildrenInOrder, SiblingsInOrder
  <1>12. \A x : (<<x, v.at>> \in AheadOfTree => <<x, v.at>> \in Following)
                /\ (<<v.at, x>> \in TreeAhead => <<v.at, x>> \in AheadOfTree)
    BY AheadOfRoot
  <1> HIDE DEF v, c, B, rest, more, n, L, M
  <1>13. /\ \A k \in DOMAIN omitted' :
              \/ k \in DOMAIN omitted /\ omitted'[k] = omitted[k]
              \/ \E j \in DOMAIN c : /\ AtLimit(v.depth)
                                     /\ omitted'[k].at = c[j] /\ omitted'[k].reason = "max-depth"
                                     /\ omitted'[k].descendants = Descendants(c[j])
         /\ \A k \in DOMAIN todo' :
              \/ ~AtLimit(v.depth) /\ k \in DOMAIN B /\ todo'[k] = B[k]
              \/ AtLimit(v.depth) /\ k \in DOMAIN rest /\ todo'[k] = rest[k]
              \/ ~AtLimit(v.depth) /\ k \notin DOMAIN B /\ k - M \in DOMAIN rest /\ todo'[k] = rest[k - M]
    <2>1. CASE AtLimit(v.depth) /\ omitted' = omitted \o more /\ todo' = rest
      <3>1. omitted \in Seq(OmissionType)
        BY <1>3 DEF TypeInv
      <3>2. \A k \in DOMAIN omitted' :
               \/ k \in DOMAIN omitted /\ omitted'[k] = omitted[k]
               \/ k - L \in DOMAIN more /\ omitted'[k] = more[k - L]
        BY <1>7, <2>1, <3>1, ConcatFacts DEF L
      <3> QED
        BY <1>7, <2>1, <3>2
    <2>2. CASE ~AtLimit(v.depth) /\ omitted' = omitted /\ todo' = B \o rest
      <3>1. \A k \in DOMAIN todo' :
               \/ k \in DOMAIN B /\ todo'[k] = B[k]
               \/ k - M \in DOMAIN rest /\ todo'[k] = rest[k - M] /\ k \notin DOMAIN B
        BY <1>4, <1>7, <2>2, ConcatFacts DEF M
      <3> QED
        BY <2>2, <3>1
    <2> QED
      BY <1>2, <2>1, <2>2
  <1>14. \A k \in DOMAIN todo' : k \in Nat /\ 1 <= k
    <2>1. B \o rest \in Seq(VisitType)
      BY <1>4, <1>7, ConcatFacts
    <2>2. todo' \in Seq(VisitType)
      BY <1>2, <1>4, <2>1
    <2> QED
      BY <2>2
  <1>15. Measured'
    <2>1. \A k \in DOMAIN todo' : todo'[k].at \in Reached /\ todo'[k].depth = DepthOf[todo'[k].at]
      BY <1>6, <1>7, <1>10, <1>13
    <2>2. \A k \in DOMAIN nodes' : nodes'[k].at \in Eligible
      BY <1>6, <1>8 DEF Limits, Measured
    <2>3. \A k \in DOMAIN omitted' :
             /\ omitted'[k].at \in Requested
             /\ omitted'[k].descendants = SizeOf[omitted'[k].at]
             /\ omitted'[k].reason # "max-nodes" => omitted'[k].at \in Barred
      BY <1>6, <1>13 DEF Limits, Measured
    <2> QED
      BY <1>9, <2>1, <2>2, <2>3 DEF Measured
  <1>16. TodoInOrder'
    <2> SUFFICES ASSUME NEW j \in DOMAIN todo', NEW k \in DOMAIN todo', j < k
                 PROVE  <<todo'[j].at, todo'[k].at>> \in TreeAhead
      BY <1>9 DEF TodoInOrder
    <2>1. CASE AtLimit(v.depth)
      BY <1>10, <1>13, <2>1
    <2>2. CASE ~AtLimit(v.depth) /\ k \in DOMAIN B /\ todo'[k] = B[k]
      <3>1. j \in DOMAIN B
        BY <1>7, <1>14, <2>2
      <3>2. todo'[j] = B[j]
        BY <1>13, <2>2, <3>1
      <3> QED
        BY <1>7, <1>11, <2>2, <3>1, <3>2
    <2>3. CASE /\ ~AtLimit(v.depth) /\ k - M \in DOMAIN rest /\ todo'[k] = rest[k - M]
               /\ j \in DOMAIN B /\ todo'[j] = B[j]
      <3>1. <<v.at, rest[k - M].at>> \in TreeAhead
        BY <1>10, <2>3
      <3>2. <<c[j], rest[k - M].at>> \in TreeAhead
        BY <1>7, <1>11, <2>3, <3>1
      <3> QED
        BY <1>7, <2>3, <3>2
    <2>4. CASE /\ ~AtLimit(v.depth) /\ k - M \in DOMAIN rest /\ todo'[k] = rest[k - M]
               /\ j - M \in DOMAIN rest /\ todo'[j] = rest[j - M]
      <3>1. j - M < k - M
        BY <1>7, <1>14
      <3> QED
        BY <1>10, <2>4, <3>1
    <2> QED
      BY <1>13, <2>1, <2>2, <2>3, <2>4
  <1>17. ShownFirst'
    <2> SUFFICES ASSUME NEW m \in DOMAIN nodes', NEW k \in DOMAIN todo'
                 PROVE  <<nodes'[m].at, todo'[k].at>> \in AheadOfTree
      BY <1>9 DEF ShownFirst
    <2>1. todo'[k].at \in {c[j] : j \in DOMAIN c} \cup {rest[j].at : j \in DOMAIN rest}
      BY <1>7, <1>13
    <2>2. ASSUME NEW x, <<x, v.at>> \in AheadOfTree \/ x = v.at
          PROVE  \A j \in DOMAIN c : <<x, c[j]>> \in AheadOfTree
      BY <1>11, <2>2
    <2>3. CASE m \in DOMAIN nodes /\ nodes'[m] = nodes[m]
      <3>1. /\ \A j \in DOMAIN c : <<nodes[m].at, c[j]>> \in AheadOfTree
            /\ \A j \in DOMAIN rest : <<nodes[m].at, rest[j].at>> \in AheadOfTree
        BY <1>10, <2>2, <2>3
      <3> QED
        BY <2>1, <2>3, <3>1
    <2>4. CASE nodes'[m].at = v.at
      <3>1. /\ \A j \in DOMAIN c : <<v.at, c[j]>> \in AheadOfTree
            /\ \A j \in DOMAIN rest : <<v.at, rest[j].at>> \in AheadOfTree
        BY <1>10, <1>12, <2>2
      <3> QED
        BY <2>1, <2>4, <3>1
    <2> QED
      BY <1>8, <2>3, <2>4
  <1>18. ShownInOrder'
    <2> SUFFICES ASSUME NEW l \in DOMAIN nodes', NEW m \in DOMAIN nodes', l < m
                 PROVE  <<nodes'[l].at, nodes'[m].at>> \in Following
      BY <1>9 DEF ShownInOrder
    <2>1. l \in DOMAIN nodes
      BY <1>8
    <2>2. CASE m = n
      BY <1>8, <1>10, <1>12, <2>1, <2>2
    <2>3. CASE m \in DOMAIN nodes
      BY <1>8, <2>1, <2>3 DEF Limits, ShownInOrder
    <2> QED
      BY <1>8, <2>2, <2>3
  <1>19. CutAtBudget'
    <2>1. \A k \in DOMAIN omitted : omitted[k].reason # "max-nodes"
      BY <1>1 DEF Limits, CutAtBudget
    <2>2. \A k \in DOMAIN omitted' : omitted'[k].reason # "max-nodes"
      BY <1>13, <2>1
    <2> QED
      BY <2>2 DEF CutAtBudget
  <1> QED
    BY <1>1, <1>3, <1>15, <1>16, <1>17, <1>18, <1>19, StillAcceptable DEF Limits

LEMMA LimitsFinish ==
    ASSUME Partition, Limits, Finish
    PROVE  Limits'
  <1>1. /\ phase = "visiting" /\ doc' = doc /\ request' = request /\ omitted' = omitted /\ todo' = todo
        /\ DOMAIN nodes' = DOMAIN nodes
    BY DEF Finish
  <1>2. \A k \in DOMAIN nodes : nodes[k] \in NodeType
    BY DEF Partition, TypeInv
  <1>3. \A k \in DOMAIN nodes : nodes'[k].at = nodes[k].at
    BY <1>2 DEF Finish, NodeType
  <1>4. /\ Requested' = Requested /\ Eligible' = Eligible
        /\ Reached' = Reached /\ Barred' = Barred
        /\ DepthOf' = DepthOf /\ SizeOf' = SizeOf
        /\ Following' = Following /\ AheadOfTree' = AheadOfTree /\ TreeAhead' = TreeAhead
    BY <1>1, SameQuestion
  <1>5. BudgetSpent' <=> BudgetSpent
    <2>1. Len(nodes') = Len(nodes)
      BY DEF Finish, Partition, TypeInv
    <2> QED
      BY <1>1, <2>1 DEF BudgetSpent
  <1>6. Measured'
    BY <1>1, <1>3, <1>4 DEF Limits, Measured
  <1>7. TodoInOrder' /\ ShownFirst' /\ ShownInOrder'
    BY <1>1, <1>3, <1>4 DEF Limits, TodoInOrder, ShownFirst, ShownInOrder
  <1>8. CutAtBudget'
    BY <1>1, <1>3, <1>4, <1>5 DEF Limits, CutAtBudget
  <1>9. Acceptable(doc, request)
    BY <1>1 DEF Limits, Working
  <1> QED
    BY <1>1, <1>6, <1>7, <1>8, <1>9, StillAcceptable DEF Limits

LEMMA LimitsStep ==
    ASSUME UniqueIds, Partition, Limits, [Next]_vars
    PROVE  Limits'
  <1>1. CASE Refuse \/ UNCHANGED vars
    <2>1. /\ doc' = doc /\ request' = request /\ todo' = todo /\ nodes' = nodes /\ omitted' = omitted
          /\ Working' => Working
      BY <1>1 DEF Refuse, vars, Working
    <2>2. /\ Requested' = Requested /\ Eligible' = Eligible
          /\ Reached' = Reached /\ Barred' = Barred
          /\ DepthOf' = DepthOf /\ SizeOf' = SizeOf
          /\ Following' = Following /\ AheadOfTree' = AheadOfTree /\ TreeAhead' = TreeAhead
      BY <2>1, SameQuestion
    <2>3. Working' => Acceptable(doc, request)'
      BY <2>1, StillAcceptable DEF Limits
    <2>4. Measured' /\ TodoInOrder' /\ ShownFirst' /\ ShownInOrder'
      BY <2>1, <2>2 DEF Limits, Measured, TodoInOrder, ShownFirst, ShownInOrder
    <2>5. CutAtBudget'
      BY <2>1, <2>2 DEF Limits, CutAtBudget, BudgetSpent
    <2> QED
      BY <2>3, <2>4, <2>5 DEF Limits
  <1> QED
    BY <1>1, LimitsBegin, LimitsOmit, LimitsInclude, LimitsFinish DEF Next

LEMMA LimitsInvariant == UniqueIds => (Spec => []Limits)
  <1> SUFFICES ASSUME UniqueIds PROVE Spec => []Limits
    OBVIOUS
  <1>1. Init => Limits
    BY LimitsInit
  <1>2. Partition /\ Limits /\ [Next]_vars => Limits'
    BY LimitsStep
  <1> QED
    BY <1>1, <1>2, SlicePartitions, PTL DEF Spec

(* A node that is left out though eligible was left out by the node budget. *)
LEMMA OnlyTheBudgetCuts ==
    ASSUME UniqueIds, Partition, Limits, phase = "done"
    PROVE  /\ Accepted
           /\ Shown \subseteq Eligible
           /\ \A q \in Eligible \ Shown :
                /\ BudgetSpent
                /\ \A n \in DOMAIN nodes : Before(nodes[n].at, q)
           /\ \A m, n \in DOMAIN nodes : m < n => Before(nodes[m].at, nodes[n].at)
  <1>1. Accepted
    BY DEF Limits, Working, Partition, TypeInv, Accepted
  <1>2. Shown \subseteq Eligible
    BY DEF Limits, Measured, Shown
  <1>3. ASSUME NEW q \in Eligible \ Shown
        PROVE  BudgetSpent /\ \A n \in DOMAIN nodes : Before(nodes[n].at, q)
    <2>1. q \in Requested /\ q \in doc.nodes /\ \A n \in DOMAIN nodes : nodes[n].at # q
      BY <1>3 DEF Eligible, Requested, Shown
    <2>2. PICK k \in DOMAIN omitted : Covers(omitted[k].at, q)
      BY <2>1 DEF Partition, Whole, Working
    <2>3. omitted[k].reason = "max-nodes"
      BY <1>3, <2>1, <2>2 DEF Limits, Measured, Barred
    <2>4. BudgetSpent /\ \A n \in DOMAIN nodes : <<nodes[n].at, omitted[k].at>> \in AheadOfTree
      BY <2>3 DEF Limits, CutAtBudget
    <2> QED
      BY <2>1, <2>2, <2>4 DEF AheadOfTree
  <1>4. \A m, n \in DOMAIN nodes : m < n => Before(nodes[m].at, nodes[n].at)
    BY DEF Limits, ShownInOrder, Following
  <1> QED
    BY <1>1, <1>2, <1>3, <1>4

LEMMA LimitsKeepAPrefix ==
    ASSUME UniqueIds, Partition, Limits, TypeOK
    PROVE  BudgetKeepsPrefix
  <1> SUFFICES ASSUME phase = "done"
               PROVE  /\ Shown \subseteq Eligible
                      /\ Shown = Eligible \/ Len(nodes) = request.maxNodes
                      /\ \A o \in Shown, q \in Eligible \ Shown : Before(o, q)
                      /\ \A j, k \in DOMAIN nodes : j < k => Before(nodes[j].at, nodes[k].at)
    BY DEF BudgetKeepsPrefix
  <1>1. ASSUME Shown # Eligible
        PROVE  Len(nodes) = request.maxNodes
    <2>1. BudgetSpent
      BY <1>1, OnlyTheBudgetCuts
    <2>2. request.maxNodes \in Int /\ request.maxNodes >= 1
      BY OnlyTheBudgetCuts, RequestsAssumption DEF Accepted, Acceptable, IsRequest
    <2>3. Len(nodes) \in Nat /\ (nodes # <<>> => Len(nodes) <= request.maxNodes) /\ Len(<<>>) = 0
      BY DEF TypeOK
    <2> QED
      BY <2>1, <2>2, <2>3 DEF BudgetSpent
  <1>2. \A o \in Shown, q \in Eligible \ Shown : Before(o, q)
    BY OnlyTheBudgetCuts DEF Shown
  <1> QED
    BY <1>1, <1>2, OnlyTheBudgetCuts

(* The total of a list is its last sum.                                    *)
LEMMA TotalFacts ==
    ASSUME NEW sizes \in Seq(Int)
    PROVE  /\ Total(sizes) = SizesBefore(sizes)[Len(sizes) + 1]
           /\ Total(sizes) \in Int
<1>1. Total(sizes) = SizesBefore(sizes)[Len(sizes) + 1]
  BY Zenon DEF Total, SizesBefore, SumsOf
<1>2. Len(sizes) + 1 \in 1..(Len(sizes) + 1)
  OBVIOUS
<1>. QED  BY <1>1, <1>2, SumsFacts

(* The nodes shown and the subtrees left out are all that was asked for.   *)
LEMMA LimitsAddUp ==
    ASSUME UniqueIds, Partition, Limits
    PROVE  SizesAddUp
  <1> DEFINE F == [k \in DOMAIN omitted |-> {q \in doc.nodes : Covers(omitted[k].at, q)}]
             sizes == [k \in DOMAIN omitted |-> 1 + omitted[k].descendants]
             gone == UNION {F[k] : k \in DOMAIN omitted}
  <1> SUFFICES ASSUME phase = "done"
               PROVE  Len(nodes) + Total(sizes) = Cardinality(Requested)
    BY DEF SizesAddUp
  <1>1. /\ Accepted /\ IsDocument(doc) /\ TypeInv
        /\ \A k \in DOMAIN omitted : omitted[k].at \in doc.nodes
        /\ \A k \in DOMAIN nodes : nodes[k].at \in doc.nodes
    BY DocIsDocument, OnlyTheBudgetCuts, EntriesInDocument DEF Partition
  <1>2. IsFiniteSet(doc.nodes)
    BY <1>1 DEF IsDocument
  <1>3. DOMAIN sizes = DOMAIN omitted /\ sizes \in Seq(Int)
    <2>1. omitted \in Seq(OmissionType)
      BY <1>1 DEF TypeInv
    <2>2. \A k \in DOMAIN omitted : omitted[k] \in OmissionType
      BY <2>1
    <2>3. \A k \in DOMAIN omitted : omitted[k].descendants \in Nat
      BY <2>2 DEF OmissionType
    <2>4. \A k \in DOMAIN omitted : sizes[k] \in Int
      BY <2>3
    <2>5. DOMAIN omitted = 1..Len(omitted) /\ Len(omitted) \in Nat
      BY <2>1
    <2>6. DOMAIN sizes = DOMAIN omitted
      OBVIOUS
    <2> HIDE DEF sizes
    <2>7. sizes = [k \in 1..Len(omitted) |-> sizes[k]]
      BY <2>5, <2>6 DEF sizes
    <2> QED
      BY <2>4, <2>5, <2>6, <2>7
  <1>4. \A k \in DOMAIN sizes : IsFiniteSet(F[k]) /\ sizes[k] = Cardinality(F[k])
    <2> SUFFICES ASSUME NEW k \in DOMAIN omitted
                 PROVE  IsFiniteSet(F[k]) /\ 1 + omitted[k].descendants = Cardinality(F[k])
      BY <1>3
    <2> DEFINE a == omitted[k].at
               below == {q \in doc.nodes : a \in doc.above[q]}
    <2>1. a \in doc.nodes /\ a \notin doc.above[a]
      BY <1>1 DEF IsDocument, IsForest
    <2>2. omitted[k].descendants = Cardinality(below)
      BY <1>1 DEF Limits, Measured, SizeOf, Descendants
    <2>3. F[k] = below \cup {a}
      BY <2>1 DEF Covers
    <2>4. a \notin below /\ IsFiniteSet(below)
      BY <1>2, <2>1, FS_Subset
    <2> HIDE DEF F, a, below
    <2>5. IsFiniteSet(F[k]) /\ Cardinality(F[k]) = Cardinality(below) + 1 /\ Cardinality(below) \in Nat
      BY <2>3, <2>4, FS_AddElement, FS_CardinalityType
    <2> QED
      BY <2>2, <2>5
  <1>5. \A j, k \in DOMAIN sizes : j # k => F[j] \cap F[k] = {}
    <2> SUFFICES ASSUME NEW j \in DOMAIN omitted, NEW k \in DOMAIN omitted, j # k,
                        NEW q \in doc.nodes, Covers(omitted[j].at, q), Covers(omitted[k].at, q)
                 PROVE  FALSE
      BY <1>3
    <2>1. omitted[j].at = omitted[k].at \/ omitted[j].at \in doc.above[omitted[k].at]
            \/ omitted[k].at \in doc.above[omitted[j].at]
      BY <1>1, OverlapIsNesting DEF Covers
    <2> QED
      BY <2>1 DEF Partition, Apart, OmittedApart, Covers
  <1>6. Requested = Shown \cup gone
    <2>1. Shown \subseteq Requested
      BY OnlyTheBudgetCuts DEF Eligible
    <2>2. \A k \in DOMAIN omitted : F[k] \subseteq Requested
      BY <1>1, TopBelow DEF Limits, Measured
    <2>3. \A o \in Requested : o \in Shown \/ \E k \in DOMAIN omitted : o \in F[k]
      BY DEF Partition, Whole, Working, Shown, Requested
    <2> HIDE DEF F
    <2> QED
      BY <2>1, <2>2, <2>3
  <1>7. Shown \cap gone = {}
    BY DEF Partition, Apart, ShownApart, Shown
  <1>8. IsFiniteSet(Shown) /\ Cardinality(Shown) = Len(nodes)
    <2> DEFINE n == Len(nodes)
               S == 1..n
               at == [k \in S |-> nodes[k].at]
    <2>1. n \in Nat /\ DOMAIN nodes = 1..n
      BY <1>1 DEF TypeInv
    <2> HIDE DEF n
    <2>2. /\ \A k \in S : at[k] \in Shown
          /\ \A o \in Shown : \E k \in S : o = at[k]
          /\ \A j, k \in S : at[j] = at[k] => j = k
      BY <2>1 DEF Shown, Partition, Apart, ShownApart
    <2>3. 1 \in Int /\ n \in Int
      BY <2>1
    <2>4. IsFiniteSet(S) /\ Cardinality(S) = IF 1 > n THEN 0 ELSE n - 1 + 1
      BY <2>3, FS_Interval, Zenon
    <2> HIDE DEF at, S
    <2>5. IsFiniteSet(Shown) /\ Cardinality(Shown) = Cardinality(S)
      BY <2>2, <2>4, ImageSize
    <2> QED
      BY <2>1, <2>4, <2>5 DEF n
  <1> HIDE DEF F, sizes
  <1>9. IsFiniteSet(gone) /\ Cardinality(gone) = Total(sizes) /\ Total(sizes) \in Int
    <2>1. \A x : x \in gone <=> \E k \in DOMAIN sizes : x \in F[k]
      BY <1>3
    <2> HIDE DEF gone
    <2>2. IsFiniteSet(gone) /\ Cardinality(gone) = SizesBefore(sizes)[Len(sizes) + 1]
      BY <1>3, <1>4, <1>5, <2>1, FamilySize
    <2> QED
      BY <1>3, <2>2, TotalFacts
  <1> HIDE DEF gone
  <1>10. Cardinality(Shown \cup gone) = Cardinality(Shown) + Cardinality(gone) - Cardinality(Shown \cap gone)
    BY <1>8, <1>9, FS_Union, Zenon
  <1>11. Cardinality(Shown \cap gone) = 0
    BY <1>7, FS_EmptySet
  <1>12. Len(nodes) \in Nat
    BY <1>1 DEF TypeInv
  <1> QED
    BY <1>6, <1>8, <1>9, <1>10, <1>11, <1>12

(* cutSlice: the node budget keeps a prefix of what the slice would show,  *)
(* and the omissions say exactly how much is missing.                      *)
THEOREM SliceLimitsAreExact == UniqueIds => (Spec => []LimitsAreExact)
  <1> SUFFICES ASSUME UniqueIds PROVE Spec => []LimitsAreExact
    OBVIOUS
  <1>1. Partition /\ Limits /\ TypeOK => LimitsAreExact
    BY LimitsKeepAPrefix, LimitsAddUp DEF LimitsAreExact
  <1> QED
    BY <1>1, SlicePartitions, LimitsInvariant, SliceTypes, PTL
=============================================================================
