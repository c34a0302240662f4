----------------------------- MODULE MCSliceCut -----------------------------
(***************************************************************************)
(* Every forest of a few occurrences, with every way of hiding subtrees.   *)
(***************************************************************************)
EXTENDS SliceCut, TLC

CONSTANTS
    Size,       \* occurrences in a document
    MaxNodes,   \* the largest node budget asked for
    MaxDepth    \* the largest depth limit asked for

Occurrences == 1..Size

(* A parent function numbers a forest in document order when the parent of *)
(* an occurrence is the one before it or one of that one's ancestors.      *)
RECURSIVE Ancestors(_, _)
Ancestors(p, o) == IF p[o] = NoParent THEN {} ELSE {p[o]} \cup Ancestors(p, p[o])

Forests ==
    {p \in [Occurrences -> 0..Size] :
        \A o \in Occurrences :
            p[o] = NoParent \/ (p[o] < o /\ p[o] \in {o - 1} \cup Ancestors(p, o - 1))}

RECURSIVE Ascending(_)
Ascending(S) ==
    IF S = {} THEN <<>>
    ELSE LET m == CHOOSE x \in S : \A y \in S : x <= y IN <<m>> \o Ascending(S \ {m})

Document(p, id, visible) ==
    [ nodes    |-> Occurrences,
      id       |-> id,
      parent   |-> p,
      visible  |-> visible,
      above    |-> [o \in Occurrences |-> Ancestors(p, o)],
      children |-> [o \in Occurrences |-> Ascending({c \in Occurrences : p[c] = o})] ]

Hidings(p) ==
    {v \in [Occurrences -> BOOLEAN] :
        \A o \in Occurrences : v[o] => p[o] = NoParent \/ v[p[o]]}

(* Ids that rise along the document, and ids that fall: the roots of a     *)
(* slice are sorted by id, its nodes are not.                              *)
Numberings == {[o \in Occurrences |-> o], [o \in Occurrences |-> Size + 1 - o]}

AllDocs == UNION {{Document(p, id, v) : id \in Numberings, v \in Hidings(p)} : p \in Forests}

(* One or two roots, one of them possibly inside the other; and what is    *)
(* refused: no root, a repeated or an unknown one, a limit out of range.   *)
SomeRequests ==
    [ roots : {<<i>> : i \in Occurrences} \cup {<<1, Size>>, <<3, 2>>},
      maxDepth : {Unlimited} \cup 0..MaxDepth,
      maxNodes : 1..MaxNodes,
      includeHidden : BOOLEAN ]
    \cup
    [ roots : {<<>>, <<1>>, <<1, 1>>, <<Size + 1>>},
      maxDepth : {Unlimited, -1},
      maxNodes : {0, 1},
      includeHidden : {FALSE} ]

(* A snapshot of the node 1 and of the node 2 inside it: the second tree   *)
(* repeats an id of the first.  `acquire --roots` does not refuse it.      *)
NestedDocs ==
    { [ nodes |-> 1..4, id |-> <<1, 2, 3, 2>>, parent |-> <<0, 1, 1, 0>>,
        visible |-> [o \in 1..4 |-> TRUE],
        above |-> <<{}, {1}, {1}, {}>>,
        children |-> << <<2, 3>>, <<>>, <<>>, <<>> >> ] }

NestedRequests ==
    [roots : {<<1>>, <<2>>, <<1, 2>>}, maxDepth : {Unlimited, 0, 1}, maxNodes : 1..4,
     includeHidden : BOOLEAN]

=============================================================================
