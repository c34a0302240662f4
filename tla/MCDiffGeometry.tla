--------------------------- MODULE MCDiffGeometry ---------------------------
(***************************************************************************)
(* A frame with up to three nodes in it, cut in every way, and claims      *)
(* about one node of it.                                                   *)
(***************************************************************************)
EXTENDS DiffGeometry

NoPadding == [top |-> 0, right |-> 0, bottom |-> 0, left |-> 0]
Inner == [x |-> 1000, y |-> 1000, width |-> 4000, height |-> 3000]

Frame ==
    [text |-> FALSE, drawn |-> FALSE, auto |-> TRUE, box |-> Inner, padding |-> NoPadding,
     own |-> {}, lineHeight |-> 0, resizes |-> FALSE]

Picture == [Frame EXCEPT !.drawn = TRUE, !.auto = FALSE]
Label == [Frame EXCEPT !.text = TRUE, !.auto = FALSE]

(* Node 1 is the page; every node has the same box.                        *)
Trees ==
    { [parent |-> <<0, 1, 2, 2>>, above |-> <<{}, {1}, {1, 2}, {1, 2}>>,
       children |-> << <<2>>, <<3, 4>>, <<>>, <<>> >>],
      [parent |-> <<0, 1, 2, 3>>, above |-> <<{}, {1}, {1, 2}, {1, 2, 3}>>,
       children |-> << <<2>>, <<3>>, <<4>>, <<>> >>] }

(* Below the page: a frame or a picture with a fill, and what is in it.    *)
LooksOf(tree) ==
    {<<Frame, second, third, fourth>> :
        second \in {Frame, Picture},
        third \in IF tree.children[3] = <<>> THEN {Label, Picture} ELSE {Frame, Picture},
        fourth \in {Label, Picture}}

MCDocs ==
    UNION {{ [ nodes |-> 1..4, id |-> [o \in 1..4 |-> o], parent |-> t.parent, above |-> t.above,
               children |-> t.children, visible |-> v, look |-> l ] :
               l \in LooksOf(t),
               v \in {u \in [1..4 -> BOOLEAN] :
                       u[1] /\ \A o \in 2..4 : u[o] => u[t.parent[o]]}} :
           t \in Trees}

MCRequests ==
    [roots : {<<1>>}, maxDepth : {Unlimited, 1, 2}, maxNodes : 2..4, includeHidden : BOOLEAN]

Exclusion(n, kind, target) == [id |-> n, kind |-> kind, target |-> target]

Claims ==
    {<<>>}
    \cup {<<Exclusion(n, kind, None)>> : n \in 2..4, kind \in {"asset-internal", "derived-from-children"}}
    \cup {<<Exclusion(p[1], "collapsed-into", p[2])>> : p \in {q \in (2..4) \X (2..4) : q[1] # q[2]}}
    \cup {<<Exclusion(3, "asset-internal", None), Exclusion(4, "asset-internal", None)>>}

RECURSIVE Entries(_)
Entries(S) ==
    IF S = {} THEN <<>>
    ELSE LET n == CHOOSE m \in S : \A k \in S : m <= k
         IN <<[id |-> n, at |-> [Inner EXCEPT !.x = 0, !.y = 0], element |-> n, tag |-> None]>>
            \o Entries(S \ {n})

(* Of every document, the same files: any nodes measured where they are.   *)
FilesOf(d) ==
    UNION {{[version |-> 2, scaled |-> FALSE, root |-> 1, entries |-> Entries(M), exclusions |-> c] :
               M \in {N \in SUBSET d.nodes : \A k \in DOMAIN c : c[k].id \notin N}} :
           c \in Claims}

MCSettings ==
    {[tolerance |-> 25, textTolerance |-> 25, perLine |-> 0, allowScaling |-> FALSE,
      requireCoverage |-> TRUE, requireElements |-> TRUE]}

(* No slice but the one that is cut.                                       *)
NoneFor(s) == {}
=============================================================================
