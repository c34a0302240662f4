------------------------------ MODULE MCHandOff ------------------------------
(***************************************************************************)
(* One file of two nodes, saved once; captures of one node or of both; a   *)
(* capture by another program of another file, for what an edit brings in. *)
(***************************************************************************)
EXTENDS HandOff

(* Node 1 changes when the file is saved, node 2 and the styles do not.    *)
Content(v) == <<IF v = 0 THEN "card" ELSE "row", "text">>

Snapshot(file, schema, v, roots, geometry, at) ==
    [ schema |-> schema, fileKey |-> file, roots |-> roots, geometry |-> geometry,
      start |-> v, end |-> v, adapter |-> schema, acquiredAt |-> at,
      nodes |-> [r \in roots |-> Content(v)[r]],
      styles |-> IF file = "this" THEN "brand" ELSE "other" ]

MCSnapshots ==
    {Snapshot("this", 1, v, {1, 2}, "none", at) : v \in 0..1, at \in 1..2}
    \cup {Snapshot("this", 1, 1, {1}, "none", 1), Snapshot("that", 0, 0, {1, 2}, "paths", 1)}

MCOwes == [card |-> {"container"}, row |-> {"container", "wrap"}, text |-> {"width"}]

MCRequests ==
    {[roots |-> <<1, 2>>, maxNodes |-> None], [roots |-> <<2, 1>>, maxNodes |-> DefaultBudget],
     [roots |-> <<1, 2>>, maxNodes |-> 1]}

Entry(fact, status, reason) == [fact |-> fact, status |-> status, reason |-> reason]
Read(fact) == Entry(fact, "consumed", FALSE)

Container == <<1, "container">>
Wrap == <<1, "wrap">>
Width == <<2, "width">>

MCAnswers ==
    { <<Read(Container)>>,
      <<Read(Container), Read(Width)>>,
      <<Read(Wrap), Entry(Width, "not-applicable", TRUE), Read(Container)>>,
      <<Read(Container), Entry(Width, "not-applicable", FALSE)>>,
      <<Read(Container), Entry(Width, "exception", TRUE)>> }
=============================================================================
