------------------------------ MODULE Canonical ------------------------------
(***************************************************************************)
(* fromSnapshot: the nodes that the service gave for the acquired roots    *)
(* become the canonical document, and what cannot be represented becomes a *)
(* rejection.                                                              *)
(*                                                                         *)
(* Raw nodes are numbered in document order.  Two of them carry the same   *)
(* source id only when a node and a node inside it were both acquired.     *)
(* The recursion of `convert` is a list of calls still to make, and a hash *)
(* is the value it is computed from.  Of each kind of raw field one stands *)
(* for the others that are read alike; a field that is absent is None.     *)
(***************************************************************************)
EXTENDS Integers, Sequences, FiniteSets

CONSTANTS
    Inputs, \* records with a field `snapshot`: see IsSnapshot
    None    \* absent, or not of the type that is read

NoParent == 0

(* The raw nodes form a forest, numbered in document order: what stands    *)
(* between a node and one of its children is below that node, too.  Every  *)
(* root has an id and a type.  Ids are numbers for the order they have.    *)
IsSnapshot(s) ==
    /\ s.nodes \subseteq Nat \ {NoParent} /\ IsFiniteSet(s.nodes)
    /\ s.parent \in [s.nodes -> s.nodes \cup {NoParent}]
    /\ \A o \in s.nodes :
         /\ s.parent[o] < o
         /\ \A p \in s.nodes : s.parent[p] < o /\ o < p => s.parent[p] <= s.parent[o]
         /\ s.parent[o] = NoParent => s.type[o] # None
         /\ s.look[o].box \in [{"x", "y", "width", "height"} -> Int \cup {None}] \cup {None}
         /\ s.look[o].overrides \in Seq(Int \cup {None})
    /\ s.id \in [s.nodes -> Int]
    /\ s.visible \in [s.nodes -> BOOLEAN]
    /\ s.geometry \in {"none", "paths"}

ASSUME SnapshotsAssumption == \A i \in Inputs : IsSnapshot(i.snapshot)

VARIABLES
    input,      \* the snapshot, and what the next stages are given
    phase,      \* "convert", or a phase of a later stage
    todo,       \* calls of convert: [at, names, types, path, visible, nth]
    nodes,      \* the canonical nodes made so far, by raw node
    rejections  \* [at, path], in the order they are pushed

canonicalVars == <<input, phase, todo, nodes, rejections>>

Snap == input.snapshot

SupportedTypes ==
    { "COMPONENT", "COMPONENT_SET", "FRAME", "GROUP", "INSTANCE", "RECTANGLE", "TEXT",
      "VECTOR", "LINE", "ELLIPSE", "POLYGON", "STAR", "BOOLEAN_OPERATION" }

-----------------------------------------------------------------------------
(***************************************************************************)
(* The fields of one node.                                                 *)
(***************************************************************************)
(* roundPx: raw lengths are thousandths of a pixel here.                   *)
RoundPx(v) == IF v >= 0 THEN (v + 5) \div 10 ELSE -((5 - v) \div 10)

(* boxOf, strokeWeightsOf: all the lengths or nothing.                     *)
AllOf(record) ==
    IF record = None \/ \E s \in DOMAIN record : record[s] = None THEN None
    ELSE [s \in DOMAIN record |-> RoundPx(record[s])]

(* axisAlignOf, optionalEnumOf and the modes of layoutOf.                  *)
EnumOf(v, members, default) ==
    IF v = None THEN default ELSE IF v \in members THEN v ELSE "unknown"

LayoutOf(look) ==
    [ mode        |-> EnumOf(look.layoutMode, {"NONE", "HORIZONTAL", "VERTICAL", "GRID"}, "NONE"),
      align       |-> EnumOf(look.align, {"MIN", "CENTER", "MAX", "SPACE_BETWEEN"}, "MIN"),
      lines       |-> EnumOf(look.lines, {"AUTO", "SPACE_BETWEEN"}, None),
      sizing      |-> IF look.sizing \in {"FIXED", "HUG", "FILL"} THEN look.sizing ELSE "UNSPECIFIED",
      positioning |-> IF look.positioning \in {"ABSOLUTE", "AUTO"} THEN look.positioning ELSE "unstated" ]

StyleRefOf(style) ==
    IF style = None THEN None
    ELSE IF style \in DOMAIN Snap.catalog
         THEN [kind |-> "token", style |-> style, name |-> Snap.catalog[style]]
         ELSE [kind |-> "unresolved", style |-> style]

(* A paint is [type, color, stops]; `stops` are the colours of a gradient. *)
PaintOf(p) ==
    IF p.type = "SOLID" /\ p.color # None THEN [kind |-> "solid", color |-> p.color]
    ELSE IF p.type = "GRADIENT_LINEAR"
         THEN [kind |-> "gradient", stops |-> SelectSeq(p.stops, LAMBDA c : c # None)]
         ELSE [kind |-> "other", type |-> p.type]

(* A reference wins over the literal, whether or not it can be followed.   *)
StyleSlots(paints, style) ==
    LET painted == SelectSeq(paints, LAMBDA p : p # None)
    IN IF style # None THEN <<StyleRefOf(style)>>
       ELSE [k \in DOMAIN painted |-> PaintOf(painted[k])]

DecorationOf(v, default) == EnumOf(v, {"NONE", "UNDERLINE", "STRIKETHROUGH"}, default)

Run(start, end, id, decoration) ==
    [start |-> start, end |-> end, id |-> id, decoration |-> decoration]

(* Slip: an id that the table does not define is one that says nothing.    *)
UnstatedIfUndefined(id, table) ==
    IF id \in DOMAIN table THEN DecorationOf(table[id], "unstated") ELSE "unstated"

(* What the table of overrides says of an id.                              *)
OverrideDecoration(id, table) ==
    IF id # None /\ id > 0 /\ id \in DOMAIN table THEN DecorationOf(table[id], "unstated")
    ELSE "unknown"

(* overrideRunsOf: the maximal runs of a non-zero id, end exclusive.       *)
OverrideRuns(ids, table) ==
    LET n == Len(ids)
        end(i) == CHOOSE e \in (i + 1)..(n + 1) :
                    /\ e = n + 1 \/ ids[e] # ids[i]
                    /\ \A k \in i..(e - 1) : ids[k] = ids[i]
        from[i \in 1..(n + 1)] ==
            IF i = n + 1 THEN <<>>
            ELSE IF ids[i] = 0 THEN from[end(i)]
            ELSE <<Run(i, end(i), ids[i], OverrideDecoration(ids[i], table))>> \o from[end(i)]
    IN from[1]

TextOf(look) ==
    IF look.characters = None THEN None
    ELSE [ characters |-> look.characters,
           style      |-> StyleRefOf(look.textStyle),
           font       |-> look.font,
           decoration |-> DecorationOf(look.decoration, "NONE"),
           overridden |-> \/ \E k \in DOMAIN look.overrides : look.overrides[k] \notin {None, 0}
                          \/ DOMAIN look.table # {},
           runs       |-> OverrideRuns(look.overrides, look.table) ]

(* vectorGeometryOf, pathsOf: what was asked for decides before what came, *)
(* and one path that cannot be read leaves none known.                     *)
DrawingOf(type, paths) ==
    IF type = "TEXT" THEN [kind |-> "absent"]
    ELSE IF Snap.geometry = "none" THEN [kind |-> "unknown", reason |-> "GEOMETRY_NOT_ACQUIRED"]
    ELSE IF \E k \in DOMAIN paths : paths[k] = None
         THEN [kind |-> "unknown", reason |-> "INCOMPLETE_EXECUTION"]
         ELSE [kind |-> "known", paths |-> paths]

-----------------------------------------------------------------------------
(***************************************************************************)
(* convert                                                                 *)
(***************************************************************************)
(* Raw nodes as a list, in document order.                                 *)
InOrder(S) ==
    [k \in 1..Cardinality(S) |-> CHOOSE o \in S : Cardinality({p \in S : p < o}) = k - 1]

(* A child without an id and a type is dropped before anything is counted. *)
(* The children of NoParent are the roots.                                 *)
RawChildren(o) == InOrder({c \in Snap.nodes : Snap.parent[c] = o /\ Snap.type[c] # None})

(* Slip: every sibling is the first of its name.                           *)
FirstOfItsName(siblings, k) == 0

(* indexAmongSameName: rejected siblings count.                            *)
SameNameBefore(siblings, k) ==
    Cardinality({j \in 1..(k - 1) : Snap.name[siblings[j]] = Snap.name[siblings[k]]})

Calls(siblings, names, types, path, visible) ==
    [k \in DOMAIN siblings |->
        [ at |-> siblings[k], names |-> names, types |-> types, path |-> Append(path, k - 1),
          visible |-> visible, nth |-> SameNameBefore(siblings, k) ]]

StableKey(c) ==
    [ names |-> Append(c.names, Snap.name[c.at]), types |-> Append(c.types, Snap.type[c.at]),
      nth |-> c.nth ]

NodeOf(c) ==
    LET look == Snap.look[c.at] IN
    [ path        |-> c.path,
      key         |-> StableKey(c),
      selfVisible |-> Snap.visible[c.at],
      visible     |-> c.visible /\ Snap.visible[c.at],
      box         |-> AllOf(look.box),
      rotation    |-> look.rotation,
      layout      |-> LayoutOf(look),
      text        |-> TextOf(look),
      fills       |-> StyleSlots(look.paints, look.fillStyle),
      weights     |-> AllOf(look.weights),
      drawing     |-> DrawingOf(Snap.type[c.at], look.paths) ]

Init ==
    /\ input \in Inputs
    /\ phase = "convert"
    /\ todo = Calls(RawChildren(NoParent), <<>>, <<>>, <<>>, TRUE)
    /\ nodes = [o \in {} |-> None]
    /\ rejections = <<>>

ConvertNode ==
    LET c == Head(todo) node == NodeOf(c) IN
    /\ phase = "convert" /\ todo # <<>>
    /\ Snap.type[c.at] \in SupportedTypes
    /\ nodes' = [o \in DOMAIN nodes \cup {c.at} |-> IF o = c.at THEN node ELSE nodes[o]]
    /\ todo' = Calls(RawChildren(c.at), node.key.names, node.key.types, c.path, node.visible)
               \o Tail(todo)
    /\ UNCHANGED <<input, phase, rejections>>

(* Slip: the children are converted although their parent is not.          *)
RejectNodeOnly ==
    LET c == Head(todo) IN
    /\ phase = "convert" /\ todo # <<>>
    /\ Snap.type[c.at] \notin SupportedTypes
    /\ rejections' = Append(rejections, [at |-> c.at, path |-> c.path])
    /\ todo' = Calls(RawChildren(c.at), c.names, c.types, c.path, c.visible) \o Tail(todo)
    /\ UNCHANGED <<input, phase, nodes>>

RejectNode ==
    LET c == Head(todo) IN
    /\ phase = "convert" /\ todo # <<>>
    /\ Snap.type[c.at] \notin SupportedTypes
    /\ rejections' = Append(rejections, [at |-> c.at, path |-> c.path])
    /\ todo' = Tail(todo)
    /\ UNCHANGED <<input, phase, nodes>>

(* ownFields: neither an id, a path nor a key.                             *)
OwnFields(o) ==
    LET n == nodes[o] IN
    [ type |-> Snap.type[o], name |-> Snap.name[o], selfVisible |-> n.selfVisible,
      visible |-> n.visible, box |-> n.box, rotation |-> n.rotation, layout |-> n.layout,
      text |-> n.text, fills |-> n.fills, weights |-> n.weights, drawing |-> n.drawing ]

(* Slip, for Hashed: a child that was rejected leaves no trace.            *)
NodesAmong(siblings) == SelectSeq(siblings, LAMBDA c : c \in DOMAIN nodes)

(* Every child has a hash, a stand-in if it was rejected.                  *)
Hashed(siblings) == siblings

(* subtreeHash, of every raw node that was reached.                        *)
SubtreeHash ==
    LET hash[o \in Snap.nodes] ==
            IF o \in DOMAIN nodes
            THEN [ own      |-> OwnFields(o),
                   children |-> LET cs == Hashed(RawChildren(o)) IN [k \in DOMAIN cs |-> hash[cs[k]]] ]
            ELSE [rejected |-> Snap.id[o], reason |-> "UNSUPPORTED_NODE_TYPE"]
    IN hash
=============================================================================
