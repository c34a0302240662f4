-------------------------------- MODULE Facts --------------------------------
(***************************************************************************)
(* deriveFacts: what a rule may ask of a document.  For every node where   *)
(* it stands among its siblings and how far its children reach beyond it;  *)
(* and the artboards that are one view at several widths, with the         *)
(* elements that are the same one in all of them.                          *)
(*                                                                         *)
(* What the pattern of artboard names captures in a name is part of the    *)
(* configuration here.  A diagnostic is [reason, about, roots].            *)
(***************************************************************************)
EXTENDS Canonical, FiniteSetsExt

(* A configuration that decodeFactConfig lets through: no two breakpoints  *)
(* of one width, no declaration of an unknown breakpoint.                  *)
IsConfig(c) ==
    c.responsive # None =>
        LET r == c.responsive IN
        /\ DOMAIN r.widths # {}
        /\ \A b, d \in DOMAIN r.widths : r.widths[b] = r.widths[d] => b = d
        /\ \A i \in DOMAIN r.explicit : r.explicit[i].breakpoint \in DOMAIN r.widths
        /\ \A n \in DOMAIN r.names :
             /\ r.names[n].width # None \/ r.names[n].breakpoint # None
             /\ r.names[n].breakpoint \in DOMAIN r.widths \cup {None}

ASSUME ConfigsAssumption == \A i \in Inputs : IsConfig(i.config)

VARIABLES
    facts,       \* the facts of every node, by source id
    waiting,     \* the roots that are not yet grouped
    members,     \* the artboards that are: [section, breakpoint, root]
    groups,      \* [section, members, slots, unresolved]
    diagnostics

factsVars == <<facts, waiting, members, groups, diagnostics>>

Responsive == input.config.responsive

-----------------------------------------------------------------------------
(***************************************************************************)
(* walk                                                                    *)
(***************************************************************************)
(* Slip: siblings at one place are equal.                                  *)
ReadsBeforeByPlace(a, b) ==
    LET p == nodes[a].box q == nodes[b].box IN
    \/ q = None /\ (p = None => Snap.id[a] < Snap.id[b])
    \/ /\ p # None /\ q # None
       /\ p.y < q.y \/ (p.y = q.y /\ p.x < q.x)

(* byReadingOrder                                                          *)
ReadsBefore(a, b) ==
    LET p == nodes[a].box q == nodes[b].box IN
    \/ q = None /\ (p = None => Snap.id[a] < Snap.id[b])
    \/ /\ p # None /\ q # None
       /\ \/ p.y < q.y
          \/ p.y = q.y /\ p.x < q.x
          \/ p.y = q.y /\ p.x = q.x /\ Snap.id[a] < Snap.id[b]

RenderedBelow(o) == {c \in DOMAIN nodes : Snap.parent[c] = o /\ nodes[c].visible}

Overlap(p, q) ==
    /\ p.y < q.y + q.height /\ q.y < p.y + p.height
    /\ p.x < q.x + q.width /\ q.x < p.x + p.width

OrderIsMeaningful(siblings) ==
    /\ \A c \in siblings : nodes[c].rotation \in {None, 0}
    /\ \A a, b \in siblings :
         a # b /\ nodes[a].box # None /\ nodes[b].box # None
            => ~Overlap(nodes[a].box, nodes[b].box)

Unmeasured == [known |-> FALSE, reason |-> "GEOMETRY_MISSING"]

(* Slip: what cannot be measured does not count.                           *)
MeasuredInFlow(o) ==
    {c \in RenderedBelow(o) : nodes[c].layout.positioning # "ABSOLUTE" /\ nodes[c].box # None}

InFlow(o) == {c \in RenderedBelow(o) : nodes[c].layout.positioning # "ABSOLUTE"}

(* How far c reaches beyond its parent, on each side.                      *)
Reach(c) ==
    LET b == nodes[c].box box == nodes[Snap.parent[c]].box
    IN [ left |-> box.x - b.x, right  |-> (b.x + b.width) - (box.x + box.width),
         top  |-> box.y - b.y, bottom |-> (b.y + b.height) - (box.y + box.height) ]

Sides == {"left", "right", "top", "bottom"}

(* childOverflowOf: over all of the children or not at all.                *)
ChildOverflow(o) ==
    LET flow == InFlow(o) IN
    IF nodes[o].box = None \/ \E c \in flow : nodes[c].box = None THEN Unmeasured
    ELSE [ known |-> TRUE,
           sides |-> [s \in Sides |-> Max({0} \cup {Reach(c)[s] : c \in flow})],
           ids   |-> {Snap.id[c] : c \in {d \in flow : \E s \in Sides : Reach(d)[s] > 0}} ]

IsRoot(o) == Snap.parent[o] = NoParent

NodeFact(o) ==
    LET p == Snap.parent[o] siblings == IF IsRoot(o) THEN {} ELSE RenderedBelow(p) IN
    [ at       |-> o,
      parent   |-> IF IsRoot(o) THEN None ELSE Snap.id[p],
      rendered |-> nodes[o].visible,
      order    |-> IF IsRoot(o) THEN 0
                   ELSE IF nodes[o].visible THEN Cardinality({b \in siblings : ReadsBefore(b, o)})
                   ELSE -1,
      reliable |-> OrderIsMeaningful(siblings),
      overflow |-> ChildOverflow(o),
      namePath |-> Tail(nodes[o].key.names) ]

(* The facts of an id are those of its last occurrence.                    *)
Walk ==
    [ i \in {Snap.id[o] : o \in DOMAIN nodes} |->
        NodeFact(CHOOSE o \in DOMAIN nodes :
                    Snap.id[o] = i /\ \A q \in DOMAIN nodes : Snap.id[q] = i => q <= o) ]

(* deriveTextStyles: the texts of a style, and the fonts they declare.     *)
Texts(style) ==
    {i \in DOMAIN facts :
        LET text == nodes[facts[i].at].text IN
        text # None /\ text.style # None /\ text.style.kind = "token" /\ text.style.style = style}

TextStyles == {s \in DOMAIN Snap.catalog : Texts(s) # {}}

Fonts(style) == {nodes[facts[i].at].text.font : i \in Texts(style)}

-----------------------------------------------------------------------------
(***************************************************************************)
(* deriveResponsiveGroups                                                  *)
(***************************************************************************)
(* Slip: the roots that were acquired, not those of the document.          *)
AcquiredRoots == RawChildren(NoParent)

DocumentRoots == InOrder({o \in DOMAIN nodes : IsRoot(o)})

Declared(o) == Snap.id[o] \in DOMAIN Responsive.explicit
Named(o) == Snap.name[o] \in DOMAIN Responsive.names

(* resolveArtboardName                                                     *)
SlotsOfWidth(width) == {b \in DOMAIN Responsive.widths : Responsive.widths[b] = width}

Contradicts(n) ==
    /\ n.width # None
    /\ \/ SlotsOfWidth(n.width) = {}
       \/ n.breakpoint # None /\ n.breakpoint \notin SlotsOfWidth(n.width)

SlotOf(n) == IF n.breakpoint # None THEN n.breakpoint ELSE CHOOSE b \in SlotsOfWidth(n.width) : TRUE

Member(section, breakpoint, o) == [section |-> section, breakpoint |-> breakpoint, root |-> o]

Diagnostic(reason, about, roots) == [reason |-> reason, about |-> about, roots |-> roots]

Under(r) == {o \in DOMAIN nodes : o # r /\ nodes[o].path[1] = nodes[r].path[1]}

(* Slip: of a name that occurs more than once the first is taken.          *)
FirstNamed(path, r) ==
    LET all == {o \in Under(r) : Tail(nodes[o].key.names) = path}
    IN IF all = {} THEN {} ELSE {Min(all)}

(* pathsWithin: the nodes below an artboard that have this name path.      *)
NamedBy(path, r) == {o \in Under(r) : Tail(nodes[o].key.names) = path}

PathsOf(entries) == UNION {{Tail(nodes[o].key.names) : o \in Under(e.root)} : e \in entries}

AmbiguousIn(path, entries) == {e \in entries : Cardinality(NamedBy(path, e.root)) > 1}
MissingIn(path, entries) == {e \in entries : NamedBy(path, e.root) = {}}

(* Of two artboards that claim one breakpoint the later one is observed.   *)
Observed(entries, b) == Max({e.root : e \in {d \in entries : d.breakpoint = b}})

SlotAt(path, entries) ==
    [ path |-> path,
      by   |-> [b \in {e.breakpoint : e \in entries} |->
                  CHOOSE o \in NamedBy(path, Observed(entries, b)) : TRUE] ]

Slots(entries) ==
    { SlotAt(p, entries) :
      p \in {q \in PathsOf(entries) : AmbiguousIn(q, entries) = {} /\ MissingIn(q, entries) = {}} }

(* Two claims of a breakpoint, one right after the other.                  *)
Rivals(entries) ==
    { Diagnostic("AMBIGUOUS_NODE_MATCH", <<"breakpoint", t[1].breakpoint>>, {t[1].root, t[2].root}) :
      t \in {u \in entries \X entries :
               /\ u[1].breakpoint = u[2].breakpoint /\ u[1].root < u[2].root
               /\ ~\E f \in entries : /\ f.breakpoint = u[1].breakpoint
                                      /\ u[1].root < f.root /\ f.root < u[2].root} }

(* Slip: a path that some artboard does not have is passed over.           *)
AmbiguousOnly(entries) ==
    { Diagnostic("AMBIGUOUS_NODE_MATCH", <<"path", p>>, {e.root : e \in AmbiguousIn(p, entries)}) :
      p \in {q \in PathsOf(entries) : AmbiguousIn(q, entries) # {}} }

(* What a slot cannot be made of: ambiguity is looked for first.           *)
Unresolved(entries) ==
    { IF AmbiguousIn(p, entries) # {}
      THEN Diagnostic("AMBIGUOUS_NODE_MATCH", <<"path", p>>, {e.root : e \in AmbiguousIn(p, entries)})
      ELSE Diagnostic("UNKNOWN_GROUPING", <<"path", p>>, {e.root : e \in MissingIn(p, entries)}) :
      p \in {q \in PathsOf(entries) : AmbiguousIn(q, entries) # {} \/ MissingIn(q, entries) # {}} }

-----------------------------------------------------------------------------
FactsInit ==
    /\ Init
    /\ facts = None
    /\ waiting = <<>>
    /\ members = {}
    /\ groups = {}
    /\ diagnostics = {}

Convert ==
    /\ ConvertNode \/ RejectNode
    /\ UNCHANGED factsVars

DeriveNodes ==
    /\ phase = "convert" /\ todo = <<>>
    /\ facts' = Walk
    /\ waiting' = IF Responsive = None THEN <<>> ELSE DocumentRoots
    /\ phase' = IF Responsive = None THEN "derived" ELSE "grouping"
    /\ UNCHANGED <<input, todo, nodes, rejections, members, groups, diagnostics>>

(* A declaration wins over the name.                                       *)
GroupDeclared ==
    LET o == Head(waiting) d == Responsive.explicit[Snap.id[o]] IN
    /\ phase = "grouping" /\ waiting # <<>>
    /\ Declared(o)
    /\ members' = members \cup {Member(d.section, d.breakpoint, o)}
    /\ waiting' = Tail(waiting)
    /\ UNCHANGED <<canonicalVars, facts, groups, diagnostics>>

GroupByName ==
    LET o == Head(waiting) n == Responsive.names[Snap.name[o]] IN
    /\ phase = "grouping" /\ waiting # <<>>
    /\ ~Declared(o) /\ Named(o)
    /\ ~Contradicts(n)
    /\ members' = members \cup {Member(n.section, SlotOf(n), o)}
    /\ waiting' = Tail(waiting)
    /\ UNCHANGED <<canonicalVars, facts, groups, diagnostics>>

RefuseName ==
    LET o == Head(waiting) IN
    /\ phase = "grouping" /\ waiting # <<>>
    /\ ~Declared(o) /\ Named(o)
    /\ Contradicts(Responsive.names[Snap.name[o]])
    /\ diagnostics' = diagnostics \cup {Diagnostic("UNKNOWN_GROUPING", <<"name", Snap.name[o]>>, {o})}
    /\ waiting' = Tail(waiting)
    /\ UNCHANGED <<canonicalVars, facts, members, groups>>

PassOver ==
    /\ phase = "grouping" /\ waiting # <<>>
    /\ ~Declared(Head(waiting)) /\ ~Named(Head(waiting))
    /\ waiting' = Tail(waiting)
    /\ UNCHANGED <<canonicalVars, facts, members, groups, diagnostics>>

(* Slip: the declarations are not looked at again.                         *)
ForgetUnseen ==
    /\ phase = "grouping" /\ waiting = <<>>
    /\ phase' = "grouped"
    /\ UNCHANGED <<input, todo, nodes, rejections, facts, waiting, members, groups, diagnostics>>

(* A declaration that names no root of the document is reported.           *)
ReportUnseen ==
    /\ phase = "grouping" /\ waiting = <<>>
    /\ diagnostics' = diagnostics \cup
         { Diagnostic("CONFIG_ERROR", <<"declaration", i>>, {}) :
           i \in DOMAIN Responsive.explicit \ {Snap.id[DocumentRoots[k]] : k \in DOMAIN DocumentRoots} }
    /\ phase' = "grouped"
    /\ UNCHANGED <<input, todo, nodes, rejections, facts, waiting, members, groups>>

DeriveGroup ==
    /\ phase = "grouped"
    /\ \E s \in {e.section : e \in members} \ {g.section : g \in groups} :
         LET entries == {e \in members : e.section = s} IN
         /\ groups' = groups \cup {[ section |-> s, members |-> entries, slots |-> Slots(entries),
                                     unresolved |-> Cardinality(Unresolved(entries)) ]}
         /\ diagnostics' = diagnostics \cup Rivals(entries) \cup Unresolved(entries)
    /\ UNCHANGED <<canonicalVars, facts, waiting, members>>

FinishGroups ==
    /\ phase = "grouped"
    /\ {e.section : e \in members} = {g.section : g \in groups}
    /\ phase' = "derived"
    /\ UNCHANGED <<input, todo, nodes, rejections, factsVars>>

DeriveFacts ==
    \/ Convert \/ DeriveNodes
    \/ GroupDeclared \/ GroupByName \/ RefuseName \/ PassOver \/ ReportUnseen
    \/ DeriveGroup \/ FinishGroups

-----------------------------------------------------------------------------
(***************************************************************************)
(* Properties                                                              *)
(***************************************************************************)
(* The phases pass in order and every part has the shape that the next one *)
(* relies on: no facts before the document is whole, no group before every *)
(* artboard was looked at.                                                 *)
FactsTypeOK ==
    /\ phase \in {"convert", "grouping", "grouped", "derived", "loaded", "reported", "refused"}
    /\ DOMAIN nodes \subseteq Snap.nodes
    /\ \A k \in DOMAIN rejections : rejections[k].at \in Snap.nodes \ DOMAIN nodes
    /\ phase # "convert" => todo = <<>> /\ DOMAIN facts = {Snap.id[o] : o \in DOMAIN nodes}
    /\ phase \notin {"convert", "grouping"} => waiting = <<>>
    /\ \A e \in members : IsRoot(e.root) /\ e.root \in DOMAIN nodes
    /\ \A g \in groups : phase # "grouping" /\ g.members = {e \in members : e.section = g.section}

Converted == phase = "convert" => todo = <<>>

(* The nodes that are o or have it below them.                             *)
Chain ==
    LET up[o \in Snap.nodes] ==
            IF Snap.parent[o] = NoParent THEN {o} ELSE up[Snap.parent[o]] \cup {o}
    IN up

(* The names from below the root of o down to it.                          *)
NamePath ==
    LET path[o \in Snap.nodes] ==
            IF Snap.parent[o] = NoParent THEN <<>> ELSE Append(path[Snap.parent[o]], Snap.name[o])
    IN path

(* A raw child without an id or without a type, and what is below one.     *)
(* convert drops it before it looks at it, without a rejection             *)
(* (adapter.ts), although document.ts says that what is not a supported    *)
(* node "becomes a rejection rather than a silently dropped branch".       *)
Dropped == {o \in Snap.nodes : \E a \in Chain[o] : Snap.type[a] = None}

(* All other raw nodes are accounted for: each is a node, is rejected, or  *)
(* is below a rejected one, and nothing else is either.  What is there has *)
(* a path of its own, and rejections come in document order.  Of what is   *)
(* dropped this says that it leaves no trace at all.                       *)
EveryNodeAccountedFor ==
    LET rejected == {rejections[k].at : k \in DOMAIN rejections}
        under == {o \in Snap.nodes : Chain[o] \cap rejected # {}}
        paths == {nodes[o].path : o \in DOMAIN nodes} \cup {rejections[k].path : k \in DOMAIN rejections}
    IN Converted =>
         /\ DOMAIN nodes = Snap.nodes \ (under \cup Dropped)
         /\ rejected \cap Dropped = {}
         /\ Cardinality(paths) = Cardinality(DOMAIN nodes) + Len(rejections)
         /\ \A j, k \in DOMAIN rejections : j < k => rejections[j].at < rejections[k].at

(* fromSnapshot and convert count the siblings of one name, roots as well: *)
(* two of them "would otherwise share a fingerprint" (adapter.ts).         *)
SiblingsHaveTheirOwnKeys ==
    \A o, p \in DOMAIN nodes :
        o # p /\ Snap.parent[o] = Snap.parent[p] => nodes[o].key # nodes[p].key

(* Both together: of the raw nodes that have an id and a type all the way  *)
(* up fromSnapshot loses none without a trace, and no two nodes are taken  *)
(* for one.                                                                *)
ConversionIsWhole == EveryNodeAccountedFor /\ SiblingsHaveTheirOwnKeys

(* "Maximal runs of a non-zero override id, in array order": a character   *)
(* is in a run exactly if it is overridden, in one run, and with its id;   *)
(* neighbours in one run belong together; and no override that the table   *)
(* does not define is given a decoration.                                  *)
RunsAreTheOverrides ==
    \A o \in DOMAIN nodes :
        nodes[o].text # None =>
            LET ids == Snap.look[o].overrides
                runs == nodes[o].text.runs
                holding(i) == {k \in DOMAIN runs : runs[k].start <= i /\ i < runs[k].end}
            IN /\ \A i \in DOMAIN ids :
                    /\ Cardinality(holding(i)) = IF ids[i] = 0 THEN 0 ELSE 1
                    /\ \A k \in holding(i) : runs[k].id = ids[i]
                    /\ i > 1 /\ ids[i] # 0 => (ids[i] = ids[i - 1] <=> holding(i) = holding(i - 1))
               /\ \A j, k \in DOMAIN runs : j < k => runs[j].end <= runs[k].start
               /\ \A k \in DOMAIN runs :
                    runs[k].id \notin DOMAIN Snap.look[o].table => runs[k].decoration = "unknown"

(* byReadingOrder "keeps the order total": the rendered children of a node *)
(* are numbered from zero without a gap, whatever the order of the layers, *)
(* and what lies wholly above another one comes before it.                 *)
ReadingOrderIsTotal ==
    facts # None =>
        \A i \in DOMAIN facts :
            LET cs == {c \in RenderedBelow(facts[i].at) : facts[Snap.id[c]].at = c}
                order(c) == facts[Snap.id[c]].order
            IN cs = RenderedBelow(facts[i].at) =>
                 /\ {order(c) : c \in cs} = 0..(Cardinality(cs) - 1)
                 /\ \A c, d \in cs :
                      /\ nodes[c].box # None /\ nodes[d].box # None
                      /\ nodes[c].box.height > 0
                      /\ nodes[c].box.y + nodes[c].box.height <= nodes[d].box.y
                      => order(c) < order(d)

(* "A spill measured over half the children is not a smaller spill": if it *)
(* is known, the box grown by the overflow holds every child in the flow,  *)
(* grown by any less on a side it does not, and the children named are     *)
(* those that the box itself does not hold.                                *)
OverflowIsTight ==
    facts # None =>
        \A i \in DOMAIN facts :
            LET o == facts[i].at
                out == facts[i].overflow
                flow == {c \in DOMAIN nodes : /\ Snap.parent[c] = o /\ nodes[c].visible
                                              /\ nodes[c].layout.positioning # "ABSOLUTE"}
                holds(grow, c) ==
                    LET a == nodes[o].box b == nodes[c].box IN
                    /\ b # None
                    /\ a.x - grow["left"] <= b.x /\ b.x + b.width <= a.x + a.width + grow["right"]
                    /\ a.y - grow["top"] <= b.y /\ b.y + b.height <= a.y + a.height + grow["bottom"]
            IN out.known =>
                 /\ \A c \in flow : holds(out.sides, c)
                 /\ \A s \in Sides : out.sides[s] > 0 =>
                      \E c \in flow : ~holds([out.sides EXCEPT ![s] = @ - 1], c)
                 /\ out.ids = {Snap.id[c] : c \in {d \in flow : ~holds([s \in Sides |-> 0], d)}}

(* Both together: what deriveNodeFacts says of a node with its children    *)
(* holds of the boxes, as the raw nodes have them.                         *)
NodeFactsHold == ReadingOrderIsTotal /\ OverflowIsTight

(* types.ts: "A slot appears only when its name path resolves to exactly   *)
(* one node in every member."  The path is read off the raw names here.    *)
(* What is observed for a breakpoint is that node of an artboard claiming  *)
(* it; and no artboard goes unobserved without a diagnostic that names it. *)
SlotsAreCertain ==
    LET at(path, r) == {o \in DOMAIN nodes \ {r} : r \in Chain[o] /\ NamePath[o] = path}
    IN \A g \in groups : \A s \in g.slots :
         /\ \A e \in g.members : Cardinality(at(s.path, e.root)) = 1
         /\ \A b \in DOMAIN s.by :
              \E e \in g.members : e.breakpoint = b /\ at(s.path, e.root) = {s.by[b]}
         /\ \A e \in g.members :
              \/ at(s.path, e.root) = {s.by[e.breakpoint]}
              \/ \E d \in diagnostics : /\ d.reason = "AMBIGUOUS_NODE_MATCH"
                                        /\ d.about = <<"breakpoint", e.breakpoint>> /\ e.root \in d.roots

(* The coverage of a group: every name path below one of its artboards is  *)
(* a slot or has a diagnostic naming an artboard where it is ambiguous or  *)
(* missing, and the two counts add up to the paths there are.              *)
EveryPathAnswered ==
    \A g \in groups :
        LET roots == {e.root : e \in g.members}
            below == {o \in DOMAIN nodes \ roots : Chain[o] \cap roots # {}}
        IN /\ Cardinality(g.slots) + g.unresolved = Cardinality({NamePath[o] : o \in below})
           /\ \A o \in below :
                \/ \E s \in g.slots : s.path = NamePath[o]
                \/ \E d \in diagnostics : d.about = <<"path", NamePath[o]>> /\ d.roots # {} /\ d.roots \subseteq roots

(* Both together: what a group says of its artboards is certain, and what  *)
(* is not certain is said to be so.                                        *)
GroupsAreAnswered == SlotsAreCertain /\ EveryPathAnswered

(* Every artboard of the document is in one group, is reported, or is none *)
(* by its name; and a declaration was followed or is reported: "a          *)
(* configuration that does nothing must say so" (derive.ts).               *)
EveryArtboardAnswered ==
    phase \in {"grouped", "derived"} /\ Responsive # None =>
        /\ \A k \in DOMAIN DocumentRoots :
             LET o == DocumentRoots[k]
                 own == {e \in members : e.root = o}
                 told == {d \in diagnostics : d.reason = "UNKNOWN_GROUPING" /\ d.about = <<"name", Snap.name[o]>> /\ o \in d.roots}
             IN /\ Cardinality(own) + Cardinality(told) <= 1
                /\ own = {} /\ told = {} => ~Declared(o) /\ ~Named(o)
        /\ \A i \in DOMAIN Responsive.explicit :
             \/ \E e \in members : /\ Snap.id[e.root] = i
                                   /\ e.section = Responsive.explicit[i].section
                                   /\ e.breakpoint = Responsive.explicit[i].breakpoint
             \/ \E d \in diagnostics : d.reason = "CONFIG_ERROR" /\ d.about = <<"declaration", i>>
=============================================================================
