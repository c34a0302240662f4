----------------------------- MODULE Projection -----------------------------
(***************************************************************************)
(* projectWeb: a slice is cut from the document (SliceCut), and for every  *)
(* node of it the declared layout is turned into claims for the web, each  *)
(* one compared with where the children are.                               *)
(*                                                                         *)
(* Lengths are hundredths of a pixel, the grid of roundPx.  An axis is "h" *)
(* or "v".  A document of this module also has a layout and a box for      *)
(* every node, and its source ids are its node numbers.                    *)
(***************************************************************************)
EXTENDS SliceCut

LOCAL INSTANCE FiniteSetsExt

CONSTANT None   \* no box, no declared gap, no wrap rule

Axes == {"h", "v"}
Across(axis) == IF axis = "h" THEN "v" ELSE "h"

(* A layout as the adapter leaves it: closed sets, "unknown" for the rest. *)
IsLayout(l) ==
    /\ l.mode \in {"NONE", "HORIZONTAL", "VERTICAL", "GRID", "unknown"}
    /\ l.wrap \in {"NO_WRAP", "WRAP", "unknown"}
    /\ l.main \in {"MIN", "CENTER", "MAX", "SPACE_BETWEEN", "unknown"}
    /\ l.cross \in {"MIN", "CENTER", "MAX", "BASELINE", "unknown"}
    /\ l.lines \in {None, "AUTO", "SPACE_BETWEEN", "unknown"}
    /\ l.gap \in Int \cup {None} /\ l.lineGap \in Int \cup {None}
    /\ l.before \in [Axes -> Int] /\ l.after \in [Axes -> Int]
    /\ l.sizing \in [Axes -> {"FIXED", "HUG", "FILL", "UNSPECIFIED"}]
    /\ l.absolute \in BOOLEAN /\ l.turned \in BOOLEAN

ASSUME LayoutsAssumption ==
    \A d \in Docs : \A o \in d.nodes :
        /\ d.id[o] = o
        /\ IsLayout(d.layout[o])
        /\ d.box[o] # None => d.box[o].pos \in [Axes -> Int] /\ d.box[o].size \in [Axes -> Nat]

(* projectWeb never asks for hidden nodes.                                 *)
ASSUME RenderedOnly == \A r \in Requests : ~r.includeHidden

VARIABLES
    projected,      \* the plans, one per node of the slice, in its order
    contradictions, \* what did not sit where its declaration predicts: [at, check]
    owed            \* the obligations, in the order they are raised: [at, claim]

projectionVars == <<projected, contradictions, owed>>

-----------------------------------------------------------------------------
(* The elements of S in this order: the k-th has k - 1 others before it.   *)
InOrder(S, before(_, _)) ==
    [k \in 1..Cardinality(S) |->
        CHOOSE x \in S : Cardinality({y \in S : before(y, x)}) = k - 1]

(* The elements of a list that pass, in the order of the list.             *)
Filtered(s, passes(_)) ==
    LET kept == InOrder({k \in DOMAIN s : passes(s[k])}, <)
    IN [k \in DOMAIN kept |-> s[kept[k]]]

Near(a, b) == a - b \in -2..2

(* roundPx of n/d: half away from zero.                                    *)
Rounded(n, d) == IF n >= 0 THEN (2 * n + d) \div (2 * d) ELSE -((d - 2 * n) \div (2 * d))

Known(v) == [known |-> TRUE, value |-> v]
Unknown(why) == [known |-> FALSE, reason |-> why]
Demote(claim, why) == IF claim.known THEN Unknown(why) ELSE claim

Declared(v, default) == IF v = None THEN default ELSE v

Distribution ==
    [MIN |-> "start", CENTER |-> "center", MAX |-> "end", SPACE_BETWEEN |-> "space-between"]

MainAxis(l) == IF l.mode = "HORIZONTAL" THEN "h" ELSE "v"

(* Under space-between the declared item spacing is inert.                 *)
PackingGap(l) == IF l.main = "SPACE_BETWEEN" THEN 0 ELSE Declared(l.gap, 0)

LineGap(l) == Declared(l.lineGap, Declared(l.gap, 0))

ContainerOf(l) ==
    IF l.mode = "NONE" THEN [kind |-> "non-flex"]
    ELSE IF l.mode \in {"GRID", "unknown"} \/ l.wrap = "unknown" THEN [kind |-> "unknown"]
    ELSE [ kind      |-> "flex",
           axis      |-> MainAxis(l),
           wrap      |-> l.wrap = "WRAP",
           mainAlign |-> IF l.main = "unknown" THEN Unknown("UNSUPPORTED")
                         ELSE Known(Distribution[l.main]),
           crossAlign |-> IF l.cross \in {"BASELINE", "unknown"} THEN Unknown("UNSUPPORTED")
                          ELSE Known(Distribution[l.cross]),
           mainGap   |-> Known(PackingGap(l)),
           crossGap  |-> IF l.lines \in {"SPACE_BETWEEN", "unknown"} THEN Unknown("UNSUPPORTED")
                         ELSE Known(LineGap(l)) ]

-----------------------------------------------------------------------------
(* Where things are: relative to the content box of o, along an axis.      *)
Size(c, axis) == doc.box[c].size[axis]
Offset(c, o, axis) == doc.box[c].pos[axis] - doc.box[o].pos[axis] - doc.layout[o].before[axis]
Inner(o, axis) == Size(o, axis) - doc.layout[o].before[axis] - doc.layout[o].after[axis]

Measurable(c) == doc.box[c] # None /\ ~doc.layout[c].turned

(* byReadingOrder: top to bottom, then left to right.                      *)
ReadsBefore(a, b) ==
    LET p == doc.box[a] q == doc.box[b] IN
    \/ q = None /\ (p = None => a < b)
    \/ /\ p # None /\ q # None
       /\ \/ p.pos["v"] < q.pos["v"]
          \/ p.pos["v"] = q.pos["v"] /\ p.pos["h"] < q.pos["h"]
          \/ p.pos = q.pos /\ a < b

Reading(flow) == InOrder(Elements(flow), ReadsBefore)

(* lineOffsets: where a distribution puts the items of one line.           *)
LineOffsets(distribution, sizes, gap, inner) ==
    LET n == Len(sizes)
        before[k \in 1..(n + 1)] == IF k = 1 THEN 0 ELSE before[k - 1] + sizes[k - 1]
        total == before[n + 1]
        line == total + (n - 1) * gap
        at(k) == before[k] + (k - 1) * gap
    IN [k \in 1..n |->
          CASE distribution = "space-between" /\ n > 1 ->
                 Rounded(before[k] * (n - 1) + (k - 1) * (inner - total), n - 1)
            [] distribution = "center" -> Rounded(2 * at(k) + inner - line, 2)
            [] distribution = "end"    -> at(k) + inner - line
            [] OTHER                   -> at(k)]

Fits(line, o, axis, distribution, gap) ==
    LET sizes == [k \in DOMAIN line |-> Size(line[k], axis)]
        predicted == LineOffsets(distribution, sizes, gap, Inner(o, axis))
    IN \A k \in DOMAIN line : Near(predicted[k], Offset(line[k], o, axis))

-----------------------------------------------------------------------------
(***************************************************************************)
(* wrapOf: a row that wraps, with children of one fixed size.              *)
(***************************************************************************)
WrapEligible(o, plan, flow) ==
    LET l == doc.layout[o] IN
    /\ plan.axis = "h"
    /\ doc.box[o] # None
    /\ flow # <<>>
    /\ l.sizing["h"] # "HUG" /\ l.cross = "MIN" /\ l.lines \in {None, "AUTO"}
    /\ plan.mainAlign.known
    /\ \A k \in DOMAIN flow :
         Measurable(flow[k]) /\ \A a \in Axes : doc.layout[flow[k]].sizing[a] = "FIXED"
    /\ \A k \in DOMAIN flow : \A a \in Axes : Near(Size(flow[k], a), Size(flow[1], a))
    /\ Size(flow[1], "h") > 0 /\ PackingGap(l) >= 0 /\ LineGap(l) >= 0

(* observeLines: a child joins the first line that is near it.             *)
AddToRows(rows, c, o) ==
    LET y == Offset(c, o, "v")
        near == {i \in DOMAIN rows : Near(rows[i].y, y)}
    IN IF near = {} THEN Append(rows, [y |-> y, items |-> <<c>>])
       ELSE [rows EXCEPT ![Min(near)].items = Append(@, c)]

ObservedRows(o, ordered) ==
    LET rows[k \in 0..Len(ordered)] ==
          IF k = 0 THEN <<>> ELSE AddToRows(rows[k - 1], ordered[k], o)
    IN rows[Len(ordered)]

Capacity(o, track, gap) == Max({1, (Inner(o, "h") + gap) \div (track + gap)})

(* Slip: the last row is forgotten when it is not full.                    *)
FullRowsOnly(ordered, capacity) ==
    [i \in 1..(Len(ordered) \div capacity) |->
        SubSeq(ordered, (i - 1) * capacity + 1, i * capacity)]

PredictedRows(ordered, capacity) ==
    [i \in 1..((Len(ordered) + capacity - 1) \div capacity) |->
        SubSeq(ordered, (i - 1) * capacity + 1, Min({i * capacity, Len(ordered)}))]

(* Whether a distribution puts the items of a row where they are, all of   *)
(* them taken for equally wide.                                            *)
Sits(row, o, width, distribution, gap) ==
    LET predicted == LineOffsets(distribution, [k \in DOMAIN row |-> width], gap, Inner(o, "h"))
    IN \A k \in DOMAIN row : Near(predicted[k], Offset(row[k], o, "h"))

Survivors(row, o, width, gap) ==
    {d \in {"start", "center", "end", "space-between"} : Sits(row, o, width, d, gap)}

(* A last row that is not full says how such a row is spread only if one   *)
(* distribution alone explains it.                                         *)
PartialRow(open, full, survivors) ==
    IF full # "space-between" THEN Known(full)
    ELSE IF open /\ Cardinality(survivors) = 1 THEN Known(CHOOSE d \in survivors : TRUE)
    ELSE Unknown("PARTIAL_LINE_UNOBSERVED")

Inline(lines, o, width, full, gap, open, survivors) ==
    \A i \in DOMAIN lines :
        IF open /\ i = Len(lines) THEN survivors # {} ELSE Sits(lines[i], o, width, full, gap)

(* Each part of the rule is known only if what it predicts was observed.   *)
Rule(o, child, full, lines, partial, members, inline, cross) ==
    LET kept(holds, claim) == IF holds THEN claim ELSE Demote(claim, "CONTRADICTED")
        gap == PackingGap(doc.layout[o])
    IN [ rows       |-> lines,
         track      |-> Known([h |-> Size(child, "h"), v |-> Size(child, "v")]),
         packingGap |-> kept(members /\ inline, Known(gap)),
         full       |-> kept(members /\ inline, Known(full)),
         partial    |-> kept(members /\ inline, partial),
         lineGap    |-> kept(members /\ cross, Known(LineGap(doc.layout[o]))),
         broken     |-> {x \in {"membership", "inline", "cross"} :
                           CASE x = "membership" -> ~members
                             [] x = "inline"     -> members /\ ~inline
                             [] x = "cross"      -> members /\ ~cross} ]

RowsRule(o, full, child, lines, predicted, cross, capacity) ==
    LET width == Size(child, "h")
        gap == PackingGap(doc.layout[o])
        last == lines[Len(lines)]
        judged(open, survivors) ==
            Rule(o, child, full, lines, PartialRow(open, full, survivors), lines = predicted,
                 Inline(lines, o, width, full, gap, open, survivors), cross)
    IN judged(full = "space-between" /\ Len(last) < capacity, Survivors(last, o, width, gap))

(* The children are of one size already, so the code's check of their      *)
(* sizes says yes.                                                         *)
WrapRule(o, plan, flow) ==
    LET height == Size(flow[1], "v")
        capacity == Capacity(o, Size(flow[1], "h"), PackingGap(doc.layout[o]))
        rule(rows) ==
            RowsRule(o, plan.mainAlign.value, flow[1], [i \in DOMAIN rows |-> rows[i].items],
                     PredictedRows(Reading(flow), capacity),
                     \A i \in DOMAIN rows : Near(rows[i].y, (i - 1) * (height + LineGap(doc.layout[o]))),
                     capacity)
    IN rule(ObservedRows(o, Reading(flow)))

-----------------------------------------------------------------------------
(***************************************************************************)
(* reviewStack: a single line of children, one claim at a time.            *)
(***************************************************************************)
GapHolds(line, axis, gap) ==
    \A k \in 2..Len(line) :
        Near(doc.box[line[k]].pos[axis] - doc.box[line[k - 1]].pos[axis] - Size(line[k - 1], axis), gap)

(* Where something of this size starts in the content box.                 *)
Origin(distribution, size, inner) ==
    CASE distribution = "center" -> Rounded(inner - size, 2)
      [] distribution = "end"    -> inner - size
      [] OTHER                   -> 0

SpanHolds(line, o, axis, distribution) ==
    LET first == Offset(line[1], o, axis)
        span == Offset(line[Len(line)], o, axis) + Size(line[Len(line)], axis) - first
    IN Near(Origin(distribution, span, Inner(o, axis)), first)

(* A stretched child is reviewed with the axis plans.                      *)
CrossHolds(line, o, axis, align) ==
    \A k \in DOMAIN line :
        \/ doc.layout[line[k]].sizing[axis] = "FILL"
        \/ Near(Offset(line[k], o, axis), Origin(align, Size(line[k], axis), Inner(o, axis)))

Reviewed(plan, broken) == [plan |-> plan, broken |-> broken, wrap |-> None]

ReviewStack(o, plan, flow) ==
    LET line == Reading(flow)
        even == plan.mainAlign = Known("space-between")
        lonely == Len(line) < 2
        origin == /\ plan.mainAlign.known
                  /\ IF even THEN ~Fits(line, o, plan.axis, "space-between", 0)
                     ELSE ~SpanHolds(line, o, plan.axis, plan.mainAlign.value)
        gap == ~even /\ ~lonely /\ ~GapHolds(line, plan.axis, plan.mainGap.value)
        cross == /\ plan.crossAlign.known
                 /\ ~CrossHolds(line, o, Across(plan.axis), plan.crossAlign.value)
        contradicted == Unknown("CONTRADICTED")
    IN IF flow = <<>> THEN Reviewed(plan, {})
       ELSE IF doc.box[o] = None \/ \E k \in DOMAIN flow : ~Measurable(flow[k])
       THEN Reviewed([plan EXCEPT !.mainAlign = Demote(@, "MISSING"),
                                  !.crossAlign = Demote(@, "MISSING"),
                                  !.mainGap = Demote(@, "MISSING")], {})
       ELSE Reviewed([plan EXCEPT
                        !.mainAlign = IF origin THEN contradicted ELSE @,
                        !.crossAlign = IF cross THEN contradicted ELSE @,
                        !.mainGap = IF lonely THEN Unknown("GAP_UNOBSERVED")
                                    ELSE IF gap \/ (even /\ origin) THEN contradicted ELSE @],
                     {x \in {"origin", "gap", "cross"} :
                        CASE x = "origin" -> origin [] x = "gap" -> gap [] x = "cross" -> cross})

-----------------------------------------------------------------------------
(* axisPlanOf: what a length means below the parent p.                     *)
AxisPlan(o, p, axis) ==
    LET l == doc.layout[o] IN
    CASE l.sizing[axis] = "HUG" -> "intrinsic"
      [] l.sizing[axis] = "FIXED" /\ doc.box[o] # None -> "fixed"
      [] /\ l.sizing[axis] = "FILL" /\ ~l.absolute
         /\ p # NoParent /\ doc.layout[p].mode \in {"HORIZONTAL", "VERTICAL"} ->
           IF axis = MainAxis(doc.layout[p]) THEN "flex" ELSE "stretch"
      [] OTHER -> "unknown"

(* What is left for each child that fills, of the children there are.      *)
Share(p, axis, siblings) ==
    LET fills == {k \in DOMAIN siblings : doc.layout[siblings[k]].sizing[axis] = "FILL"}
        fixed == Total([k \in DOMAIN siblings |-> IF k \in fills THEN 0 ELSE Size(siblings[k], axis)])
    IN Rounded(Inner(p, axis) - fixed - PackingGap(doc.layout[p]) * (Len(siblings) - 1),
               Max({1, Cardinality(fills)}))

(* Slip: a child that is too small is not noticed.                         *)
ReviewedAxisFromAbove(o, p, axis, siblings) ==
    LET plan == AxisPlan(o, p, axis) IN
    IF plan \notin {"stretch", "flex"} THEN plan
    ELSE IF \/ doc.box[p] = None \/ doc.box[o] = None
            \/ plan = "flex" /\ \E k \in DOMAIN siblings : doc.box[siblings[k]] = None
    THEN "unknown"
    ELSE IF Size(o, axis) <= IF plan = "stretch" THEN Inner(p, axis) ELSE Share(p, axis, siblings)
    THEN plan
    ELSE "contradicted"

(* reviewAxisPlan                                                          *)
ReviewedAxis(o, p, axis, siblings) ==
    LET plan == AxisPlan(o, p, axis) IN
    IF plan \notin {"stretch", "flex"} THEN plan
    ELSE IF \/ doc.box[p] = None \/ doc.box[o] = None
            \/ plan = "flex" /\ \E k \in DOMAIN siblings : doc.box[siblings[k]] = None
    THEN "unknown"
    ELSE IF Near(Size(o, axis), IF plan = "stretch" THEN Inner(p, axis) ELSE Share(p, axis, siblings))
    THEN plan
    ELSE "contradicted"

-----------------------------------------------------------------------------
(* Slip: only the depth limit leaves a list of children incomplete.        *)
IncompleteByDepth == {nodes[k].at : k \in {j \in DOMAIN nodes : nodes[j].truncated = "max-depth"}}

(* The nodes with a child that a limit left out.                           *)
Incomplete ==
    {omitted[k].parent : k \in {j \in DOMAIN omitted : omitted[j].reason # "not-rendered"}}
    \cup {nodes[k].at : k \in {j \in DOMAIN nodes : nodes[j].truncated # "no"}}

(* The children of o that the slice shows and that are in the flow.        *)
Flow(o) ==
    LET below == Filtered(nodes, LAMBDA v : v.parent = o /\ ~doc.layout[v.at].absolute)
    IN [k \in DOMAIN below |-> below[k].at]

Plan(plan, align, gap, lines, broken, wrap) ==
    [ plan   |-> [plan EXCEPT !.mainAlign = align, !.mainGap = gap, !.crossGap = lines],
      broken |-> broken,
      wrap   |-> wrap ]

Withheld(plan, why) == Plan(plan, Unknown(why), Unknown(why), Unknown(why), {}, None)

(* A list of children that was cut short is not judged at all.             *)
ContainerReview(o, plan, flow) ==
    LET ruled(rule) == Plan(plan, rule.full, rule.packingGap, rule.lineGap, rule.broken, rule)
    IN CASE plan.kind # "flex" -> Reviewed(plan, {})
         [] plan.kind = "flex" /\ o \in Incomplete -> Withheld(plan, "DEPTH_LIMIT")
         [] OTHER ->
              IF ~plan.wrap THEN ReviewStack(o, plan, flow)
              ELSE IF ~WrapEligible(o, plan, flow) THEN Withheld(plan, "UNSUPPORTED")
              ELSE ruled(WrapRule(o, plan, flow))

PlanOf(v) ==
    LET plan(review, siblings) ==
            [ at        |-> v.at,
              container |-> review.plan,
              broken    |-> review.broken,
              wrap      |-> review.wrap,
              size      |-> [axis \in Axes |-> ReviewedAxis(v.at, v.parent, axis, siblings)] ]
    IN plan(ContainerReview(v.at, ContainerOf(doc.layout[v.at]), Flow(v.at)),
            IF v.parent = NoParent THEN <<>> ELSE Flow(v.parent))

(* Slip: the axes of a node are demoted without a word.                    *)
BrokenContainer(plan) == plan.broken

Broken(plan) ==
    plan.broken \cup {axis \in Axes : plan.size[axis] = "contradicted"}

(* Slip: along the parent's axis.                                          *)
HugsAlong(v) ==
    /\ v.parent # NoParent
    /\ doc.layout[v.parent].mode \in {"HORIZONTAL", "VERTICAL"}
    /\ ~doc.layout[v.at].absolute
    /\ doc.layout[v.at].sizing[MainAxis(doc.layout[v.parent])] = "HUG"

(* A child that hugs across its parent would be stretched on the web.      *)
HugsAcross(v) ==
    /\ v.parent # NoParent
    /\ doc.layout[v.parent].mode \in {"HORIZONTAL", "VERTICAL"}
    /\ ~doc.layout[v.at].absolute
    /\ doc.layout[v.at].sizing[Across(MainAxis(doc.layout[v.parent]))] = "HUG"

(* The claims a consumer has to account for.                               *)
Claims(v, plan) ==
    LET decided(claim) ==
          CASE claim = "container" -> plan.container.kind # "unknown"
            [] claim = "wrap"      -> plan.wrap # None
            [] claim \in Axes      -> plan.size[claim] \notin {"unknown", "contradicted"}
            [] OTHER               -> HugsAcross(v)
    IN Filtered(<<"container", "h", "v", "wrap", "preserveIntrinsicCrossSize">>, decided)

-----------------------------------------------------------------------------
ProjectionInit ==
    /\ Init
    /\ projected = <<>>
    /\ contradictions = {}
    /\ owed = <<>>

Cut == Next /\ UNCHANGED projectionVars

Project(v, plan, claims) ==
    /\ phase = "done"
    /\ projected' = Append(projected, plan)
    /\ contradictions' = contradictions \cup {[at |-> v.at, check |-> x] : x \in Broken(plan)}
    /\ owed' = owed \o [k \in DOMAIN claims |-> [at |-> v.at, claim |-> claims[k]]]
    /\ UNCHANGED vars

(* Slip: from the last node to the first.                                  *)
ProjectNodeBackwards ==
    /\ Len(projected) < Len(nodes)
    /\ LET v == nodes[Len(nodes) - Len(projected)]
           project(plan) == Project(v, plan, Claims(v, plan))
       IN project(PlanOf(v))

(* projectWeb: one node of the slice.                                      *)
ProjectNode ==
    /\ Len(projected) < Len(nodes)
    /\ LET v == nodes[Len(projected) + 1]
           project(plan) == Project(v, plan, Claims(v, plan))
       IN project(PlanOf(v))

ProjectionNext == Cut \/ ProjectNode

ProjectionSpec == ProjectionInit /\ [][ProjectionNext]_<<vars, projectionVars>>

-----------------------------------------------------------------------------
(***************************************************************************)
(* Properties                                                              *)
(***************************************************************************)
Plans == {"fixed", "intrinsic", "flex", "stretch", "unknown", "contradicted"}

(* The plans follow the nodes of the slice, and an obligation is about a   *)
(* node that has its plan.                                                 *)
ProjectionTypeOK ==
    /\ Len(projected) <= Len(nodes)
    /\ \A k \in DOMAIN projected :
         /\ projected[k].at = nodes[k].at
         /\ projected[k].container.kind \in {"flex", "non-flex", "unknown"}
         /\ projected[k].size \in [Axes -> Plans]
    /\ \A x \in contradictions \cup Elements(owed) : \E k \in DOMAIN projected : projected[k].at = x.at

(* The rendered children of o in the flow: of the document, not the slice. *)
InFlow(o) == {c \in doc.nodes : doc.parent[c] = o /\ doc.visible[c] /\ ~doc.layout[c].absolute}

Within(n, a, b) == a - b \in -n..n

Arrangements(o) ==
    {s \in [1..Cardinality(InFlow(o)) -> InFlow(o)] : \A j, k \in DOMAIN s : s[j] = s[k] => j = k}

(* One line of children in an order in which what c says is true of it: of *)
(* the distances, of where it begins and of where it ends.  Two halves are *)
(* rounded apart by one more, and the gaps of an even spread by two.       *)
Stacked(o, s, c, slack) ==
    LET start(k) == Offset(s[k], o, c.axis)
        end(k) == start(k) + Size(s[k], c.axis)
        n == Len(s)
        room == Inner(o, c.axis) - end(n)   \* what is left after the last child
    IN /\ c.mainGap.known /\ c.mainAlign # Known("space-between") =>
            \A k \in 2..n : Within(slack, start(k) - end(k - 1), c.mainGap.value)
       /\ c.mainAlign = Known("start") => Within(slack, start(1), 0)
       /\ c.mainAlign = Known("end") => Within(slack, room, 0)
       /\ c.mainAlign = Known("center") => Within(2 * slack + 1, start(1), room)
       /\ c.mainAlign = Known("space-between") =>
            /\ Within(slack, start(1), 0)
            /\ n > 1 => Within(slack, room, 0)
            /\ \A j, k \in 2..n : Within(4 * slack + 2, start(j) - end(j - 1), start(k) - end(k - 1))

Aligned(o, child, c, slack) ==
    LET axis == Across(c.axis)
        start == Offset(child, o, axis)
        room == Inner(o, axis) - start - Size(child, axis)
    IN \/ doc.layout[child].sizing[axis] = "FILL"
       \/ /\ c.crossAlign = Known("start") => Within(slack, start, 0)
          /\ c.crossAlign = Known("end") => Within(slack, room, 0)
          /\ c.crossAlign = Known("center") => Within(2 * slack + 1, start, room)

(* The rule places every child: k - 1 = row * capacity + column.  A child  *)
(* is near the first one of its row, and that one near its line.           *)
Repeats(o, s, rule, slack) ==
    LET n == Len(s)
        pitch == rule.track.value.h + rule.packingGap.value
        capacity == Capacity(o, rule.track.value.h, rule.packingGap.value)
        row(k) == (k - 1) \div capacity
        column(k) == (k - 1) % capacity
        inRow(k) == Min({capacity, n - row(k) * capacity})
        spare(k) == Inner(o, "h") - inRow(k) * pitch + rule.packingGap.value
        claim(k) == IF inRow(k) = capacity THEN rule.full ELSE rule.partial
        x(k) == column(k) * pitch +
                CASE claim(k).value = "start"  -> 0
                  [] claim(k).value = "end"    -> spare(k)
                  [] claim(k).value = "center" -> spare(k) \div 2
                  [] OTHER -> (column(k) * spare(k)) \div Max({1, inRow(k) - 1})
    IN \A k \in 1..n :
         /\ claim(k).known => Within(slack + 1, Offset(s[k], o, "h"), x(k))
         /\ Within(2 * slack, Offset(s[k], o, "v"), row(k) * (rule.track.value.v + rule.lineGap.value))

(* "A numeric or positional claim leaves this file as known only when the  *)
(* declaration's prediction matched the observed geometry" (project.ts):   *)
(* what is known of a container is true of all the children it has in the  *)
(* document, however the slice was cut.  Left out is what the code does    *)
(* not look at: the cross axis of a list that wraps or was cut short.      *)
KnownClaimsHold ==
    \A k \in DOMAIN projected :
        LET o == projected[k].at
            c == projected[k].container
            rule == projected[k].wrap
        IN /\ c.kind = "flex" /\ ~c.wrap /\ InFlow(o) # {} =>
                /\ c.mainAlign.known \/ c.mainGap.known =>
                     \E s \in Arrangements(o) : Stacked(o, s, c, 2)
                /\ c.crossAlign.known /\ o \notin Incomplete =>
                     \A child \in InFlow(o) : Aligned(o, child, c, 2)
           /\ rule # None /\ c.mainGap.known /\ c.crossGap.known =>
                \E s \in Arrangements(o) : Repeats(o, s, rule, 2)

Filling(o, axis) == {c \in InFlow(o) : doc.layout[c].sizing[axis] = "FILL"}

(* Children that fill their parent, as far as their plans are known, leave *)
(* no room and take none that is not there, in whatever order their sizes  *)
(* are added.  A rounding step is lost per child, and the tolerance.       *)
FillsTheParent ==
    phase = "done" /\ Len(projected) = Len(nodes) =>
        \A o \in {projected[k].at : k \in DOMAIN projected} \ Incomplete : \A axis \in Axes :
            LET planned(c) == \E k \in DOMAIN projected :
                                projected[k].at = c /\ projected[k].size[axis] \in {"flex", "stretch"}
                gaps == PackingGap(doc.layout[o]) * (Cardinality(InFlow(o)) - 1)
                taken(s) == Total([k \in DOMAIN s |-> Size(s[k], axis)])
            IN /\ doc.layout[o].mode \in {"HORIZONTAL", "VERTICAL"}
               /\ Filling(o, axis) # {} /\ \A c \in Filling(o, axis) : planned(c)
               => IF axis = MainAxis(doc.layout[o])
                  THEN \E s \in Arrangements(o) :
                         Within(3 * Cardinality(Filling(o, axis)), taken(s) + gaps, Inner(o, axis))
                  ELSE \A c \in Filling(o, axis) : Within(2, Size(c, axis), Inner(o, axis))

(* "A mismatch demotes the claim and raises a mandatory diagnostic ...     *)
(* never silently" (types.ts): a claim of a node is demoted as             *)
(* contradicted exactly if a contradiction is reported at that node.       *)
DemotedLoudly ==
    \A k \in DOMAIN projected :
        LET p == projected[k]
            claims == IF p.container.kind # "flex" THEN {}
                      ELSE {p.container.mainAlign, p.container.crossAlign,
                            p.container.mainGap, p.container.crossGap}
        IN (Unknown("CONTRADICTED") \in claims \/ \E axis \in Axes : p.size[axis] = "contradicted")
             <=> \E x \in contradictions : x.at = p.at

(* Both together: a projection says of a container what is so, or says     *)
(* aloud that it does not know.                                            *)
ClaimsAreHonest == KnownClaimsHold /\ DemotedLoudly

(* "A value nobody read is a loud gap instead of a silent omission"        *)
(* (types.ts): every obligation is raised once, and a rendered child that  *)
(* hugs across its parent is owed for, or lies under an omission that a    *)
(* limit caused.                                                           *)
NothingOwedIsLost ==
    phase = "done" /\ Len(projected) = Len(nodes) =>
        /\ \A j, k \in DOMAIN owed : owed[j] = owed[k] => j = k
        /\ \A o \in Requested :
             LET p == doc.parent[o] IN
             /\ doc.visible[o] /\ ~doc.layout[o].absolute
             /\ p \in Requested /\ doc.layout[p].mode \in {"HORIZONTAL", "VERTICAL"}
             /\ doc.layout[o].sizing[Across(MainAxis(doc.layout[p]))] = "HUG"
             => \/ [at |-> o, claim |-> "preserveIntrinsicCrossSize"] \in Elements(owed)
                \/ \E k \in DOMAIN omitted :
                     omitted[k].reason # "not-rendered" /\ Covers(omitted[k].at, o)

(* The children stand apart by equal shares of what their sizes leave of   *)
(* the axis, each within a rounding step of its place.                     *)
EvenlySpread(o, s, axis) ==
    LET n == Len(s)
        before(k) == Total([j \in 1..(k - 1) |-> Size(s[j], axis)])
        free == Inner(o, axis) - before(n + 1)
    IN \A k \in 1..n : Within(n - 1, (n - 1) * (Offset(s[k], o, axis) - before(k)), (k - 1) * free)

(* In the order s the children sit where the editor puts them for this     *)
(* declaration.  Lines of a row that wraps are told apart by their         *)
(* heights, so these differ by more than the tolerance.                    *)
PlacedAsDeclared(o, s) ==
    LET c == ContainerOf(doc.layout[o])
        tile == Flow(o)[1]
        rule(partial) ==
            [ track |-> Known([h |-> Size(tile, "h"), v |-> Size(tile, "v")]), packingGap |-> c.mainGap,
              full |-> c.mainAlign, partial |-> Known(partial),
              lineGap |-> Known(LineGap(doc.layout[o])) ]
    IN /\ c.kind = "flex" /\ o \notin Incomplete /\ doc.box[o] # None
       /\ Flow(o) # <<>> /\ \A child \in InFlow(o) : Measurable(child)
       /\ IF c.wrap
          THEN /\ WrapEligible(o, c, Flow(o))
               /\ Size(tile, "v") + LineGap(doc.layout[o]) > 2
               /\ \E d \in {"start", "center", "end", "space-between"} :
                    /\ c.mainAlign = Known("space-between") \/ c.mainAlign = Known(d)
                    /\ Repeats(o, s, rule(d), 0)
          ELSE /\ Stacked(o, s, c, 0)
               /\ c.mainAlign = Known("space-between") => EvenlySpread(o, s, c.axis)
               /\ \A child \in InFlow(o) : Aligned(o, child, c, 0)

ContradictsNothing(p) == p.broken = {}

(* No false alarm: a container whose children sit where its declaration    *)
(* puts them, in the order in which they are read from the top, is not     *)
(* contradicted.                                                           *)
ExactLayoutIsQuiet ==
    \A k \in DOMAIN projected :
        LET o == projected[k].at
        IN PlacedAsDeclared(o, Reading(Flow(o))) => ContradictsNothing(projected[k])

(* reviewStack: "Each is checked on its own evidence - the gap on every    *)
(* adjacent pair, the alignment on where the observed span sits".          *)
AdjacentPairsAreCompared ==
    \A k \in DOMAIN projected :
        (\E s \in Arrangements(projected[k].at) : PlacedAsDeclared(projected[k].at, s))
            => ContradictsNothing(projected[k])
=============================================================================
