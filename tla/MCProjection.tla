---------------------------- MODULE MCProjection ----------------------------
(***************************************************************************)
(* Containers whose children are placed as the editor would place them,    *)
(* and then moved: one child, along one axis, by less than the tolerance,  *)
(* by a little more, or by a lot.                                          *)
(***************************************************************************)
EXTENDS Projection, FiniteSetsExt

Both(n) == [h |-> n, v |-> n]
Sizes(h, v) == [h |-> h, v |-> v]

Plain ==
    [ mode |-> "NONE", wrap |-> "NO_WRAP", main |-> "MIN", cross |-> "MIN", lines |-> None,
      gap |-> None, lineGap |-> None, before |-> Both(0), after |-> Both(0),
      sizing |-> [h |-> "FIXED", v |-> "FIXED"], absolute |-> FALSE, turned |-> FALSE ]

Auto(mode, main, cross, gap) ==
    [Plain EXCEPT !.mode = mode, !.main = main, !.cross = cross, !.gap = gap,
                  !.before = Sizes(100, 200), !.after = Sizes(300, 100)]

Wrapping(main, lines) ==
    [Auto("HORIZONTAL", main, "MIN", 100) EXCEPT !.wrap = "WRAP", !.lines = lines, !.lineGap = 50]

Page == [pos |-> Sizes(500, 700), size |-> Sizes(3000, 4000)]

(* A box of this size whose corner is at (x, y) of the content box.        *)
BoxAt(x, y, size, l) ==
    [pos |-> [h |-> Page.pos.h + l.before.h + x, v |-> Page.pos.v + l.before.v + y], size |-> size]

(* Along an axis with so much room: n items of `total` with gaps.          *)
Start(align, room) ==
    CASE align \in {"CENTER"} -> Rounded(room, 2) [] align = "MAX" -> room [] OTHER -> 0

RECURSIVE Sum(_, _)
Sum(f, n) == IF n = 0 THEN 0 ELSE f[n] + Sum(f, n - 1)

(* The corner of every item of a stack, as the editor lays it out.         *)
StackBoxes(l, sizes) ==
    LET n == Len(sizes)
        main == MainAxis(l)
        cross == Across(main)
        inner(a) == Page.size[a] - l.before[a] - l.after[a]
        along == [k \in 1..n |-> sizes[k][main]]
        gap == PackingGap(l)
        room == inner(main) - Sum(along, n) - (n - 1) * gap
        at(k) == IF l.main = "SPACE_BETWEEN"
                 THEN Sum(along, k - 1) + (IF n = 1 THEN 0 ELSE Rounded((k - 1) * room, n - 1))
                 ELSE Sum(along, k - 1) + (k - 1) * gap + Start(l.main, room)
        over(k) == Start(l.cross, inner(cross) - sizes[k][cross])
    IN [k \in 1..n |-> IF main = "h" THEN BoxAt(at(k), over(k), sizes[k], l)
                       ELSE BoxAt(over(k), at(k), sizes[k], l)]

(* Tiles of 800 by 400, as many in a row as fit.                           *)
Tile == Sizes(800, 400)
WrapBoxes(l, n) ==
    LET inner == Page.size.h - l.before.h - l.after.h
        gap == PackingGap(l)
        capacity == Max({1, (inner + gap) \div (800 + gap)})
        inRow(k) == Min({capacity, n - ((k - 1) \div capacity) * capacity})
        room(k) == inner - inRow(k) * 800 - (inRow(k) - 1) * gap
        column(k) == (k - 1) % capacity
        x(k) == IF l.main = "SPACE_BETWEEN"
                THEN column(k) * 800 + (IF inRow(k) = 1 THEN 0 ELSE Rounded(column(k) * room(k), inRow(k) - 1))
                ELSE column(k) * (800 + gap) + Start(l.main, room(k))
    IN [k \in 1..n |-> BoxAt(x(k), ((k - 1) \div capacity) * (400 + LineGap(l)), Tile, l)]

(* One item moved, or none.                                                *)
Moves(boxes, steps) ==
    {boxes} \cup
    {[boxes EXCEPT ![m[1]].pos[m[2]] = @ + m[3]] : m \in (1..Len(boxes)) \X Axes \X steps}

(* Node 1 with these boxes in it, in this order of painting.               *)
Document(l, boxes, layouts, visible) ==
    LET n == Len(boxes) + 1 IN
    [ nodes |-> 1..n, id |-> [o \in 1..n |-> o],
      parent |-> [o \in 1..n |-> IF o = 1 THEN NoParent ELSE 1],
      above |-> [o \in 1..n |-> IF o = 1 THEN {} ELSE {1}],
      children |-> [o \in 1..n |-> IF o = 1 THEN [k \in 1..(n - 1) |-> k + 1] ELSE <<>>],
      visible |-> visible,
      layout |-> [o \in 1..n |-> IF o = 1 THEN l ELSE layouts[o - 1]],
      box |-> [o \in 1..n |-> IF o = 1 THEN Page ELSE boxes[o - 1]] ]

AllShown(n) == [o \in 1..n |-> TRUE]
Fixed(n) == [k \in 1..n |-> Plain]

Big == Sizes(900, 800)
Small == Sizes(500, 600)

Stacks ==
    LET layouts == {Auto(mode, main, cross, gap) :
                      mode \in {"HORIZONTAL", "VERTICAL"},
                      main \in {"MIN", "CENTER", "MAX", "SPACE_BETWEEN", "unknown"},
                      cross \in {"MIN", "CENTER", "MAX", "BASELINE"},
                      gap \in {None, 155}}
        lists == {<<Big>>, <<Big, Small>>, <<Small, Big>>, <<Big, Small, Small>>}
    IN UNION {UNION {{Document(l, b, Fixed(Len(s)), AllShown(Len(s) + 1)) :
                         b \in Moves(StackBoxes(l, s), {1, -2, 3, 400})} : s \in lists} : l \in layouts}

(* One of the children is hidden, out of the flow, turned or has no box.   *)
Odd ==
    LET l == Auto("VERTICAL", "CENTER", "MIN", 155)
        sizes == <<Big, Small, Small>>
        boxes == StackBoxes(l, sizes)
    IN UNION {{Document(l, boxes, Fixed(3), [AllShown(4) EXCEPT ![k + 1] = FALSE]),
               Document(l, boxes, [Fixed(3) EXCEPT ![k].absolute = TRUE, ![k].sizing["h"] = "FILL"], AllShown(4)),
               Document(l, boxes, [Fixed(3) EXCEPT ![k].turned = TRUE], AllShown(4)),
               Document(l, [boxes EXCEPT ![k] = None], [Fixed(3) EXCEPT ![k].sizing["h"] = "FILL"], AllShown(4))}
              : k \in 1..3}
       \cup {Document([l EXCEPT !.mode = mode, !.wrap = wrap], boxes,
                      [Fixed(3) EXCEPT ![1].sizing = [h |-> "HUG", v |-> "FILL"]], AllShown(4)) :
               mode \in {"NONE", "GRID", "HORIZONTAL", "VERTICAL"}, wrap \in {"NO_WRAP", "WRAP", "unknown"}}

Wraps ==
    LET layouts == {Wrapping(main, lines) :
                      main \in {"MIN", "CENTER", "MAX", "SPACE_BETWEEN", "unknown"},
                      lines \in {None, "SPACE_BETWEEN"}}
    IN UNION {UNION {{Document(l, b, Fixed(n), AllShown(n + 1)) :
                         b \in Moves(WrapBoxes(l, n), {2, 3, 700})} : n \in 1..4} : l \in layouts}

(* Children that fill the row, or hug, each of a few sizes.                *)
Fills ==
    LET l == Auto("HORIZONTAL", "MIN", "MIN", 100)
        inner == Page.size.h - 400
        sizings == {"FIXED", "HUG", "FILL"}
        widths == {500, (inner - 100) \div 2, inner - 600, (inner - 700) \div 2}
        heights == {400, Page.size.v - 300}
    IN {Document(l, StackBoxes(l, s),
                 <<[Plain EXCEPT !.sizing["h"] = a], [Plain EXCEPT !.sizing["v"] = b],
                   [Plain EXCEPT !.sizing["h"] = c]>>, v) :
          s \in {<<Sizes(x, 400), Sizes(500, y), Sizes(z, 400)>> : x \in widths, y \in heights, z \in widths},
          a \in {"FIXED", "FILL"}, b \in sizings, c \in {"HUG", "FILL"},
          v \in {AllShown(4), [AllShown(4) EXCEPT ![3] = FALSE], [AllShown(4) EXCEPT ![4] = FALSE]}}

(* Two tiles moved by what each comparison lets pass.                      *)
Slack ==
    LET l == Wrapping("MIN", None)
    IN UNION {{Document(l, b, Fixed(2), AllShown(3)) : b \in Moves(once, {2, 4})} :
                once \in Moves(WrapBoxes(l, 2), {2, 4})}

MCDocs == Stacks \cup Odd \cup Wraps \cup Slack \cup Fills

(* All of it, the container alone, and every budget.                       *)
MCRequests ==
    {[roots |-> <<1>>, maxDepth |-> Unlimited, maxNodes |-> n, includeHidden |-> FALSE] : n \in 2..5}
    \cup {[roots |-> <<1>>, maxDepth |-> 0, maxNodes |-> 5, includeHidden |-> FALSE]}
=============================================================================
