--------------------------- MODULE MCGeometryGate ---------------------------
(***************************************************************************)
(* Small slices, one per way a node may go unmeasured, and the files that  *)
(* a collector, a forger and a bad implementation would write for them.    *)
(***************************************************************************)
EXTENDS GeometryGate

CONSTANTS
    Stranger,   \* an id no slice contains
    Shared      \* one element for several nodes

NoPadding == [top |-> 0, right |-> 0, bottom |-> 0, left |-> 0]

Box(x, y, w, h) == [x |-> x, y |-> y, width |-> w, height |-> h]

Frame(box) ==
    [text |-> FALSE, drawn |-> FALSE, auto |-> FALSE, box |-> box, padding |-> NoPadding,
     own |-> {}, lineHeight |-> 0, resizes |-> FALSE]

Picture(box) == [Frame(box) EXCEPT !.drawn = TRUE]

(* A text of lines 2000 high that grows with its content.                  *)
Label(box) == [Frame(box) EXCEPT !.text = TRUE, !.lineHeight = 2000, !.resizes = TRUE]

Page == Frame(Box(300, 200, 20000, 30000))

(* A slice from the looks of its nodes and their parents; 1 is the root.   *)
SliceOf(looks, parents, hidden, cutShort) ==
    [nodes |-> DOMAIN looks, parent |-> parents, look |-> looks,
     rendered |-> DOMAIN looks \ hidden, cutShort |-> cutShort]

Measured(n, where, element, tag) == [id |-> n, at |-> where, element |-> element, tag |-> tag]
Exclusion(n, kind, target) == [id |-> n, kind |-> kind, target |-> target]

(* Where a slice expects n, moved by d.                                    *)
Expect(s, n, d) ==
    LET b == s.look[n].box IN
    Box(b.x - 300 + d[1], b.y - 200 + d[2], b.width + d[3], b.height + d[4])

RECURSIVE Listed(_)
Listed(S) == IF S = {} THEN <<>> ELSE LET x == CHOOSE y \in S : TRUE IN <<x>> \o Listed(S \ {x})

File(entries, exclusions) ==
    [version |-> 2, scaled |-> FALSE, root |-> 1,
     entries |-> Listed(entries), exclusions |-> Listed(exclusions)]

Setting(tolerance, text, perLine, coverage, elements) ==
    [tolerance |-> tolerance, textTolerance |-> text, perLine |-> perLine, allowScaling |-> FALSE,
     requireCoverage |-> coverage, requireElements |-> elements]

-----------------------------------------------------------------------------
(* A text below the root, measured off by every delta at which something   *)
(* changes; and what a collector gets wrong about a file.                  *)
-----------------------------------------------------------------------------
TextSlices ==
    {SliceOf(<<Page, look>>, <<None, 1>>, hidden, {}) :
        look \in {[Label(Box(900, 500, 5000, h)) EXCEPT !.lineHeight = l, !.resizes = r] :
                    h \in {2000, 2005, 4006}, l \in {0, 2000}, r \in BOOLEAN}
                 \cup {Frame(None)},
        hidden \in {{}, {2}}}

TextDeltas ==
    {<<x, y, 0, h>> : x \in {0, 26}, y \in {0, -25, 150, -151},
        h \in {0, 25, -26, 100, -150, 999, 1000, -1000, 1001, -1001, 1900, 2000, -2000, 2151, 6000}}

TextFiles(s) ==
    LET exact == Measured(1, Expect(s, 1, <<0, 0, 0, 0>>), 1, None)
        stray == Measured(Stranger, Box(0, 0, 1, 1), 2, None)
        label(where, element) == Measured(2, where, element, None)
        boxes == IF s.look[2].box = None THEN {Box(0, 0, 1, 1)}
                 ELSE {Expect(s, 2, d) : d \in TextDeltas}
        zero == CHOOSE b \in boxes : b = Box(0, 0, 1, 1) \/ b = Expect(s, 2, <<0, 0, 0, 0>>)
    IN {File({exact, label(b, 2)}, {}) : b \in boxes}
       \cup {File({exact, label(zero, 1)}, {}), File({exact, label(zero, None)}, {}),
             File({exact, stray}, {}), File({exact}, {}), File({label(zero, 2)}, {})}
       \cup {[File({exact, label(zero, 2)}, {}) EXCEPT !.scaled = TRUE],
             [File({exact, label(zero, 2)}, {}) EXCEPT !.version = 1],
             [File({exact, label(zero, 2)}, {}) EXCEPT !.root = 2],
             [File({exact, label(zero, 2)}, {}) EXCEPT !.root = Stranger],
             [File({exact}, {}) EXCEPT !.entries = @ \o @]}

TextSettings ==
    {Setting(25, t, p, TRUE, e) : t \in {20, 25, 100, 1000, 2500}, p \in {0, 50}, e \in BOOLEAN}

-----------------------------------------------------------------------------
(* A frame, node 2, and what may be inside it.                             *)
-----------------------------------------------------------------------------
Inner == Box(1000, 1000, 4000, 3000)
UpperHalf == Box(1000, 1000, 4000, 1500)
LowerHalf == Box(1000, 2500, 4000, 1500)
Outside == Box(1000, 2500, 4000, 1503)

Family(looks, hidden, cutShort) ==
    SliceOf(<<Page>> \o looks, <<None, 1, 2, 2>>, hidden, cutShort)

Chain(last) ==
    SliceOf(<<Page, Frame(Inner), Frame(Inner), last>>, <<None, 1, 2, 3>>, {}, {})

ClaimSlices ==
    { \* a card, a picture of two parts, and a picture that is cut short
      Family(<<Frame(Inner), Picture(UpperHalf), Label(LowerHalf)>>, {}, {}),
      Family(<<Frame(Inner), Picture(UpperHalf), Picture(LowerHalf)>>, {}, {}),
      Family(<<Picture(Inner), Picture(UpperHalf), Label(LowerHalf)>>, {3, 4}, {}),
      Family(<<Picture(Inner), Picture(UpperHalf), Label(LowerHalf)>>, {}, {}),
      SliceOf(<<Page, Picture(Inner), Picture(UpperHalf)>>, <<None, 1, 2>>, {}, {2}),
      \* a control with its text, and one with a text that sticks out
      Family(<<Frame(Inner), Label(UpperHalf), Label(Outside)>>, {}, {}),
      \* wrappers
      SliceOf(<<Page, Frame(Inner), Label(Inner)>>, <<None, 1, 2>>, {}, {}),
      SliceOf(<<Page, [Frame(Inner) EXCEPT !.own = {"effects"}], Label(Inner)>>, <<None, 1, 2>>, {}, {}),
      SliceOf(<<Page, Frame(Inner), Label(UpperHalf)>>, <<None, 1, 2>>, {}, {}),
      Chain(Label(Inner)), Chain(Picture(Inner)),
      \* stacks: exact, with slack, painted, cut short, with an absolute child
      Family(<<[Frame(Inner) EXCEPT !.auto = TRUE], Label(UpperHalf), Picture(LowerHalf)>>, {}, {}),
      Family(<<[Frame(Inner) EXCEPT !.auto = TRUE], Label(UpperHalf), Picture(Outside)>>, {}, {}),
      Family(<<[Frame(Inner) EXCEPT !.auto = TRUE, !.own = {"paint"}], Label(UpperHalf), Picture(LowerHalf)>>, {}, {}),
      SliceOf(<<Page, [Frame(Inner) EXCEPT !.auto = TRUE], Label(Inner)>>, <<None, 1, 2>>, {}, {2}),
      SliceOf(<<Page, [Frame(Inner) EXCEPT !.auto = TRUE], [Label(Inner) EXCEPT !.own = {"absolute"}]>>,
              <<None, 1, 2>>, {}, {}) }

ClaimsOn(s, n) ==
    {Exclusion(n, k, None) : k \in Kinds \ Targeted}
    \cup {Exclusion(n, k, t) : k \in Targeted, t \in {1, 2, 3, Stranger} \ {n}}

(* Every node below the root is measured where it is, claimed, or neither. *)
Ways(s) ==
    {[measured |-> M, claimed |-> c] :
        M \in SUBSET s.nodes,
        c \in UNION {{g \in [C -> UNION {ClaimsOn(s, n) : n \in C}] : \A n \in C : g[n].id = n} :
                     C \in {C \in SUBSET (s.nodes \ {1}) : Cardinality(C) <= 2}}}

ClaimFiles(s) ==
    {File({Measured(n, Expect(s, n, <<0, 0, 0, 0>>), IF shared THEN Shared ELSE n, tag) :
              n \in w.measured},
          {w.claimed[n] : n \in DOMAIN w.claimed}) :
        w \in Ways(s), shared \in BOOLEAN, tag \in {None, "SELECT"}}

ClaimSettings == {Setting(25, 25, 0, TRUE, TRUE)}

-----------------------------------------------------------------------------
(* A row that has no box of its own, and two children measured off by up   *)
(* to the tolerance, and by more.                                          *)
-----------------------------------------------------------------------------
RowOf(left, right) ==
    SliceOf(<<Page, [Frame(Inner) EXCEPT !.auto = TRUE,
                        !.padding = [top |-> 0, right |-> 500, bottom |-> 0, left |-> 500]],
              Picture(left), Picture(right)>>, <<None, 1, 2, 2>>, {}, {})

RowSlices ==
    {RowOf(Box(1500, 1000, 1000, 3000), Box(3500, 1000, 1000 + slack, 3000)) : slack \in {0, 2, -2, 10}}

RowDeltas == {<<x, 0, w, 0>> : x \in {-26, -25, 0, 25}, w \in {-25, 0, 25, 26}}

RowFiles(s) ==
    {File({Measured(1, Expect(s, 1, <<0, 0, 0, 0>>), 1, None)}
            \cup {Measured(n, Expect(s, n, d[n]), n, None) : n \in DOMAIN d},
          {Exclusion(2, "derived-from-children", None)}) :
        d \in [{3, 4} -> RowDeltas] \cup [{3} -> RowDeltas]}

RowSettings == {Setting(25, 25, 0, coverage, TRUE) : coverage \in BOOLEAN}
-----------------------------------------------------------------------------
MCSlices == TextSlices \cup ClaimSlices \cup RowSlices

MCFiles(s) ==
    IF s \in TextSlices THEN TextFiles(s)
    ELSE IF s \in ClaimSlices THEN ClaimFiles(s) ELSE RowFiles(s)

MCSettings(s) ==
    IF s \in TextSlices THEN TextSettings
    ELSE IF s \in ClaimSlices THEN ClaimSettings ELSE RowSettings
=============================================================================
