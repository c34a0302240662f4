------------------------------- MODULE MCRules -------------------------------
(***************************************************************************)
(* Instances of Rules for TLC: snapshots, configurations and rulesets that *)
(* each put one part of the way from raw nodes to findings to the test.    *)
(***************************************************************************)
EXTENDS Rules, TLC

(***************************************************************************)
(* A look is a raw node's fields, and in `means` what the design says with *)
(* them: looks that mean the same are one design to every reader.          *)
(***************************************************************************)
Plain ==
    [ means |-> "plain", layoutMode |-> None, align |-> None, lines |-> None, sizing |-> None,
      positioning |-> None, box |-> None, rotation |-> None, paints |-> <<>>, fillStyle |-> None,
      weights |-> None, paths |-> <<>>, characters |-> None, textStyle |-> None, font |-> None,
      decoration |-> None, overrides |-> <<>>, table |-> [i \in {} |-> None] ]

Box(x, y, w, h) == [x |-> x, y |-> y, width |-> w, height |-> h]
Sides4(t, r, b, l) == [top |-> t, right |-> r, bottom |-> b, left |-> l]
Red == [type |-> "SOLID", color |-> "red", stops |-> <<>>]
Colourless == [type |-> "SOLID", color |-> None, stops |-> <<>>]
Gradient(stops) == [type |-> "GRADIENT_LINEAR", color |-> None, stops |-> stops]

ShapeLooks ==
    { Plain,
      [Plain EXCEPT !.layoutMode = "NONE"],
      [Plain EXCEPT !.layoutMode = "HORIZONTAL", !.means = "row"],
      [Plain EXCEPT !.layoutMode = "odd", !.means = "mode?"],
      [Plain EXCEPT !.layoutMode = "odder", !.means = "mode?"],
      [Plain EXCEPT !.align = "MIN"],
      [Plain EXCEPT !.align = "odd", !.means = "align?"],
      [Plain EXCEPT !.lines = "AUTO", !.means = "lines"],
      [Plain EXCEPT !.sizing = "HUG", !.means = "hug"],
      [Plain EXCEPT !.positioning = "ABSOLUTE", !.means = "absolute"],
      [Plain EXCEPT !.rotation = 90, !.means = "turned"],
      [Plain EXCEPT !.box = Box(783000, -1500, 400, 400), !.means = "box"],
      [Plain EXCEPT !.box = Box(782999, -1499, 404, 396), !.means = "box"],
      [Plain EXCEPT !.box = Box(783000, None, 400, 400)],
      [Plain EXCEPT !.paints = <<Red>>, !.means = "red"],
      [Plain EXCEPT !.paints = <<None, Red>>, !.means = "red"],
      [Plain EXCEPT !.paints = <<Colourless>>, !.means = "some paint"],
      [Plain EXCEPT !.paints = <<Gradient(<<"red", "blue">>)>>, !.means = "gradient"],
      [Plain EXCEPT !.fillStyle = "s1", !.means = "style"],
      [Plain EXCEPT !.fillStyle = "s1", !.paints = <<Red>>, !.means = "style"],
      [Plain EXCEPT !.fillStyle = "gone", !.paints = <<Red>>, !.means = "lost style"],
      [Plain EXCEPT !.weights = Sides4(1000, 0, 0, 0), !.means = "border"],
      [Plain EXCEPT !.weights = Sides4(1000, 0, 0, None)],
      [Plain EXCEPT !.paths = <<"p">>, !.means = "drawing"],
      [Plain EXCEPT !.paths = <<"p", None>>, !.means = "drawing?"],
      [Plain EXCEPT !.paths = <<None>>, !.means = "drawing?"] }

Words == [Plain EXCEPT !.characters = "t", !.font = [family |-> "f", weight |-> 400], !.means = "text"]

TextLooks ==
    { Words,
      [Words EXCEPT !.decoration = "NONE"],
      [Words EXCEPT !.decoration = "UNDERLINE", !.means = "underlined"],
      [Words EXCEPT !.decoration = "odd", !.means = "decoration?"],
      [Words EXCEPT !.textStyle = "s1", !.means = "style"],
      [Words EXCEPT !.textStyle = "gone", !.means = "lost style"],
      [Words EXCEPT !.font = [family |-> "g", weight |-> 400], !.means = "font"],
      [Words EXCEPT !.overrides = <<0, 0>>],
      [Words EXCEPT !.overrides = <<1>>, !.table = 1 :> "UNDERLINE", !.means = "one"],
      [Words EXCEPT !.overrides = <<1>>, !.table = 1 :> None, !.means = "one, unstated"],
      [Words EXCEPT !.overrides = <<1>>, !.table = 1 :> "odd", !.means = "one?"],
      [Words EXCEPT !.overrides = <<1>>, !.means = "one?"] }

Catalog == ("s1" :> "main/sm") @@ ("s2" :> "loose")

(***************************************************************************)
(* A snapshot from a list of nodes [in, type, name, visible, id, look], in *)
(* document order; `in` is the number of the parent.                       *)
(***************************************************************************)
Node(in, type, name, visible, id, look) ==
    [in |-> in, type |-> type, name |-> name, visible |-> visible, id |-> id, look |-> look]

Snapshot(list, geometry) ==
    [ nodes    |-> DOMAIN list,
      parent   |-> [k \in DOMAIN list |-> list[k].in],
      type     |-> [k \in DOMAIN list |-> list[k].type],
      name     |-> [k \in DOMAIN list |-> list[k].name],
      visible  |-> [k \in DOMAIN list |-> list[k].visible],
      id       |-> [k \in DOMAIN list |-> list[k].id],
      look     |-> [k \in DOMAIN list |-> list[k].look],
      catalog  |-> Catalog,
      geometry |-> geometry ]

NoConfig == [responsive |-> None, styleNames |-> None]
Input(snapshot, config, ruleset) == [snapshot |-> snapshot, config |-> config, ruleset |-> ruleset]
Bare(list, geometry) == Input(Snapshot(list, geometry), NoConfig, <<>>)

Frame(in, name, id) == Node(in, "FRAME", name, TRUE, id, Plain)

(* Three nodes below or beside a root: of any type, with any name, hidden. *)
Trees ==
    { Bare(<<Frame(0, "a", 1)>> \o
           [k \in 1..3 |-> Node(IF in[k] = 0 /\ types[k] = None THEN 1 ELSE in[k],
                                types[k], names[k], k # hidden, k + 1, Plain)], "none") :
      in \in {<<1, 2, 1>>, <<1, 2, 3>>, <<1, 1, 0>>, <<0, 2, 2>>},
      types \in [1..3 -> {"FRAME", "WIDGET", None}], names \in [1..3 -> {"a", "b"}], hidden \in 0..3 }

(* Two branches of two children each, to be told apart by their hashes.    *)
Twins ==
    { Bare(<< Frame(0, "a", 1),
              Node(1, "FRAME", "a", shown[1], 2, Plain), Node(2, types[1], names[1], TRUE, 3, Plain),
              Node(2, types[2], names[2], shown[2], 4, Plain),
              Node(1, "FRAME", "a", shown[3], 5, Plain), Node(5, types[3], names[3], TRUE, 6, Plain),
              Node(5, types[4], names[4], shown[4], 7, Plain) >>, "none") :
      types \in [1..4 -> {"FRAME", "WIDGET"}], names \in [1..4 -> {"a", "b"}],
      shown \in {s \in [1..4 -> BOOLEAN] : s[1] = s[3] \/ s[2] = s[4]} }

Pairs ==
    { Bare(<<Frame(0, "a", 1), Node(1, type, "a", TRUE, 2, looks[1]), Node(1, type, "a", TRUE, 3, looks[2])>>, geometry) :
      <<type, looks, geometry>> \in
        ({"RECTANGLE"} \X [1..2 -> ShapeLooks] \X {"none", "paths"})
        \cup ({"TEXT"} \X [1..2 -> TextLooks] \X {"paths"}) }

Overrides ==
    { Bare(<<Node(0, "TEXT", "a", TRUE, 1, [Words EXCEPT !.overrides = ids, !.table = 1 :> "UNDERLINE"])>>, "none") :
      ids \in UNION {[1..n -> {0, 1, 2, None}] : n \in 0..4} }

(* Three children inside, beside, over and beyond each other; the middle   *)
(* one hidden, turned or out of the flow, and numbered against the layers. *)
Boxes ==
    { None, Box(0, 0, 2000, 1000), Box(0, 1000, 2000, 1000), Box(-1000, 0, 2000, 3000), Box(3000, 3000, 2000, 1000) }

Placed(box, how) ==
    [ Plain EXCEPT !.box = box,
                   !.rotation = IF how = "turned" THEN 90 ELSE None,
                   !.positioning = IF how = "absolute" THEN "ABSOLUTE" ELSE None,
                   !.means = ToString(<<box, how>>) ]

Layouts ==
    { Bare(<< Node(0, "FRAME", "a", TRUE, 1, Placed(Box(0, 0, 4000, 4000), "plain")),
              Node(1, "FRAME", "a", TRUE, 4, Placed(box[1], "plain")),
              Node(1, "FRAME", "a", how # "hidden", 3, Placed(box[2], IF how = "hidden" THEN "plain" ELSE how)),
              Node(1, "FRAME", "a", TRUE, 2, Placed(box[3], "plain")) >>, "none") :
      box \in [1..3 -> Boxes], how \in {"plain", "hidden", "turned", "absolute"} }

(***************************************************************************)
(* Artboards, their names under the pattern, and what is below them.       *)
(***************************************************************************)
Capture(width, breakpoint) == [section |-> "hero", width |-> width, breakpoint |-> breakpoint]

Names ==
    ("hero_sm" :> Capture(None, "sm")) @@ ("hero_lg" :> Capture(None, "lg"))
    @@ ("hero_375" :> Capture(375, None)) @@ ("hero_sm_375" :> Capture(375, "sm"))
    @@ ("hero_lg_375" :> Capture(375, "lg")) @@ ("hero_999" :> Capture(999, None))

Responsively(explicit) ==
    [ responsive |-> [widths |-> ("sm" :> 375) @@ ("lg" :> 1440), explicit |-> explicit, names |-> Names],
      styleNames |-> None ]

Undeclaring == [i \in {} |-> None]
Declaring(i, section, breakpoint) == i :> [section |-> section, breakpoint |-> breakpoint]

Use(use, params) == [use |-> use, severity |-> None, wellFormed |-> TRUE, params |-> params]

ListRule == Use("itemCount", [containers |-> {"list"}, items |-> {"item"}, exemptSections |-> {}])
WidthRule == Use("artboardWidth", [expected |-> ("sm" :> 37500) @@ ("lg" :> 144000)])
GroupRule == Use("groupCompleteness", [breakpoints |-> {"sm", "lg"}])
RootRule == Use("contentRoot", [names |-> {"list"}])
StyleRule(exempt) == Use("textStyleName", [exempt |-> exempt])
FontRule(exemptBy) == Use("fontConsistency", [requireSame |-> {"family"}, exemptBy |-> exemptBy])

(* What an artboard holds, as nodes below node `at`.                       *)
Contents(at) ==
    { <<Frame(at, "list", at + 1), Frame(at + 1, "item", at + 2), Frame(at + 1, "item", at + 3)>>,
      <<Frame(at, "list", at + 1), Frame(at + 1, "item", at + 2), Node(at + 1, "FRAME", "item", FALSE, at + 3, Plain)>>,
      <<Frame(at, "list", at + 1), Frame(at + 1, "item", at + 2), Frame(at, "list", at + 3)>>,
      <<Node(at, "FRAME", "list", FALSE, at + 1, Plain), Frame(at + 1, "item", at + 2), Frame(at, "card", at + 3)>>,
      <<Frame(at, "card", at + 1), Frame(at + 1, "list", at + 2), Node(at + 2, "WIDGET", "item", TRUE, at + 3, Plain)>> }

Artboard(name, at) == Node(0, "FRAME", name, TRUE, at, [Plain EXCEPT !.box = Box(0, 0, 375000, 1000), !.means = "artboard"])

TwoBoards ==
    { Input(Snapshot(<<Artboard(names[1], 1)>> \o first \o <<Artboard(names[2], 5)>> \o second, "none"),
            Responsively(explicit), <<ListRule, RootRule>>) :
      names \in [1..2 -> DOMAIN Names \cup {"notes"}],
      first \in Contents(1), second \in Contents(5),
      explicit \in {Undeclaring, Declaring(1, "hero", "lg"), Declaring(9, "menu", "sm")} }

ThreeBoards ==
    { Input(Snapshot(<<Artboard(names[1], 1)>> \o first \o <<Artboard(names[2], 5)>> \o second
                     \o <<Artboard(names[3], 9)>> \o third, "none"),
            Responsively(explicit), <<ListRule, WidthRule, GroupRule>>) :
      names \in {<<"hero_sm", "hero_375", "hero_lg">>, <<"hero_sm", "hero_sm_375", "hero_375">>,
                 <<"hero_lg", "hero_sm", "notes">>},
      first \in Contents(1), second \in Contents(5), third \in Contents(9),
      explicit \in {Undeclaring, Declaring(9, "menu", "sm")} }

(* A list, and one of its items acquired as a root of its own; a list in a *)
(* list; and artboards that are rejected, one of them declared.  A second  *)
(* rule that reads a convention nobody declared ends the run.              *)
OddBoards ==
    { Input(Snapshot(list, "none"), Responsively(Declaring(2, "hero", "lg")), <<ListRule, rule>>) :
      rule \in {RootRule, StyleRule({})},
      list \in { << Artboard("hero_sm", 1), Frame(1, "list", 2), Frame(2, "item", 3), Artboard("hero_lg", 4), Frame(4, "item", 3) >>,
                 << Artboard("hero_lg", 4), Frame(1, "item", 3), Artboard("hero_sm", 1), Frame(3, "list", 2), Frame(4, "item", 3) >>,
                 << Artboard("hero_sm", 1), Frame(1, "list", 3), Frame(2, "list", 4), Frame(3, "item", 5),
                    Artboard("notes", 2), Frame(5, "list", 6), Frame(6, "list", 7), Frame(6, "item", 8) >>,
                 << Node(0, "WIDGET", "hero_sm", TRUE, 1, Plain), Node(0, "WIDGET", "notes", TRUE, 2, Plain),
                    Artboard("hero_lg", 3), Frame(3, "list", 4) >> } }

(***************************************************************************)
(* Rulesets, over two texts that share a style.                            *)
(***************************************************************************)
Grammar == [segments |-> {"part", "size"}, parsed |-> "main/sm" :> [part |-> "main", size |-> "sm"]]

Entries ==
    { ListRule, WidthRule, StyleRule({}), StyleRule({"loose"}), FontRule(None),
      FontRule([segment |-> "part", values |-> {"main"}]), FontRule([segment |-> "tier", values |-> {}]),
      Use("unheardOf", None), [RootRule EXCEPT !.severity = "fatal"],
      [GroupRule EXCEPT !.wellFormed = FALSE], [GroupRule EXCEPT !.severity = "error"] }

Rulesets ==
    { Input(Snapshot(<<Artboard("hero_sm", 1),
                       Node(1, "TEXT", "a", TRUE, 2, [Words EXCEPT !.textStyle = style]),
                       Node(1, "TEXT", "b", TRUE, 3, [Words EXCEPT !.textStyle = style, !.font = [family |-> "g", weight |-> 400]])>>, "none"),
            config, ruleset) :
      style \in {"s1", "s2", "gone"},
      config \in {NoConfig, [NoConfig EXCEPT !.styleNames = Grammar], Responsively(Undeclaring)},
      ruleset \in UNION {[1..n -> Entries] : n \in 0..2} }

MCInputs ==
    Trees \cup Twins \cup Pairs \cup Overrides \cup Layouts
    \cup TwoBoards \cup ThreeBoards \cup OddBoards \cup Rulesets

-----------------------------------------------------------------------------
(* What the design says with a node's own fields.                          *)
Meaning(o) ==
    LET look == Snap.look[o] IN
    IF look.paths # <<>> /\ Snap.geometry = "none" THEN "plain" ELSE look.means

Shown(o) == \A a \in Chain[o] : Snap.visible[a]

(* Two raw nodes that are one design, all the way down, gaps included: a   *)
(* gap is known by the id of what is missing.                              *)
(* A raw child without an id or a type is not part of a design here: to    *)
(* the code it is not there (see Dropped in Facts).                        *)
Alike ==
    LET alike[p \in Snap.nodes \X Snap.nodes] ==
            LET a == p[1] b == p[2] cs == RawChildren(a) ds == RawChildren(b) IN
            IF a \notin DOMAIN nodes \/ b \notin DOMAIN nodes
            THEN a \notin DOMAIN nodes /\ b \notin DOMAIN nodes /\ Snap.id[a] = Snap.id[b]
            ELSE /\ Snap.type[a] = Snap.type[b] /\ Snap.name[a] = Snap.name[b]
                 /\ Snap.visible[a] = Snap.visible[b] /\ (Shown(a) <=> Shown(b))
                 /\ Meaning(a) = Meaning(b)
                 /\ Len(cs) = Len(ds) /\ \A k \in DOMAIN cs : alike[<<cs[k], ds[k]>>]
    IN alike

(* "Two branches with equal subtreeHash need no regeneration"              *)
(* (nodeIdentity.ts): they are one design, and one design has one hash, a  *)
(* child that was rejected being part of it.                               *)
EqualHashEqualDesign ==
    phase # "convert" =>
        \A o, p \in DOMAIN nodes : SubtreeHash[o] = SubtreeHash[p] <=> Alike[<<o, p>>]
=============================================================================
