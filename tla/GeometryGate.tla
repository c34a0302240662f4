---------------------------- MODULE GeometryGate ----------------------------
(***************************************************************************)
(* diffGeometry and geometryReportFails: boxes measured in a browser       *)
(* against the boxes a slice expects.                                      *)
(*                                                                         *)
(* The file of measurements is decoded, its entries are compared one by    *)
(* one, its exclusions (claims that a node needs no measurement) are       *)
(* judged one by one, and the report decides.                              *)
(*                                                                         *)
(* Lengths are integers on the grid of roundPx, a hundredth of a pixel,    *)
(* and measured ones are already scaled to the design width.  The reason   *)
(* of a refusal and of a rejected claim is left out.                       *)
(***************************************************************************)
EXTENDS Integers, Sequences, FiniteSetsExt

CONSTANTS
    Slices,        \* what to measure against: see IsSlice
    FilesFor(_),   \* the measured files a slice may meet: see IsFile
    SettingsFor(_), \* tolerances and what the gate requires: see IsSetting
    None           \* no parent, box, element, tag or target

Items(s) == {s[k] : k \in DOMAIN s}

Slots == {"x", "y", "width", "height"}
Boxes == [Slots -> Int]
Kinds == {"asset-internal", "collapsed-into", "derived-from-children", "native-control-internal"}
V1Kinds == {"asset-internal", "collapsed-into"}
Targeted == {"collapsed-into", "native-control-internal"}

(* What a frame may have of its own besides its box and its padding.       *)
Traits == {"clip", "effects", "opacity", "rotation", "paint", "blend", "scroll",
           "unknown-layout", "absolute"}

(* Looks as the gate reads them.  drawn: a vector type or an image fill;   *)
(* lineHeight is 0 when none is declared.                                  *)
Looks == [text : BOOLEAN, drawn : BOOLEAN, auto : BOOLEAN, box : Boxes \cup {None},
          padding : [{"top", "right", "bottom", "left"} -> Int],
          own : SUBSET Traits, lineHeight : Nat, resizes : BOOLEAN]

(* rendered is effectiveVisible: nothing below a hidden node is rendered.  *)
(* cutShort are the nodes with a child left out by a limit.  A slice is a  *)
(* forest, as it is cut: no set of nodes goes on upwards for ever; and it  *)
(* is frames that have an auto-layout, never a text.                       *)
IsSlice(s) ==
    /\ s.parent \in [s.nodes -> s.nodes \cup {None}]
    /\ s.look \in [s.nodes -> Looks]
    /\ s.rendered \subseteq s.nodes
    /\ \A n \in s.rendered : s.parent[n] \in s.rendered \cup {None}
    /\ s.cutShort \subseteq s.nodes
    /\ \A S \in (SUBSET s.nodes) \ {{}} : \E n \in S : s.parent[n] \notin S
    /\ \A n \in s.nodes : ~(s.look[n].text /\ s.look[n].auto)

IsFile(f) ==
    /\ f.version \in {1, 2}
    /\ f.scaled \in BOOLEAN
    /\ f.entries \in Seq(Items(f.entries)) /\ f.exclusions \in Seq(Items(f.exclusions))
    /\ \A k \in DOMAIN f.entries : f.entries[k].at \in Boxes
    /\ \A k \in DOMAIN f.exclusions : f.exclusions[k].kind \in Kinds

IsSetting(o) ==
    /\ {o.tolerance, o.textTolerance, o.perLine} \subseteq Int
    /\ {o.allowScaling, o.requireCoverage, o.requireElements} \subseteq BOOLEAN

StructuralTolerance == 2

ASSUME SlicesAssumption ==
    \A s \in Slices : IsSlice(s) /\ \A f \in FilesFor(s) : IsFile(f)
ASSUME SettingsAssumption == \A s \in Slices : \A o \in SettingsFor(s) : IsSetting(o)

VARIABLES
    slice, file, setting,
    stage,      \* "decode", "compare", "exclude", "done" or "refused"; in DiffGeometry
                \* it is "waiting" until there is a slice
    at,         \* the entry, then the exclusion, that is looked at next
    unknown,    \* measured ids the slice does not contain
    boxless,    \* measured nodes without geometry
    holders,    \* pairs of an element and a node it answers for
    unlabelled, \* measured nodes without an element
    deltas,     \* [node, slot, class] of vertical measurements of text
    mismatches, \* pairs of a node and a slot
    flips,      \* texts whose height moved by whole lines
    compared, matched,
    invalid,    \* ids of rejected exclusions
    excused,    \* ids of accepted exclusions
    verdict     \* "none", "match" or "mismatch"

input == <<slice, file, setting>>
entriesReport == <<unknown, boxless, holders, unlabelled, deltas, mismatches, flips, compared, matched>>
claimsReport == <<invalid, excused>>
gateVars == <<input, stage, at, entriesReport, claimsReport, verdict>>

Abs(i) == IF i < 0 THEN -i ELSE i

-----------------------------------------------------------------------------
(* decodeMeasuredGeometry and the refusals of diffGeometry.                *)
-----------------------------------------------------------------------------
MeasuredIds == {e.id : e \in Items(file.entries)}
Look(n) == slice.look[n]
HasBox(n) == Look(n).box # None

Decodable ==
    /\ \A j, k \in DOMAIN file.entries : file.entries[j].id = file.entries[k].id => j = k
    /\ \A j, k \in DOMAIN file.exclusions : file.exclusions[j].id = file.exclusions[k].id => j = k
    /\ \A x \in Items(file.exclusions) :
         /\ x.id \notin MeasuredIds
         /\ x.kind \in Targeted => x.target # x.id
         /\ file.version = 1 => x.kind \in V1Kinds
    /\ file.version = 1 => \A e \in Items(file.entries) : e.tag = None

Comparable ==
    /\ 0 <= setting.tolerance
    /\ setting.tolerance <= setting.textTolerance
    /\ 0 <= setting.perLine
    /\ file.scaled => setting.allowScaling
    /\ file.root \in slice.nodes
    /\ HasBox(file.root)

(* A report on nothing.                                                    *)
Blank ==
    /\ at = 1
    /\ unknown = {} /\ boxless = {} /\ holders = {} /\ unlabelled = {}
    /\ deltas = {} /\ mismatches = {} /\ flips = {}
    /\ compared = 0 /\ matched = 0
    /\ invalid = {} /\ excused = {}
    /\ verdict = "none"

Start == stage = "decode" /\ Blank

GateInit ==
    /\ slice \in Slices
    /\ file \in FilesFor(slice)
    /\ setting \in SettingsFor(slice)
    /\ Start

RefuseFile ==
    /\ stage = "decode"
    /\ ~(Decodable /\ Comparable)
    /\ stage' = "refused"
    /\ UNCHANGED <<input, at, entriesReport, claimsReport, verdict>>

Decode ==
    /\ stage = "decode"
    /\ Decodable /\ Comparable
    /\ stage' = "compare"
    /\ UNCHANGED <<input, at, entriesReport, claimsReport, verdict>>

-----------------------------------------------------------------------------
(* One measured entry.                                                     *)
-----------------------------------------------------------------------------
Entry == file.entries[at]
RootBox == Look(file.root).box

(* Slip: against the page instead of the root.                             *)
ExpectedOnPage(n, s) == Look(n).box[s]

Expected(n, s) ==
    Look(n).box[s] - (IF s \in {"x", "y"} THEN RootBox[s] ELSE 0)

Delta(e, s) == e.at[s] - Expected(e.id, s)

(* Text whose height follows its lines has a budget for y and height.      *)
BudgetEligible(n) == Look(n).text /\ Look(n).lineHeight > 0 /\ Look(n).resizes

Budgeted(n, s) == BudgetEligible(n) /\ s \in {"y", "height"}

(* max(1, ceil((height - 0.05) / lineHeight))                              *)
EstimatedLines(n) ==
    LET lines == -((5 - Look(n).box.height) \div Look(n).lineHeight)
    IN IF lines < 1 THEN 1 ELSE lines

TextBound(n) == setting.textTolerance + setting.perLine * EstimatedLines(n)

(* Math.round: a half rounds up.                                           *)
LineDelta(n, d) == (2 * d + Look(n).lineHeight) \div (2 * Look(n).lineHeight)

WithinStrict(d) == Abs(d) <= setting.tolerance

(* Slip: the budget is asked before the lines are counted.                 *)
IsWrapFlipBeyondBudget(n, s, d) ==
    /\ Budgeted(n, s) /\ s = "height"
    /\ Abs(d) > TextBound(n)
    /\ LineDelta(n, d) # 0
    /\ Abs(d - LineDelta(n, d) * Look(n).lineHeight) <= TextBound(n)

(* The height moved by close to a whole number of lines.                   *)
IsWrapFlip(n, s, d) ==
    /\ Budgeted(n, s) /\ s = "height"
    /\ ~WithinStrict(d)
    /\ LineDelta(n, d) # 0
    /\ Abs(d - LineDelta(n, d) * Look(n).lineHeight) <= TextBound(n)

WithinBudget(n, s, d) ==
    /\ Budgeted(n, s)
    /\ ~WithinStrict(d)
    /\ ~IsWrapFlip(n, s, d)
    /\ Abs(d) <= TextBound(n)

Misses(n, s, d) ==
    ~WithinStrict(d) /\ ~IsWrapFlip(n, s, d) /\ ~WithinBudget(n, s, d)

Class(n, s, d) ==
    CASE WithinStrict(d) -> "strict-pass"
      [] IsWrapFlip(n, s, d) -> "wrap-flip-candidate"
      [] WithinBudget(n, s, d) -> "budget-pass"
      [] OTHER -> "budget-fail"

Missed(e) == {s \in Slots : Misses(e.id, s, Delta(e, s))}
Flipped(e) == IsWrapFlip(e.id, "height", Delta(e, "height"))

Advance == at' = at + 1 /\ UNCHANGED <<input, stage, claimsReport, verdict>>

(* Slip: an unknown id is passed over.                                     *)
SkipUnknownSilently ==
    /\ stage = "compare" /\ at \in DOMAIN file.entries
    /\ Entry.id \notin slice.nodes
    /\ Advance
    /\ UNCHANGED entriesReport

(* Slip: an unknown id is reported as a node without geometry.             *)
SkipUnknownAsBoxless ==
    /\ stage = "compare" /\ at \in DOMAIN file.entries
    /\ Entry.id \notin slice.nodes
    /\ boxless' = boxless \cup {Entry.id}
    /\ Advance
    /\ UNCHANGED <<unknown, holders, unlabelled, deltas, mismatches, flips, compared, matched>>

SkipUnknown ==
    /\ stage = "compare" /\ at \in DOMAIN file.entries
    /\ Entry.id \notin slice.nodes
    /\ unknown' = unknown \cup {Entry.id}
    /\ Advance
    /\ UNCHANGED <<boxless, holders, unlabelled, deltas, mismatches, flips, compared, matched>>

SkipBoxless ==
    /\ stage = "compare" /\ at \in DOMAIN file.entries
    /\ Entry.id \in slice.nodes /\ ~HasBox(Entry.id)
    /\ boxless' = boxless \cup {Entry.id}
    /\ Advance
    /\ UNCHANGED <<unknown, holders, unlabelled, deltas, mismatches, flips, compared, matched>>

Compare ==
    LET e == Entry IN
    /\ stage = "compare" /\ at \in DOMAIN file.entries
    /\ e.id \in slice.nodes /\ HasBox(e.id)
    /\ holders' = IF e.element = None THEN holders ELSE holders \cup {<<e.element, e.id>>}
    /\ unlabelled' = IF e.element = None THEN unlabelled \cup {e.id} ELSE unlabelled
    /\ deltas' = deltas \cup
         {[node |-> e.id, slot |-> s, class |-> Class(e.id, s, Delta(e, s))] :
            s \in {t \in Slots : Budgeted(e.id, t)}}
    /\ mismatches' = mismatches \cup {<<e.id, s>> : s \in Missed(e)}
    /\ flips' = IF Flipped(e) THEN flips \cup {e.id} ELSE flips
    /\ compared' = compared + 1
    /\ matched' = IF Missed(e) = {} /\ ~Flipped(e) THEN matched + 1 ELSE matched
    /\ Advance
    /\ UNCHANGED <<unknown, boxless>>

FinishEntries ==
    /\ stage = "compare" /\ at \notin DOMAIN file.entries
    /\ stage' = "exclude"
    /\ at' = 1
    /\ UNCHANGED <<input, entriesReport, claimsReport, verdict>>

-----------------------------------------------------------------------------
(* One exclusion: a claim that the slice must confirm.                     *)
-----------------------------------------------------------------------------
Parent(n) == slice.parent[n]
RenderedChildren(n) == {c \in slice.rendered : Parent(c) = n}

Above[n \in slice.nodes] ==
    IF Parent(n) = None THEN {} ELSE {Parent(n)} \cup Above[Parent(n)]

(* The first measured node on the way up from n.                           *)
IsNearestMeasured(n, a) ==
    /\ a \in Above[n] \cap MeasuredIds
    /\ \A b \in Above[n] \cap MeasuredIds : b = a \/ b \in Above[a]

(* Something the page shows as one picture.                                *)
AssetLike[n \in slice.nodes] ==
    /\ ~Look(n).text
    /\ n \notin slice.cutShort
    /\ IF RenderedChildren(n) = {} THEN Look(n).drawn
       ELSE \A c \in RenderedChildren(n) : AssetLike[c]

(* Slip: a card with a picture behind it is a picture.                     *)
InsideDrawn(n) ==
    \E a \in slice.nodes : IsNearestMeasured(n, a) /\ (Look(a).drawn \/ AssetLike[a])

InsideAsset(n) == \E a \in slice.nodes : IsNearestMeasured(n, a) /\ AssetLike[a]

Near(a, b) == Abs(a - b) <= StructuralTolerance

(* The children and the padding around them.                               *)
Derived(n, boxOf(_)) ==
    LET C == RenderedChildren(n)
        pad == Look(n).padding
        left == Min({boxOf(c).x : c \in C})
        top == Min({boxOf(c).y : c \in C})
        right == Max({boxOf(c).x + boxOf(c).width : c \in C})
        bottom == Max({boxOf(c).y + boxOf(c).height : c \in C})
    IN [x |-> left - pad.left,
        y |-> top - pad.top,
        width |-> right - left + pad.left + pad.right,
        height |-> bottom - top + pad.top + pad.bottom]

DesignBox(n) == Look(n).box

(* Slip: a child may answer for its parent without an answer of its own.   *)
DerivableUnmeasured(n) ==
    /\ n \in slice.rendered /\ HasBox(n) /\ Look(n).auto
    /\ Look(n).own \subseteq {"absolute"}
    /\ n \notin slice.cutShort
    /\ RenderedChildren(n) # {}
    /\ \A c \in RenderedChildren(n) : HasBox(c)
    /\ \A s \in Slots : Near(Derived(n, DesignBox)[s], Look(n).box[s])

(* ~notDerivable: an auto-layout frame that is its children plus padding.  *)
Derivable(n) ==
    /\ n \in slice.rendered /\ HasBox(n) /\ Look(n).auto
    /\ Look(n).own \subseteq {"absolute"}
    /\ n \notin slice.cutShort
    /\ RenderedChildren(n) # {}
    /\ \A c \in RenderedChildren(n) :
         /\ HasBox(c)
         /\ Look(c).own \cap {"absolute", "rotation"} = {}
         /\ c \in MeasuredIds
    /\ \A s \in Slots : Near(Derived(n, DesignBox)[s], Look(n).box[s])

Contains(outer, inner) ==
    \A p \in {<<"x", "width">>, <<"y", "height">>} :
        /\ inner[p[1]] >= outer[p[1]] - StructuralTolerance
        /\ inner[p[1]] + inner[p[2]] <= outer[p[1]] + outer[p[2]] + StructuralTolerance

(* Text that the measured native control c renders itself.                 *)
InsideControl(n, c) ==
    /\ Look(n).text
    /\ c \in slice.nodes
    /\ \E e \in Items(file.entries) : e.id = c /\ e.tag = "SELECT"
    /\ c \in Above[n]
    /\ HasBox(n) /\ HasBox(c)
    /\ Contains(Look(c).box, Look(n).box)

Collapsible(p) ==
    /\ Look(p).padding = [top |-> 0, right |-> 0, bottom |-> 0, left |-> 0]
    /\ Look(p).own \cap {"clip", "effects", "opacity", "rotation"} = {}
    /\ Cardinality(RenderedChildren(p)) = 1

(* Slip: the boxes are not compared.                                       *)
CollapsedAnyBox(n, t) ==
    /\ t \in slice.nodes /\ t \in MeasuredIds
    /\ HasBox(n) /\ HasBox(t)
    /\ \/ Parent(n) = t /\ Collapsible(t)
       \/ Parent(t) = n /\ Collapsible(n)

(* A wrapper and its child, of which t was measured.                       *)
Collapsed(n, t) ==
    /\ t \in slice.nodes /\ t \in MeasuredIds
    /\ HasBox(n) /\ HasBox(t) /\ Look(n).box = Look(t).box
    /\ \/ Parent(n) = t /\ Collapsible(t)
       \/ Parent(t) = n /\ Collapsible(n)

Upheld(x) ==
    /\ x.id \in slice.nodes
    /\ \/ x.kind = "asset-internal" /\ InsideAsset(x.id)
       \/ x.kind = "derived-from-children" /\ Derivable(x.id)
       \/ x.kind = "native-control-internal" /\ InsideControl(x.id, x.target)
       \/ x.kind = "collapsed-into" /\ Collapsed(x.id, x.target)

Claim == file.exclusions[at]

Accept ==
    /\ stage = "exclude" /\ at \in DOMAIN file.exclusions
    /\ Upheld(Claim)
    /\ excused' = excused \cup {Claim.id}
    /\ at' = at + 1
    /\ UNCHANGED <<input, stage, entriesReport, invalid, verdict>>

Reject ==
    /\ stage = "exclude" /\ at \in DOMAIN file.exclusions
    /\ ~Upheld(Claim)
    /\ invalid' = invalid \cup {Claim.id}
    /\ at' = at + 1
    /\ UNCHANGED <<input, stage, entriesReport, excused, verdict>>

-----------------------------------------------------------------------------
(* The report and its verdict.                                             *)
-----------------------------------------------------------------------------
Boxed == {n \in slice.rendered : HasBox(n)}

UnmeasuredRendered == Boxed \ (MeasuredIds \cup excused)

SharedElements ==
    {h[1] : h \in {p \in holders : \E q \in holders : q[1] = p[1] /\ q[2] # p[2]}}

(* Slip: an element may answer twice when labels are not demanded.         *)
FailsUnlessLabelled ==
    \/ mismatches # {} \/ flips # {} \/ invalid # {}
    \/ unknown # {} \/ boxless # {}
    \/ setting.requireCoverage /\ UnmeasuredRendered # {}
    \/ setting.requireElements /\ unlabelled # {}

(* geometryReportFails                                                     *)
Fails ==
    \/ mismatches # {} \/ flips # {} \/ SharedElements # {} \/ invalid # {}
    \/ unknown # {} \/ boxless # {}
    \/ setting.requireCoverage /\ UnmeasuredRendered # {}
    \/ setting.requireElements /\ unlabelled # {}

Conclude ==
    /\ stage = "exclude" /\ at \notin DOMAIN file.exclusions
    /\ stage' = "done"
    /\ verdict' = IF Fails THEN "mismatch" ELSE "match"
    /\ UNCHANGED <<input, at, entriesReport, claimsReport>>

GateNext ==
    \/ RefuseFile
    \/ Decode
    \/ SkipUnknown
    \/ SkipBoxless
    \/ Compare
    \/ FinishEntries
    \/ Accept
    \/ Reject
    \/ Conclude

GateSpec == GateInit /\ [][GateNext]_gateVars

-----------------------------------------------------------------------------
(***************************************************************************)
(* Properties                                                              *)
(***************************************************************************)

(* Every variable has its type, and the matches are among the comparisons. *)
GateTypeOK ==
    /\ stage \in {"decode", "compare", "exclude", "done", "refused"}
    /\ at \in Nat \ {0}
    /\ boxless \cup unlabelled \cup flips \subseteq slice.nodes
    /\ unknown \cap slice.nodes = {}
    /\ \A h \in holders : h[2] \in slice.nodes
    /\ mismatches \subseteq slice.nodes \X Slots
    /\ compared \in Nat /\ matched \in 0..compared
    /\ verdict \in {"none", "match", "mismatch"}

(* A measurement is where the design has it: strictly so, but for the y    *)
(* and the height of text, which have the budget, and a height that is not *)
(* strictly right is nearer to the design than to a line more or less.     *)
IsFaithful(e) ==
    \A s \in Slots :
        LET d == Delta(e, s) IN
        \/ WithinStrict(d)
        \/ /\ Budgeted(e.id, s)
           /\ Abs(d) <= TextBound(e.id)
           /\ s = "height" => 2 * Abs(d) <= Look(e.id).lineHeight

(* "Wrong mappings always fail", and "Integer-line height jumps [are]      *)
(* always failing, whatever the text budget" (geometry.ts): of a match     *)
(* every entry is a node of the slice, and faithful.                       *)
MatchIsFaithful ==
    verdict = "match" =>
        \A e \in Items(file.entries) :
            e.id \in slice.nodes /\ HasBox(e.id) /\ IsFaithful(e)

(* "Zero mismatches is achievable by measuring nothing": of a match with   *)
(* coverage every rendered node was measured, or stands in a relation to   *)
(* measured nodes that the slice confirms; one step away, no claim leaning *)
(* on a claim.                                                             *)
IsAnswered(n) ==
    \/ n \in MeasuredIds
    \/ \E a \in Above[n] \cap MeasuredIds : AssetLike[a] \/ InsideControl(n, a)
    \/ /\ RenderedChildren(n) # {} /\ RenderedChildren(n) \subseteq MeasuredIds
       /\ \A s \in Slots : Near(Derived(n, DesignBox)[s], Look(n).box[s])
    \/ \E t \in MeasuredIds :
         t \in slice.nodes /\ Look(t).box = Look(n).box /\ (Parent(n) = t \/ Parent(t) = n)

EveryNodeAnswered ==
    verdict = "match" /\ setting.requireCoverage => \A n \in Boxed : IsAnswered(n)

(* "Text is never an asset": of a match with coverage every text was       *)
(* measured, or has the box of a measured parent or child, or lies in a    *)
(* measured native control.                                                *)
TextIsSeen ==
    verdict = "match" /\ setting.requireCoverage =>
        \A n \in Boxed :
            Look(n).text =>
                \/ n \in MeasuredIds
                \/ \E a \in Above[n] \cap MeasuredIds : InsideControl(n, a)
                \/ \E t \in MeasuredIds :
                     /\ t \in slice.nodes /\ Look(t).box = Look(n).box
                     /\ Parent(n) = t \/ Parent(t) = n

(* SharedElement: no element answers for two nodes, and when elements are  *)
(* required every entry names its own.                                     *)
OneElementEach ==
    verdict = "match" =>
        \A d, e \in Items(file.entries) :
            /\ d.element = e.element /\ d.element # None => d = e
            /\ setting.requireElements => e.element # None

(* The counts of a report account for every entry, and every vertical      *)
(* measurement of budgeted text is in its list, "passes included".         *)
ReportAddsUp ==
    stage = "done" =>
        /\ Len(file.entries) = Cardinality(unknown) + Cardinality(boxless) + compared
        /\ compared = matched + Cardinality({m[1] : m \in mismatches} \cup flips)
        /\ \A e \in Items(file.entries), s \in {"y", "height"} :
             e.id \in slice.nodes \ boxless /\ Budgeted(e.id, s) =>
                 Cardinality({d \in deltas : d.node = e.id /\ d.slot = s}) = 1

(* The gate raises no alarm over a render that is the design: every        *)
(* rendered node measured where it is, by an element of its own.           *)
IsPerfect ==
    /\ Boxed \subseteq MeasuredIds
    /\ file.exclusions = <<>>
    /\ \A d, e \in Items(file.entries) :
         /\ d.id \in slice.nodes /\ HasBox(d.id) /\ d.element # None
         /\ \A s \in Slots : d.at[s] = Look(d.id).box[s] - (IF s = "x" THEN RootBox.x ELSE IF s = "y" THEN RootBox.y ELSE 0)
         /\ d.element = e.element => d = e

NoFalseAlarm == verdict = "mismatch" => ~IsPerfect

(* What an implementation that gives a derived frame no box of its own     *)
(* shows in its place: the boxes measured for the children, and padding.   *)
MeasuredBox(n) ==
    LET e == CHOOSE d \in Items(file.entries) : d.id = n
    IN [e.at EXCEPT !.x = @ + RootBox.x, !.y = @ + RootBox.y]

DerivedFrames ==
    {n \in excused : \E x \in Items(file.exclusions) :
        x.id = n /\ x.kind = "derived-from-children"}

UnionWithin(n, s, d) ==
    /\ RenderedChildren(n) \subseteq MeasuredIds
    /\ Abs(Derived(n, MeasuredBox)[s] - Look(n).box[s]) <= d + StructuralTolerance

(* In a match, a frame that is derived from its children is where they     *)
(* are: it starts within the tolerance, and as its edges come from three   *)
(* measurements its width is within three tolerances.                      *)
DerivedFrameStaysClose ==
    verdict = "match" =>
        \A n \in DerivedFrames :
            /\ UnionWithin(n, "x", setting.tolerance)
            /\ UnionWithin(n, "width", 3 * setting.tolerance)

(* Two of them together: in a match every node of the design has an        *)
(* answer, and no two of them the same element for it.                     *)
EveryAnswerIsItsOwn == EveryNodeAnswered /\ OneElementEach

(* And two more: a report counts what it was given, and finds fault with   *)
(* no render that has none.                                                *)
ReportIsRight == ReportAddsUp /\ NoFalseAlarm
=============================================================================
