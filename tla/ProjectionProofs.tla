-------------------------- MODULE ProjectionProofs --------------------------
(***************************************************************************)
(* For every document, every layout and every budget: the plans follow the *)
(* slice, what is claimed is true of the document, what is demoted is      *)
(* reported, nothing that is owed is lost, children that fill fill, and    *)
(* children placed as declared contradict nothing.                         *)
(***************************************************************************)
EXTENDS Projection, SliceCutProofs

LOCAL INSTANCE FiniteSetsExt

-----------------------------------------------------------------------------
(* Claims and container plans.                                             *)

Spreads == {"start", "center", "end", "space-between"}
Reasons == {"UNSUPPORTED", "MISSING", "DEPTH_LIMIT", "GAP_UNOBSERVED", "PARTIAL_LINE_UNOBSERVED",
            "CONTRADICTED"}

NotKnown == [known : {FALSE}, reason : Reasons]
AlignClaim == [known : {TRUE}, value : Spreads] \cup NotKnown
GapClaim == [known : {TRUE}, value : Int] \cup NotKnown

FlexPlan == [kind : {"flex"}, axis : Axes, wrap : BOOLEAN, mainAlign : AlignClaim,
             crossAlign : AlignClaim, mainGap : GapClaim, crossGap : GapClaim]

Contradicted == Unknown("CONTRADICTED")

(* A claim is known or not, and never both.                                *)
LEMMA ClaimFacts ==
    /\ \A why : Unknown(why).known = FALSE /\ Unknown(why).reason = why
    /\ \A v : Known(v).known = TRUE /\ Known(v).value = v /\ Known(v) # Contradicted
    /\ Unknown("UNSUPPORTED") # Contradicted
    /\ Unknown("MISSING") # Contradicted
    /\ Unknown("DEPTH_LIMIT") # Contradicted
    /\ Unknown("GAP_UNOBSERVED") # Contradicted
    /\ Unknown("PARTIAL_LINE_UNOBSERVED") # Contradicted
<1>1. \A why : Unknown(why).known = FALSE /\ Unknown(why).reason = why
  BY DEF Unknown
<1>2. \A v : Known(v).known = TRUE /\ Known(v).value = v
  BY DEF Known
<1>3. \A v : Known(v) # Contradicted
  BY <1>1, <1>2 DEF Contradicted
<1>4. \A why : why # "CONTRADICTED" => Unknown(why) # Contradicted
  BY <1>1 DEF Contradicted
<1>. QED  BY <1>1, <1>2, <1>3, <1>4

LEMMA ClaimTypes ==
    /\ \A why \in Reasons : Unknown(why) \in AlignClaim /\ Unknown(why) \in GapClaim
    /\ Unknown("UNSUPPORTED") \in AlignClaim /\ Unknown("UNSUPPORTED") \in GapClaim
    /\ Contradicted \in AlignClaim /\ Contradicted \in GapClaim
    /\ \A v \in Spreads : Known(v) \in AlignClaim
    /\ \A v \in Int : Known(v) \in GapClaim
<1>1. \A why \in Reasons : Unknown(why) \in NotKnown
  BY DEF Unknown, NotKnown
<1>2. "UNSUPPORTED" \in Reasons /\ "CONTRADICTED" \in Reasons
  BY DEF Reasons
<1>3. /\ \A v \in Spreads : Known(v) \in AlignClaim
      /\ \A v \in Int : Known(v) \in GapClaim
  BY DEF Known, AlignClaim, GapClaim
<1>. QED  BY <1>1, <1>2, <1>3, Zenon DEF Contradicted, AlignClaim, GapClaim

LEMMA DeclaredType ==
    ASSUME NEW l, IsLayout(l)
    PROVE  PackingGap(l) \in Int /\ LineGap(l) \in Int
<1>1. l.gap \in Int \cup {None} /\ l.lineGap \in Int \cup {None}
  BY DEF IsLayout
<1>2. Declared(l.gap, 0) \in Int
  BY <1>1 DEF Declared
<1>3. Declared(l.lineGap, Declared(l.gap, 0)) \in Int
  <2>. DEFINE n == Declared(l.gap, 0)
  <2>. HIDE DEF n
  <2>1. n \in Int => Declared(l.lineGap, n) \in Int
    BY <1>1 DEF Declared
  <2>. QED  BY <1>2, <2>1 DEF n
<1>. QED  BY <1>2, <1>3 DEF PackingGap, LineGap

LEMMA DistributionFacts ==
    /\ \A m \in {"MIN", "CENTER", "MAX", "SPACE_BETWEEN"} :
         Distribution[m] \in Spreads
    /\ \A m \in {"MIN", "CENTER", "MAX", "SPACE_BETWEEN"} :
         Distribution[m] = "space-between" <=> m = "SPACE_BETWEEN"
<1>1. /\ Distribution["MIN"] = "start" /\ Distribution["CENTER"] = "center"
      /\ Distribution["MAX"] = "end" /\ Distribution["SPACE_BETWEEN"] = "space-between"
  BY DEF Distribution
<1>2. /\ Distribution["MIN"] \in Spreads /\ Distribution["CENTER"] \in Spreads
      /\ Distribution["MAX"] \in Spreads /\ Distribution["SPACE_BETWEEN"] \in Spreads
  BY <1>1 DEF Spreads
<1>. QED  BY <1>1, <1>2

(* containerOf: what a declared layout says, before anything is looked at. *)
LEMMA ContainerOfFacts ==
    ASSUME NEW l, IsLayout(l)
    PROVE  LET c == ContainerOf(l) IN
           /\ c.kind \in {"flex", "non-flex", "unknown"}
           /\ c.kind = "flex" =>
                /\ c \in FlexPlan
                /\ \A claim \in {c.mainAlign, c.crossAlign, c.mainGap, c.crossGap} : claim # Contradicted
                /\ c.axis = MainAxis(l)
                /\ c.mainGap = Known(PackingGap(l))
                /\ c.mainAlign = Unknown("UNSUPPORTED") \/ c.mainAlign = Known(Distribution[l.main])
                /\ c.crossGap = Unknown("UNSUPPORTED") \/ c.crossGap = Known(LineGap(l))
                /\ c.crossAlign # Known("space-between")
                /\ l.mode \in {"HORIZONTAL", "VERTICAL"}
<1>. DEFINE c == ContainerOf(l)
<1>1. CASE l.mode = "NONE"
  BY <1>1 DEF ContainerOf
<1>2. CASE l.mode # "NONE" /\ (l.mode \in {"GRID", "unknown"} \/ l.wrap = "unknown")
  BY <1>2 DEF ContainerOf
<1>3. CASE l.mode # "NONE" /\ ~(l.mode \in {"GRID", "unknown"} \/ l.wrap = "unknown")
  <2>. DEFINE main == IF l.main = "unknown" THEN Unknown("UNSUPPORTED") ELSE Known(Distribution[l.main])
              cross == IF l.cross \in {"BASELINE", "unknown"} THEN Unknown("UNSUPPORTED")
                       ELSE Known(Distribution[l.cross])
              lines == IF l.lines \in {"SPACE_BETWEEN", "unknown"} THEN Unknown("UNSUPPORTED")
                       ELSE Known(LineGap(l))
  <2>1. c = [kind |-> "flex", axis |-> MainAxis(l), wrap |-> l.wrap = "WRAP", mainAlign |-> main,
             crossAlign |-> cross, mainGap |-> Known(PackingGap(l)), crossGap |-> lines]
    BY <1>3 DEF ContainerOf
  <2>2. l.main = "unknown" \/ Distribution[l.main] \in Spreads
    BY DistributionFacts DEF IsLayout
  <2>3. l.cross \in {"BASELINE", "unknown"} \/ Distribution[l.cross] \in Spreads
    BY DistributionFacts DEF IsLayout
  <2>4. main \in AlignClaim /\ cross \in AlignClaim /\ main # Contradicted /\ cross # Contradicted
    <3>1. Unknown("UNSUPPORTED") \in AlignClaim /\ Unknown("UNSUPPORTED") # Contradicted
      BY ClaimTypes, ClaimFacts
    <3>2. l.main # "unknown" => Known(Distribution[l.main]) \in AlignClaim
      BY <2>2, ClaimTypes
    <3>3. l.cross \notin {"BASELINE", "unknown"} => Known(Distribution[l.cross]) \in AlignClaim
      BY <2>3, ClaimTypes
    <3>. QED  BY <3>1, <3>2, <3>3, ClaimFacts
  <2>5. lines \in GapClaim /\ lines # Contradicted
    <3>1. Unknown("UNSUPPORTED") \in GapClaim /\ Unknown("UNSUPPORTED") # Contradicted
      BY ClaimTypes, ClaimFacts
    <3>2. Known(LineGap(l)) \in GapClaim
      BY DeclaredType, ClaimTypes
    <3>. QED  BY <3>1, <3>2, ClaimFacts
  <2>6. Known(PackingGap(l)) \in GapClaim /\ Known(PackingGap(l)) # Contradicted
    BY DeclaredType, ClaimTypes, ClaimFacts
  <2>7. MainAxis(l) \in Axes /\ l.mode \in {"HORIZONTAL", "VERTICAL"}
    BY <1>3 DEF MainAxis, Axes, IsLayout
  <2>8. main = Unknown("UNSUPPORTED") \/ main = Known(Distribution[l.main])
    OBVIOUS
  <2>9. lines = Unknown("UNSUPPORTED") \/ lines = Known(LineGap(l))
    OBVIOUS
  <2>11. cross # Known("space-between")
    <3>1. l.cross \notin {"BASELINE", "unknown"} => Distribution[l.cross] # "space-between"
      <4>1. l.cross \in {"MIN", "CENTER", "MAX", "BASELINE", "unknown"}
        BY DEF IsLayout
      <4>. QED  BY <4>1, DistributionFacts
    <3>2. Unknown("UNSUPPORTED").known = FALSE
      BY ClaimFacts
    <3>. QED  BY <3>1, <3>2, ClaimFacts
  <2>. HIDE DEF main, cross, lines, c
  <2>10. c \in FlexPlan
    BY <2>1, <2>4, <2>5, <2>6, <2>7 DEF FlexPlan
  <2>. QED  BY <2>1, <2>4, <2>5, <2>6, <2>7, <2>8, <2>9, <2>10, <2>11 DEF c
<1>. QED  BY <1>1, <1>2, <1>3

-----------------------------------------------------------------------------
(* reviewStack: the three comparisons, and what they make of the claims.   *)

Even(plan) == plan.mainAlign = Known("space-between")

OriginFails(o, plan, flow) ==
    LET line == Reading(flow) IN
    /\ plan.mainAlign.known
    /\ IF Even(plan) THEN ~Fits(line, o, plan.axis, "space-between", 0)
       ELSE ~SpanHolds(line, o, plan.axis, plan.mainAlign.value)

GapFails(plan, flow) ==
    LET line == Reading(flow) IN
    ~Even(plan) /\ ~(Len(line) < 2) /\ ~GapHolds(line, plan.axis, plan.mainGap.value)

CrossFails(o, plan, flow) ==
    LET line == Reading(flow) IN
    plan.crossAlign.known /\ ~CrossHolds(line, o, Across(plan.axis), plan.crossAlign.value)

Compared(o, flow) ==
    flow # <<>> /\ doc.box[o] # None /\ \A k \in DOMAIN flow : Measurable(flow[k])

(* The facts about a review that later proofs need.                        *)
LEMMA StackReview ==
    ASSUME NEW o, NEW flow, NEW plan \in FlexPlan,
           \A claim \in {plan.mainAlign, plan.crossAlign, plan.mainGap, plan.crossGap} : claim # Contradicted
    PROVE  LET r == ReviewStack(o, plan, flow) IN
           /\ r.plan \in FlexPlan /\ r.plan.kind = "flex" /\ r.plan.wrap = plan.wrap /\ r.plan.axis = plan.axis
           /\ r.wrap = None
           /\ r.broken # {} <=> Contradicted \in {r.plan.mainAlign, r.plan.crossAlign, r.plan.mainGap, r.plan.crossGap}
           /\ r.broken # {} => OriginFails(o, plan, flow) \/ GapFails(plan, flow) \/ CrossFails(o, plan, flow)
           /\ flow # <<>> =>
                /\ r.plan.mainAlign.known =>
                     Compared(o, flow) /\ ~OriginFails(o, plan, flow) /\ r.plan.mainAlign = plan.mainAlign
                /\ r.plan.mainGap.known =>
                     /\ Compared(o, flow) /\ ~(Len(Reading(flow)) < 2) /\ ~GapFails(plan, flow)
                     /\ Even(plan) => ~OriginFails(o, plan, flow) /\ r.plan.mainAlign = plan.mainAlign
                     /\ r.plan.mainGap = plan.mainGap
                /\ r.plan.crossAlign.known =>
                     Compared(o, flow) /\ ~CrossFails(o, plan, flow) /\ r.plan.crossAlign = plan.crossAlign
<1>. DEFINE r == ReviewStack(o, plan, flow)
            origin == OriginFails(o, plan, flow)
            gap == GapFails(plan, flow)
            cross == CrossFails(o, plan, flow)
            lonely == Len(Reading(flow)) < 2
            even == Even(plan)
<1>0. /\ plan.kind = "flex" /\ plan.axis \in Axes /\ plan.wrap \in BOOLEAN
      /\ plan.mainAlign \in AlignClaim /\ plan.crossAlign \in AlignClaim
      /\ plan.mainGap \in GapClaim /\ plan.crossGap \in GapClaim
  BY DEF FlexPlan
<1>1. CASE flow = <<>>
  <2>1. r = Reviewed(plan, {})
    BY <1>1 DEF ReviewStack
  <2>2. r.plan = plan /\ r.wrap = None /\ r.broken = {}
    BY <2>1 DEF Reviewed
  <2>. HIDE DEF r
  <2>. QED  BY <1>0, <1>1, <2>2 DEF r
<1>2. CASE flow # <<>> /\ ~Compared(o, flow)
  <2>1. doc.box[o] = None \/ \E k \in DOMAIN flow : ~Measurable(flow[k])
    BY <1>2 DEF Compared
  <2>. DEFINE p == [plan EXCEPT !.mainAlign = Demote(@, "MISSING"),
                                !.crossAlign = Demote(@, "MISSING"),
                                !.mainGap = Demote(@, "MISSING")]
  <2>2. r = Reviewed(p, {})
    BY <1>2, <2>1 DEF ReviewStack
  <2>3. r.plan = p /\ r.wrap = None /\ r.broken = {}
    BY <2>2 DEF Reviewed
  <2>4. /\ \A c \in AlignClaim : /\ Demote(c, "MISSING") \in AlignClaim /\ ~Demote(c, "MISSING").known
                                 /\ c # Contradicted => Demote(c, "MISSING") # Contradicted
        /\ \A c \in GapClaim : /\ Demote(c, "MISSING") \in GapClaim /\ ~Demote(c, "MISSING").known
                               /\ c # Contradicted => Demote(c, "MISSING") # Contradicted
    <3>1. "MISSING" \in Reasons
      BY DEF Reasons
    <3>2. Unknown("MISSING") \in AlignClaim /\ Unknown("MISSING") \in GapClaim
      BY <3>1, ClaimTypes
    <3>3. \A c \in AlignClaim \cup GapClaim : c.known \in BOOLEAN
      BY DEF AlignClaim, GapClaim, NotKnown
    <3>. QED  BY <3>2, <3>3, ClaimFacts DEF Demote
  <2>6. Demote(plan.mainAlign, "MISSING") \in AlignClaim /\ Demote(plan.crossAlign, "MISSING") \in AlignClaim
        /\ Demote(plan.mainGap, "MISSING") \in GapClaim
    BY <1>0, <2>4
  <2>7. /\ p \in FlexPlan
        /\ p.mainAlign = Demote(plan.mainAlign, "MISSING") /\ p.crossAlign = Demote(plan.crossAlign, "MISSING")
        /\ p.mainGap = Demote(plan.mainGap, "MISSING") /\ p.crossGap = plan.crossGap
        /\ p.kind = "flex" /\ p.wrap = plan.wrap /\ p.axis = plan.axis
    BY <2>6 DEF FlexPlan
  <2>. HIDE DEF r, p
  <2>8. ~p.mainAlign.known /\ ~p.crossAlign.known /\ ~p.mainGap.known
        /\ Contradicted \notin {p.mainAlign, p.crossAlign, p.mainGap, p.crossGap}
    BY <1>0, <2>4, <2>7
  <2>. QED  BY <1>2, <2>3, <2>7, <2>8 DEF r
<1>3. CASE Compared(o, flow)
  <2>. DEFINE main == IF origin THEN Contradicted ELSE plan.mainAlign
              across == IF cross THEN Contradicted ELSE plan.crossAlign
              between == IF lonely THEN Unknown("GAP_UNOBSERVED")
                         ELSE IF gap \/ (even /\ origin) THEN Contradicted ELSE plan.mainGap
              p == [plan EXCEPT !.mainAlign = main, !.crossAlign = across, !.mainGap = between]
              broken == {x \in {"origin", "gap", "cross"} :
                           CASE x = "origin" -> origin [] x = "gap" -> gap [] x = "cross" -> cross}
  <2>1. flow # <<>> /\ ~(doc.box[o] = None \/ \E k \in DOMAIN flow : ~Measurable(flow[k]))
    BY <1>3 DEF Compared
  <2>2. r = Reviewed(p, broken)
    BY <2>1 DEF ReviewStack, OriginFails, GapFails, CrossFails, Even, Contradicted
  <2>3. r.plan = p /\ r.wrap = None /\ r.broken = broken
    <3>. HIDE DEF r, p, broken
    <3>. QED  BY <2>2 DEF Reviewed
  <2>5. broken # {} <=> origin \/ gap \/ cross
    <3>1. "origin" \in broken <=> origin
      OBVIOUS
    <3>2. "gap" \in broken <=> gap
      OBVIOUS
    <3>3. "cross" \in broken <=> cross
      OBVIOUS
    <3>4. broken \subseteq {"origin", "gap", "cross"}
      OBVIOUS
    <3>. HIDE DEF broken
    <3>. QED  BY <3>1, <3>2, <3>3, <3>4
  <2>6. "GAP_UNOBSERVED" \in Reasons
    BY DEF Reasons
  <2>7. Unknown("GAP_UNOBSERVED") \in GapClaim
    BY <2>6, ClaimTypes
  <2>8. main \in AlignClaim /\ across \in AlignClaim /\ between \in GapClaim
    BY <1>0, <2>7, ClaimTypes
  <2>9. gap => ~even /\ ~lonely
    BY DEF GapFails
  <2>10. Contradicted.known = FALSE
    BY ClaimFacts DEF Contradicted
  <2>11. Unknown("GAP_UNOBSERVED").known = FALSE /\ Unknown("GAP_UNOBSERVED") # Contradicted
    BY ClaimFacts
  <2>12. main.known => ~origin /\ main = plan.mainAlign
    BY <2>10
  <2>13. across.known => ~cross /\ across = plan.crossAlign
    BY <2>10
  <2>14. between.known => ~lonely /\ ~gap /\ (even => ~origin /\ main = plan.mainAlign) /\ between = plan.mainGap
    BY <2>10, <2>11
  <2>15. Contradicted \in {main, across, between, plan.crossGap} <=> origin \/ gap \/ cross
    BY <2>9, <2>11
  <2>. HIDE DEF r, broken, main, across, between
  <2>17. /\ p \in FlexPlan
         /\ p.mainAlign = main /\ p.crossAlign = across /\ p.mainGap = between /\ p.crossGap = plan.crossGap
         /\ p.kind = "flex" /\ p.wrap = plan.wrap /\ p.axis = plan.axis
    BY <2>8 DEF FlexPlan
  <2>. HIDE DEF p
  <2>. HIDE DEF origin, gap, cross, even, lonely
  <2>18. r.broken # {} <=> Contradicted \in {r.plan.mainAlign, r.plan.crossAlign, r.plan.mainGap, r.plan.crossGap}
    BY <2>3, <2>5, <2>15, <2>17
  <2>. QED  BY <1>3, <2>3, <2>5, <2>12, <2>13, <2>14, <2>17, <2>18 DEF r, origin, gap, cross, even, lonely
<1>. QED  BY <1>1, <1>2, <1>3

-----------------------------------------------------------------------------
(* wrapOf: the same for a row that wraps.                                  *)

Rows(o, flow) == ObservedRows(o, Reading(flow))
WrapLines(o, flow) == [i \in DOMAIN Rows(o, flow) |-> Rows(o, flow)[i].items]
Width(flow) == Size(flow[1], "h")
Gap(o) == PackingGap(doc.layout[o])
RowCapacity(o, flow) == Capacity(o, Width(flow), Gap(o))
LastRow(o, flow) == WrapLines(o, flow)[Len(WrapLines(o, flow))]

Open(o, flow, full) == full = "space-between" /\ Len(LastRow(o, flow)) < RowCapacity(o, flow)
LastSurvivors(o, flow) == Survivors(LastRow(o, flow), o, Width(flow), Gap(o))

Members(o, flow) == WrapLines(o, flow) = PredictedRows(Reading(flow), RowCapacity(o, flow))
InlineHolds(o, flow, full) ==
    Inline(WrapLines(o, flow), o, Width(flow), full, Gap(o), Open(o, flow, full), LastSurvivors(o, flow))
LinesHold(o, flow) ==
    \A i \in DOMAIN Rows(o, flow) :
        Near(Rows(o, flow)[i].y, (i - 1) * (Size(flow[1], "v") + LineGap(doc.layout[o])))

Partial(o, flow, full) == PartialRow(Open(o, flow, full), full, LastSurvivors(o, flow))

LEMMA WrapRuleUnfolded ==
    ASSUME NEW o, NEW flow, NEW plan
    PROVE  WrapRule(o, plan, flow)
             = Rule(o, flow[1], plan.mainAlign.value, WrapLines(o, flow), Partial(o, flow, plan.mainAlign.value),
                    Members(o, flow), InlineHolds(o, flow, plan.mainAlign.value), LinesHold(o, flow))
  BY DEF WrapRule, RowsRule, Rows, WrapLines, Width, Gap, RowCapacity, LastRow, Open, LastSurvivors,
         Members, InlineHolds, LinesHold, Partial

Ruled(o, plan, flow) ==
    LET rule == WrapRule(o, plan, flow)
    IN Plan(plan, rule.full, rule.packingGap, rule.lineGap, rule.broken, rule)

LEMMA WrapReview ==
    ASSUME NEW o, IsLayout(doc.layout[o]), NEW flow, NEW plan \in FlexPlan, plan.mainAlign.known,
           \A claim \in {plan.mainAlign, plan.crossAlign, plan.mainGap, plan.crossGap} : claim # Contradicted
    PROVE  LET rule == WrapRule(o, plan, flow)
               full == plan.mainAlign.value
               r == Ruled(o, plan, flow)
           IN /\ r.plan \in FlexPlan /\ r.plan.kind = "flex" /\ r.plan.wrap = plan.wrap /\ r.plan.axis = plan.axis
              /\ r.wrap = rule
              /\ r.broken # {} <=> Contradicted \in {r.plan.mainAlign, r.plan.crossAlign, r.plan.mainGap, r.plan.crossGap}
              /\ r.broken # {} <=> ~(Members(o, flow) /\ InlineHolds(o, flow, full) /\ LinesHold(o, flow))
              /\ rule.track = Known([h |-> Width(flow), v |-> Size(flow[1], "v")])
              /\ r.plan.mainGap.known =>
                   /\ Members(o, flow) /\ InlineHolds(o, flow, full)
                   /\ rule.packingGap = Known(Gap(o)) /\ rule.full = Known(full)
                   /\ rule.partial = Partial(o, flow, full)
              /\ r.plan.crossGap.known =>
                   Members(o, flow) /\ LinesHold(o, flow) /\ rule.lineGap = Known(LineGap(doc.layout[o]))
<1>. DEFINE rule == WrapRule(o, plan, flow)
            full == plan.mainAlign.value
            members == Members(o, flow)
            inline == InlineHolds(o, flow, full)
            cross == LinesHold(o, flow)
            r == Plan(plan, rule.full, rule.packingGap, rule.lineGap, rule.broken, rule)
<1>0. r = Ruled(o, plan, flow)
  BY DEF Ruled
<1>1. /\ plan.axis \in Axes /\ plan.wrap \in BOOLEAN /\ plan.crossAlign \in AlignClaim
      /\ plan.mainAlign \in AlignClaim
  BY DEF FlexPlan
<1>2. full \in Spreads
  BY <1>1 DEF AlignClaim, NotKnown
<1>3. members \in BOOLEAN /\ inline \in BOOLEAN /\ cross \in BOOLEAN
  BY DEF Members, InlineHolds, Inline, LinesHold
<1>4. rule = Rule(o, flow[1], full, WrapLines(o, flow), Partial(o, flow, full), members, inline, cross)
  BY WrapRuleUnfolded
<1>. HIDE DEF rule, members, inline, cross, full
<1>5. /\ rule.track = Known([h |-> Width(flow), v |-> Size(flow[1], "v")])
      /\ members /\ inline => /\ rule.packingGap = Known(Gap(o)) /\ rule.full = Known(full)
                              /\ rule.partial = Partial(o, flow, full)
      /\ ~(members /\ inline) => rule.packingGap = Contradicted /\ rule.full = Contradicted
      /\ members /\ cross => rule.lineGap = Known(LineGap(doc.layout[o]))
      /\ ~(members /\ cross) => rule.lineGap = Contradicted
      /\ rule.broken # {} <=> ~(members /\ inline /\ cross)
  <2>. DEFINE broken == {x \in {"membership", "inline", "cross"} :
                           CASE x = "membership" -> ~members
                             [] x = "inline"     -> members /\ ~inline
                             [] x = "cross"      -> members /\ ~cross}
  <2>1. \A v : Demote(Known(v), "CONTRADICTED") = Contradicted
    BY ClaimFacts DEF Demote, Contradicted
  <2>2. /\ rule.track = Known([h |-> Width(flow), v |-> Size(flow[1], "v")])
        /\ rule.packingGap = IF members /\ inline THEN Known(Gap(o)) ELSE Demote(Known(Gap(o)), "CONTRADICTED")
        /\ rule.full = IF members /\ inline THEN Known(full) ELSE Demote(Known(full), "CONTRADICTED")
        /\ members /\ inline => rule.partial = Partial(o, flow, full)
        /\ rule.lineGap = IF members /\ cross THEN Known(LineGap(doc.layout[o]))
                          ELSE Demote(Known(LineGap(doc.layout[o])), "CONTRADICTED")
        /\ rule.broken = broken
    BY <1>4 DEF Rule, Gap, Width
  <2>3. broken # {} <=> ~(members /\ inline /\ cross)
    <3>1. ("membership" \in broken <=> ~members) /\ ("inline" \in broken <=> members /\ ~inline)
          /\ ("cross" \in broken <=> members /\ ~cross)
      OBVIOUS
    <3>2. broken \subseteq {"membership", "inline", "cross"}
      OBVIOUS
    <3>. HIDE DEF broken
    <3>. QED  BY <3>1, <3>2
  <2>. HIDE DEF broken
  <2>. QED  BY <2>1, <2>2, <2>3
<1>6. rule.full \in AlignClaim /\ rule.packingGap \in GapClaim /\ rule.lineGap \in GapClaim
  <2>1. Known(Gap(o)) \in GapClaim /\ Known(LineGap(doc.layout[o])) \in GapClaim
    BY DeclaredType, ClaimTypes DEF Gap
  <2>2. Known(full) \in AlignClaim /\ Contradicted \in AlignClaim /\ Contradicted \in GapClaim
    BY <1>2, ClaimTypes
  <2>. QED  BY <1>5, <2>1, <2>2
<1>7. /\ r.wrap = rule /\ r.broken = rule.broken
      /\ r.plan \in FlexPlan /\ r.plan.kind = "flex" /\ r.plan.wrap = plan.wrap /\ r.plan.axis = plan.axis
      /\ r.plan.mainAlign = rule.full /\ r.plan.mainGap = rule.packingGap /\ r.plan.crossGap = rule.lineGap
      /\ r.plan.crossAlign = plan.crossAlign
  BY <1>6 DEF FlexPlan, Plan
<1>. HIDE DEF r
<1>8. Contradicted.known = FALSE /\ \A v : Known(v).known = TRUE /\ Known(v) # Contradicted
  BY ClaimFacts DEF Contradicted
<1>9. r.broken # {} <=> Contradicted \in {r.plan.mainAlign, r.plan.crossAlign, r.plan.mainGap, r.plan.crossGap}
  BY <1>5, <1>7, <1>8
<1>10. r.plan.mainGap.known => members /\ inline
  BY <1>5, <1>7, <1>8
<1>11. r.plan.crossGap.known => members /\ cross
  BY <1>5, <1>7, <1>8
<1>12. r.plan.mainGap.known => /\ rule.packingGap = Known(Gap(o)) /\ rule.full = Known(full)
                               /\ rule.partial = Partial(o, flow, full)
  BY <1>5, <1>10
<1>13. r.plan.crossGap.known => rule.lineGap = Known(LineGap(doc.layout[o]))
  BY <1>5, <1>11
<1>14. rule.track = Known([h |-> Width(flow), v |-> Size(flow[1], "v")])
  BY <1>5
<1>15. r.broken # {} <=> ~(members /\ inline /\ cross)
  BY <1>5, <1>7
<1>. QED  BY <1>0, <1>7, <1>9, <1>10, <1>11, <1>12, <1>13, <1>14, <1>15 DEF rule, full, members, inline, cross

-----------------------------------------------------------------------------
(* projectWeb: the plan of a node.                                         *)

AlignmentClaims(c) == {c.mainAlign, c.crossAlign, c.mainGap, c.crossGap}

Withholds(c, why) == ~c.mainAlign.known /\ ~c.mainGap.known /\ ~c.crossGap.known

LEMMA WithheldFacts ==
    ASSUME NEW plan \in FlexPlan, NEW why \in {"DEPTH_LIMIT", "UNSUPPORTED"}, Contradicted # plan.crossAlign
    PROVE  LET r == Withheld(plan, why) IN
           /\ r.plan \in FlexPlan /\ r.plan.kind = "flex" /\ r.plan.wrap = plan.wrap /\ r.plan.axis = plan.axis
           /\ r.wrap = None /\ r.broken = {}
           /\ Contradicted \notin AlignmentClaims(r.plan)
           /\ ~r.plan.mainAlign.known /\ ~r.plan.mainGap.known /\ ~r.plan.crossGap.known
<1>1. why \in Reasons /\ Unknown(why) # Contradicted /\ Unknown(why).known = FALSE
  BY ClaimFacts DEF Reasons
<1>2. Unknown(why) \in AlignClaim /\ Unknown(why) \in GapClaim
  BY <1>1, ClaimTypes
<1>. DEFINE u == Unknown(why)
            r == Plan(plan, u, u, u, {}, None)
<1>3. Withheld(plan, why) = r
  BY DEF Withheld
<1>. HIDE DEF u
<1>4. u \in AlignClaim /\ u \in GapClaim /\ u # Contradicted /\ u.known = FALSE
  BY <1>1, <1>2 DEF u
<1>5. /\ r.plan \in FlexPlan /\ r.plan.kind = "flex" /\ r.plan.wrap = plan.wrap /\ r.plan.axis = plan.axis
      /\ r.wrap = None /\ r.broken = {}
      /\ r.plan.mainAlign = u /\ r.plan.mainGap = u /\ r.plan.crossGap = u /\ r.plan.crossAlign = plan.crossAlign
  BY <1>4 DEF Plan, FlexPlan
<1>. HIDE DEF r
<1>. QED  BY <1>3, <1>4, <1>5 DEF AlignmentClaims

(* What a review does to a container plan: it keeps its kind, and it       *)
(* breaks something exactly if it marks a claim as contradicted.           *)
LEMMA ReviewFacts ==
    ASSUME NEW o, IsLayout(doc.layout[o]), NEW flow
    PROVE  LET c == ContainerOf(doc.layout[o])
               r == ContainerReview(o, c, flow)
           IN /\ r.plan.kind = c.kind
              /\ r.broken # {} <=> r.plan.kind = "flex" /\ Contradicted \in AlignmentClaims(r.plan)
<1>. DEFINE c == ContainerOf(doc.layout[o])
            r == ContainerReview(o, c, flow)
<1>1. CASE c.kind # "flex"
  <2>1. r = Reviewed(c, {})
    BY <1>1 DEF ContainerReview
  <2>2. r.plan = c /\ r.broken = {}
    <3>. HIDE DEF r, c
    <3>. QED  BY <2>1 DEF Reviewed
  <2>. QED  BY <1>1, <2>2
<1>2. CASE c.kind = "flex"
  <2>1. /\ c \in FlexPlan
        /\ \A claim \in {c.mainAlign, c.crossAlign, c.mainGap, c.crossGap} : claim # Contradicted
    BY <1>2, ContainerOfFacts
  <2>2. CASE o \in Incomplete
    <3>1. r = Withheld(c, "DEPTH_LIMIT")
      BY <1>2, <2>2 DEF ContainerReview
    <3>. HIDE DEF r, c
    <3>2. r.plan.kind = "flex" /\ r.broken = {} /\ Contradicted \notin AlignmentClaims(r.plan)
      BY <2>1, <3>1, WithheldFacts
    <3>. QED  BY <1>2, <3>2 DEF r, c
  <2>3. CASE o \notin Incomplete /\ ~c.wrap
    <3>1. r = ReviewStack(o, c, flow)
      BY <1>2, <2>3 DEF ContainerReview
    <3>. HIDE DEF r, c
    <3>2. r.plan.kind = "flex" /\ (r.broken # {} <=> Contradicted \in AlignmentClaims(r.plan))
      BY <2>1, <3>1, StackReview DEF AlignmentClaims
    <3>. QED  BY <1>2, <3>2 DEF r, c
  <2>4. CASE o \notin Incomplete /\ c.wrap /\ ~WrapEligible(o, c, flow)
    <3>1. r = Withheld(c, "UNSUPPORTED")
      BY <1>2, <2>4 DEF ContainerReview
    <3>. HIDE DEF r, c
    <3>2. r.plan.kind = "flex" /\ r.broken = {} /\ Contradicted \notin AlignmentClaims(r.plan)
      BY <2>1, <3>1, WithheldFacts
    <3>. QED  BY <1>2, <3>2 DEF r, c
  <2>5. CASE o \notin Incomplete /\ c.wrap /\ WrapEligible(o, c, flow)
    <3>1. r = Ruled(o, c, flow)
      BY <1>2, <2>5 DEF ContainerReview, Ruled
    <3>2. c.mainAlign.known
      BY <2>5 DEF WrapEligible
    <3>. HIDE DEF r, c
    <3>3. r.plan.kind = "flex" /\ (r.broken # {} <=> Contradicted \in AlignmentClaims(r.plan))
      BY <2>1, <3>1, <3>2, WrapReview DEF AlignmentClaims
    <3>. QED  BY <1>2, <3>3 DEF r, c
  <2>. QED  BY <2>2, <2>3, <2>4, <2>5
<1>. QED  BY <1>1, <1>2

Siblings(v) == IF v.parent = NoParent THEN <<>> ELSE Flow(v.parent)
ReviewOf(v) == ContainerReview(v.at, ContainerOf(doc.layout[v.at]), Flow(v.at))

LEMMA PlanUnfolded ==
    ASSUME NEW v
    PROVE  /\ PlanOf(v).at = v.at
           /\ PlanOf(v).container = ReviewOf(v).plan
           /\ PlanOf(v).broken = ReviewOf(v).broken
           /\ PlanOf(v).wrap = ReviewOf(v).wrap
           /\ PlanOf(v).size = [axis \in Axes |-> ReviewedAxis(v.at, v.parent, axis, Siblings(v))]
  BY DEF PlanOf, ReviewOf, Siblings

LEMMA AxisPlanTypes ==
    ASSUME NEW o, NEW p, NEW axis, NEW siblings
    PROVE  ReviewedAxis(o, p, axis, siblings) \in Plans
<1>1. AxisPlan(o, p, axis) \in Plans
  BY DEF AxisPlan, Plans
<1>. QED  BY <1>1 DEF ReviewedAxis, Plans

LEMMA PlanTypes ==
    ASSUME NEW v, IsLayout(doc.layout[v.at])
    PROVE  /\ PlanOf(v).at = v.at
           /\ PlanOf(v).container.kind \in {"flex", "non-flex", "unknown"}
           /\ PlanOf(v).size \in [Axes -> Plans]
<1>1. PlanOf(v).at = v.at /\ PlanOf(v).container = ReviewOf(v).plan
  BY PlanUnfolded
<1>2. ReviewOf(v).plan.kind = ContainerOf(doc.layout[v.at]).kind
  BY ReviewFacts DEF ReviewOf
<1>3. ContainerOf(doc.layout[v.at]).kind \in {"flex", "non-flex", "unknown"}
  BY ContainerOfFacts
<1>4. PlanOf(v).size \in [Axes -> Plans]
  <2>1. \A axis \in Axes : ReviewedAxis(v.at, v.parent, axis, Siblings(v)) \in Plans
    BY AxisPlanTypes
  <2>. QED  BY <2>1, PlanUnfolded
<1>. QED  BY <1>1, <1>2, <1>3, <1>4

(* A claim of a plan is contradicted exactly if the plan breaks something. *)
SaysContradicted(p) ==
    \/ p.container.kind = "flex" /\ Contradicted \in AlignmentClaims(p.container)
    \/ \E axis \in Axes : p.size[axis] = "contradicted"

LEMMA PlanIsLoud ==
    ASSUME NEW v, IsLayout(doc.layout[v.at])
    PROVE  Broken(PlanOf(v)) # {} <=> SaysContradicted(PlanOf(v))
<1>. DEFINE p == PlanOf(v)
<1>1. p.broken # {} <=> p.container.kind = "flex" /\ Contradicted \in AlignmentClaims(p.container)
  <2>1. p.broken = ReviewOf(v).broken /\ p.container = ReviewOf(v).plan
    BY PlanUnfolded
  <2>2. ReviewOf(v).broken # {} <=>
          ReviewOf(v).plan.kind = "flex" /\ Contradicted \in AlignmentClaims(ReviewOf(v).plan)
    BY ReviewFacts DEF ReviewOf
  <2>. HIDE DEF p
  <2>. QED  BY <2>1, <2>2
<1>. HIDE DEF p
<1>2. Broken(p) # {} <=> p.broken # {} \/ \E axis \in Axes : p.size[axis] = "contradicted"
  BY DEF Broken
<1>. QED  BY <1>1, <1>2 DEF SaysContradicted, p

-----------------------------------------------------------------------------
(* Lists in order.                                                         *)

(* A list that puts every element of S where its rank says.                *)
IsRanking(s, R, S) ==
    /\ s = [k \in 1..Cardinality(S) |-> s[k]]
    /\ \A k \in 1..Cardinality(S) : s[k] \in S /\ Place(R, S, s[k]) = k - 1

LEMMA Ranked ==
    ASSUME NEW S, IsFiniteSet(S), NEW R, IsStrictOrder(R, S), NEW s, IsRanking(s, R, S)
    PROVE  /\ Cardinality(S) \in Nat
           /\ s \in Seq(S) /\ Len(s) = Cardinality(S) /\ DOMAIN s = 1..Cardinality(S)
           /\ \A x \in S : \E k \in DOMAIN s : s[k] = x
           /\ \A j, k \in DOMAIN s : s[j] = s[k] => j = k
           /\ \A j, k \in DOMAIN s : j < k => <<s[j], s[k]>> \in R
<1>. DEFINE n == Cardinality(S)
<1>0. s = [k \in 1..n |-> s[k]] /\ \A k \in 1..n : s[k] \in S /\ Place(R, S, s[k]) = k - 1
  BY DEF IsRanking
<1>1. n \in Nat /\ {Place(R, S, x) : x \in S} = 0..(n - 1)
  BY PlacesAreTheNumbers
<1>2. s \in Seq(S) /\ Len(s) = n /\ DOMAIN s = 1..n
  BY <1>0, <1>1
<1>3. \A j, k \in DOMAIN s : s[j] = s[k] => j = k
  <2>. SUFFICES ASSUME NEW j \in 1..n, NEW k \in 1..n, s[j] = s[k]  PROVE j = k
    BY <1>2
  <2>1. j - 1 = k - 1
    BY <1>0
  <2>. QED  BY <1>1, <2>1
<1>4. \A x, y \in S : Place(R, S, x) = Place(R, S, y) => x = y
  <2>. SUFFICES ASSUME NEW x \in S, NEW y \in S, x # y  PROVE Place(R, S, x) # Place(R, S, y)
    OBVIOUS
  <2>1. <<x, y>> \in R \/ <<y, x>> \in R
    BY DEF IsStrictOrder
  <2>2. Place(R, S, x) \in Int /\ Place(R, S, y) \in Int
    BY <1>1
  <2>3. CASE <<x, y>> \in R
    BY <2>2, <2>3, PlacesGrow
  <2>4. CASE <<y, x>> \in R
    BY <2>2, <2>4, PlacesGrow
  <2>. QED  BY <2>1, <2>3, <2>4
<1>5. \A x \in S : \E k \in DOMAIN s : s[k] = x
  <2>. SUFFICES ASSUME NEW x \in S  PROVE \E k \in 1..n : s[k] = x
    BY <1>2
  <2>1. Place(R, S, x) \in 0..(n - 1)
    BY <1>1
  <2>2. Place(R, S, x) + 1 \in 1..n /\ (Place(R, S, x) + 1) - 1 = Place(R, S, x)
    BY <1>1, <2>1
  <2>. QED  BY <1>0, <1>4, <2>2
<1>6. \A j, k \in DOMAIN s : j < k => <<s[j], s[k]>> \in R
  <2>. SUFFICES ASSUME NEW j \in 1..n, NEW k \in 1..n, j < k  PROVE <<s[j], s[k]>> \in R
    BY <1>2
  <2>1. s[j] \in S /\ s[k] \in S /\ s[j] # s[k]
    BY <1>0, <1>1, <1>2, <1>3
  <2>2. <<s[j], s[k]>> \in R \/ <<s[k], s[j]>> \in R
    BY <2>1 DEF IsStrictOrder
  <2>3. ASSUME <<s[k], s[j]>> \in R  PROVE FALSE
    <3>1. Place(R, S, s[k]) < Place(R, S, s[j])
      BY <2>1, <2>3, PlacesGrow
    <3>2. Place(R, S, s[k]) = k - 1 /\ Place(R, S, s[j]) = j - 1
      BY <1>0
    <3>. QED  BY <1>1, <3>1, <3>2
  <2>. QED  BY <2>2, <2>3
<1>. QED  BY <1>1, <1>2, <1>3, <1>5, <1>6

LEMMA NumbersInOrder ==
    ASSUME NEW S, S \subseteq Int, IsFiniteSet(S)
    PROVE  LET s == InOrder(S, <) IN
           /\ Cardinality(S) \in Nat
           /\ s \in Seq(S) /\ Len(s) = Cardinality(S) /\ DOMAIN s = 1..Cardinality(S)
           /\ \A x \in S : \E k \in DOMAIN s : s[k] = x
           /\ \A j, k \in DOMAIN s : s[j] = s[k] => j = k
           /\ \A j, k \in DOMAIN s : j < k => s[j] < s[k]
<1>. DEFINE s == InOrder(S, <)
            n == Cardinality(S)
            R == {p \in S \X S : p[1] < p[2]}
            before(x) == {y \in S : y < x}
<1>1. IsStrictOrder(R, S)
  <2>1. \A x, y \in S : <<x, y>> \in R <=> x < y
    OBVIOUS
  <2>2. \A x, y, z \in S : ~(x < x) /\ (x = y \/ x < y \/ y < x) /\ (x < y /\ y < z => x < z)
    OBVIOUS
  <2>3. R \subseteq S \X S
    OBVIOUS
  <2>. HIDE DEF R
  <2>. QED  BY <2>1, <2>2, <2>3 DEF IsStrictOrder
<1>2. \A x \in S : Place(R, S, x) = Cardinality(before(x))
  <2>. SUFFICES ASSUME NEW x \in S  PROVE Place(R, S, x) = Cardinality(before(x))
    OBVIOUS
  <2>1. {y \in S : <<y, x>> \in R} = before(x)
    OBVIOUS
  <2>. QED  BY <2>1 DEF Place
<1>3. n \in Nat /\ {Place(R, S, x) : x \in S} = 0..(n - 1)
  BY <1>1, PlacesAreTheNumbers
<1>4. s = [k \in 1..n |-> CHOOSE x \in S : Cardinality(before(x)) = k - 1]
  BY DEF InOrder
<1>5. \A k \in 1..n : s[k] \in S /\ Place(R, S, s[k]) = k - 1
  <2>. SUFFICES ASSUME NEW k \in 1..n  PROVE s[k] \in S /\ Place(R, S, s[k]) = k - 1
    OBVIOUS
  <2>1. k - 1 \in 0..(n - 1)
    BY <1>3
  <2>2. \E x \in S : Place(R, S, x) = k - 1
    BY <1>3, <2>1
  <2>3. \E x \in S : Cardinality(before(x)) = k - 1
    BY <1>2, <2>2
  <2>4. s[k] = CHOOSE x \in S : Cardinality(before(x)) = k - 1
    BY <1>4
  <2>. HIDE DEF before, s, R
  <2>5. s[k] \in S /\ Cardinality(before(s[k])) = k - 1
    BY <2>3, <2>4
  <2>. QED  BY <1>2, <2>5
<1>6. IsRanking(s, R, S)
  BY <1>4, <1>5 DEF IsRanking
<1>7. \A x, y \in S : <<x, y>> \in R => x < y
  OBVIOUS
<1>. HIDE DEF s, R, before
<1>8. /\ n \in Nat /\ s \in Seq(S) /\ Len(s) = n /\ DOMAIN s = 1..n
      /\ \A x \in S : \E k \in DOMAIN s : s[k] = x
      /\ \A j, k \in DOMAIN s : s[j] = s[k] => j = k
      /\ \A j, k \in DOMAIN s : j < k => <<s[j], s[k]>> \in R
  BY <1>1, <1>6, Ranked
<1>9. \A j, k \in DOMAIN s : j < k => s[j] < s[k]
  BY <1>5, <1>7, <1>8
<1>. QED  BY <1>8, <1>9 DEF s

(* The elements of a list whose places are in K.                           *)
Kept(s, K) == [k \in DOMAIN InOrder(K, <) |-> s[InOrder(K, <)[k]]]

LEMMA KeptFacts ==
    ASSUME NEW T, NEW s \in Seq(T), NEW K \in SUBSET (DOMAIN s)
    PROVE  /\ Kept(s, K) \in Seq(T) /\ Len(Kept(s, K)) \in Nat
           /\ DOMAIN Kept(s, K) = 1..Len(Kept(s, K))
           /\ \A k \in K : \E j \in DOMAIN Kept(s, K) : Kept(s, K)[j] = s[k]
           /\ \A j \in DOMAIN Kept(s, K) : \E k \in K : Kept(s, K)[j] = s[k]
           /\ (\A j, k \in DOMAIN s : s[j] = s[k] => j = k) =>
                \A j, k \in DOMAIN Kept(s, K) : Kept(s, K)[j] = Kept(s, K)[k] => j = k
<1>. DEFINE f == InOrder(K, <)
            n == Cardinality(K)
<1>1. DOMAIN s = 1..Len(s) /\ Len(s) \in Nat /\ \A k \in DOMAIN s : s[k] \in T
  OBVIOUS
<1>2. K \subseteq Int /\ IsFiniteSet(K)
  <2>1. IsFiniteSet(DOMAIN s) /\ DOMAIN s \subseteq Int
    BY <1>1, FS_Interval
  <2>. QED  BY <2>1, FS_Subset
<1>3. /\ n \in Nat /\ f \in Seq(K) /\ Len(f) = n /\ DOMAIN f = 1..n
      /\ \A x \in K : \E k \in DOMAIN f : f[k] = x
      /\ \A j, k \in DOMAIN f : f[j] = f[k] => j = k
  BY <1>2, NumbersInOrder
<1>4. Kept(s, K) = [k \in 1..n |-> s[f[k]]]
  BY <1>3 DEF Kept
<1>. HIDE DEF f
<1>5. \A k \in 1..n : f[k] \in K /\ s[f[k]] \in T
  BY <1>1, <1>3
<1>6. Kept(s, K) \in Seq(T) /\ Len(Kept(s, K)) = n /\ DOMAIN Kept(s, K) = 1..n
  BY <1>3, <1>4, <1>5
<1>7. \A k \in K : \E j \in 1..n : Kept(s, K)[j] = s[k]
  BY <1>3, <1>4
<1>8. \A j \in 1..n : \E k \in K : Kept(s, K)[j] = s[k]
  BY <1>4, <1>5
<1>9. ASSUME \A j, k \in DOMAIN s : s[j] = s[k] => j = k
      PROVE  \A j, k \in 1..n : Kept(s, K)[j] = Kept(s, K)[k] => j = k
  <2>. SUFFICES ASSUME NEW j \in 1..n, NEW k \in 1..n, Kept(s, K)[j] = Kept(s, K)[k]  PROVE j = k
    OBVIOUS
  <2>1. s[f[j]] = s[f[k]] /\ f[j] \in DOMAIN s /\ f[k] \in DOMAIN s
    BY <1>4, <1>5
  <2>2. f[j] = f[k]
    BY <1>9, <2>1
  <2>. QED  BY <1>3, <2>2
<1>. QED  BY <1>3, <1>6, <1>7, <1>8, <1>9

-----------------------------------------------------------------------------
(* The obligations of a node.                                              *)

ClaimNames == <<"container", "h", "v", "wrap", "preserveIntrinsicCrossSize">>
ClaimSet == {"container", "h", "v", "wrap", "preserveIntrinsicCrossSize"}

LEMMA ClaimsFacts ==
    ASSUME NEW v, NEW plan
    PROVE  /\ Claims(v, plan) \in Seq(ClaimSet) /\ Len(Claims(v, plan)) \in Nat
           /\ DOMAIN Claims(v, plan) = 1..Len(Claims(v, plan))
           /\ \A j, k \in DOMAIN Claims(v, plan) : Claims(v, plan)[j] = Claims(v, plan)[k] => j = k
           /\ HugsAcross(v) =>
                \E j \in DOMAIN Claims(v, plan) : Claims(v, plan)[j] = "preserveIntrinsicCrossSize"
<1>. DEFINE decided(claim) ==
              CASE claim = "container" -> plan.container.kind # "unknown"
                [] claim = "wrap"      -> plan.wrap # None
                [] claim \in Axes      -> plan.size[claim] \notin {"unknown", "contradicted"}
                [] OTHER               -> HugsAcross(v)
            K == {k \in DOMAIN ClaimNames : decided(ClaimNames[k])}
<1>1. Claims(v, plan) = Kept(ClaimNames, K)
  BY DEF Claims, Filtered, Kept, ClaimNames
<1>2. ClaimNames \in Seq(ClaimSet) /\ DOMAIN ClaimNames = 1..5
  <2>1. DOMAIN ClaimNames = 1..5 /\ ClaimNames = [k \in 1..5 |-> ClaimNames[k]]
    BY DEF ClaimNames
  <2>2. /\ ClaimNames[1] = "container" /\ ClaimNames[2] = "h" /\ ClaimNames[3] = "v"
        /\ ClaimNames[4] = "wrap" /\ ClaimNames[5] = "preserveIntrinsicCrossSize"
    BY DEF ClaimNames
  <2>3. \A k \in 1..5 : ClaimNames[k] \in ClaimSet
    BY <2>2 DEF ClaimSet
  <2>. QED  BY <2>1, <2>3
<1>3. \A j, k \in DOMAIN ClaimNames : ClaimNames[j] = ClaimNames[k] => j = k
  BY <1>2 DEF ClaimNames
<1>4. HugsAcross(v) => 5 \in K
  BY <1>2 DEF ClaimNames, Axes
<1>5. ClaimNames[5] = "preserveIntrinsicCrossSize"
  BY DEF ClaimNames
<1>6. K \in SUBSET (DOMAIN ClaimNames)
  OBVIOUS
<1>. HIDE DEF K
<1>. DEFINE f == Kept(ClaimNames, K)
<1>7. /\ f \in Seq(ClaimSet) /\ Len(f) \in Nat
      /\ DOMAIN f = 1..Len(f)
      /\ \A k \in K : \E j \in DOMAIN f : f[j] = ClaimNames[k]
      /\ \A j, k \in DOMAIN f : f[j] = f[k] => j = k
  BY <1>2, <1>3, <1>6, KeptFacts
<1>. HIDE DEF f
<1>8. HugsAcross(v) => \E j \in DOMAIN f : f[j] = "preserveIntrinsicCrossSize"
  BY <1>4, <1>5, <1>7
<1>. QED  BY <1>1, <1>7, <1>8 DEF f

-----------------------------------------------------------------------------
(* The invariant of a projection.                                          *)

IsList(s) == \E S : s \in Seq(S)

LEMMA ListGrows ==
    ASSUME NEW s, IsList(s), NEW e
    PROVE  /\ IsList(Append(s, e)) /\ Len(s) \in Nat
           /\ Len(Append(s, e)) = Len(s) + 1
           /\ DOMAIN s = 1..Len(s) /\ DOMAIN Append(s, e) = 1..(Len(s) + 1)
           /\ \A k \in DOMAIN s : k \in DOMAIN Append(s, e) /\ Append(s, e)[k] = s[k] /\ k # Len(s) + 1
           /\ Append(s, e)[Len(s) + 1] = e
           /\ \A k \in DOMAIN Append(s, e) : k \in DOMAIN s \/ k = Len(s) + 1
<1>1. PICK S : s \in Seq(S)
  BY DEF IsList
<1>. DEFINE T == S \cup {e}
<1>2. s \in Seq(T) /\ e \in T
  BY <1>1
<1>. HIDE DEF T
<1>3. Append(s, e) \in Seq(T)
  BY <1>2
<1>. QED  BY <1>2, <1>3, AppendFacts DEF IsList

OwedType == [at : doc.nodes, claim : ClaimSet]

Crossing(o) == [at |-> o, claim |-> "preserveIntrinsicCrossSize"]

(* A projection begins when the slice is cut, and it follows the slice.    *)
PlansFollow ==
    /\ phase # "done" => projected = <<>> /\ contradictions = {} /\ owed = <<>>
    /\ IsList(projected) /\ Len(projected) <= Len(nodes)
    /\ \A k \in DOMAIN projected :
         /\ projected[k].at = nodes[k].at
         /\ projected[k].container.kind \in {"flex", "non-flex", "unknown"}
         /\ projected[k].size \in [Axes -> Plans]

(* What is reported is reported of a node with a plan, and a plan with a   *)
(* contradicted claim is reported.                                         *)
ReportsAgree ==
    /\ \A x \in contradictions : \E k \in DOMAIN projected : projected[k].at = x.at
    /\ \A k \in DOMAIN projected :
         SaysContradicted(projected[k]) <=> \E x \in contradictions : x.at = projected[k].at

(* What is owed is owed once, for a node with a plan, and a node that hugs *)
(* across its parent is owed for.                                          *)
OwedOnce ==
    /\ owed \in Seq(OwedType)
    /\ \A j \in DOMAIN owed : \E k \in DOMAIN projected : projected[k].at = owed[j].at
    /\ \A j, k \in DOMAIN owed : owed[j] = owed[k] => j = k
    /\ \A k \in DOMAIN projected :
         HugsAcross(nodes[k]) => \E j \in DOMAIN owed : owed[j] = Crossing(nodes[k].at)

ProjectionInv == Partition /\ Marks /\ PlansFollow /\ ReportsAgree /\ OwedOnce

LEMMA IdsAreUnique == UniqueIds
  BY LayoutsAssumption DEF UniqueIds

LEMMA LayoutTypes ==
    ASSUME TypeInv, NEW k \in DOMAIN nodes
    PROVE  nodes[k].at \in doc.nodes /\ IsLayout(doc.layout[nodes[k].at])
<1>1. nodes \in Seq(NodeType) /\ doc \in Docs
  BY DEF TypeInv
<1>2. nodes[k] \in NodeType
  BY <1>1
<1>3. nodes[k].at \in doc.nodes
  BY <1>2 DEF NodeType
<1>. QED  BY <1>1, <1>3, LayoutsAssumption

LEMMA EmptyProjection ==
    ASSUME projected = <<>>, contradictions = {}, owed = <<>>, Len(nodes) \in Nat
    PROVE  PlansFollow /\ ReportsAgree /\ OwedOnce
<1>1. IsList(projected) /\ Len(projected) = 0 /\ DOMAIN projected = {} /\ DOMAIN owed = {}
      /\ owed \in Seq(OwedType)
  BY DEF IsList
<1>. QED  BY <1>1 DEF PlansFollow, ReportsAgree, OwedOnce

LEMMA ProjectionBegins == ProjectionInit => ProjectionInv
<1>. SUFFICES ASSUME ProjectionInit  PROVE ProjectionInv
  OBVIOUS
<1>1. Partition /\ Marks
  BY PartitionInit, MarksInit DEF ProjectionInit
<1>2. projected = <<>> /\ contradictions = {} /\ owed = <<>> /\ Len(nodes) \in Nat
  BY DEF ProjectionInit, Init
<1>. QED  BY <1>1, <1>2, EmptyProjection DEF ProjectionInv

(* While the slice is cut nothing is projected yet.                        *)
LEMMA CutStep ==
    ASSUME ProjectionInv, Cut
    PROVE  PlansFollow' /\ ReportsAgree' /\ OwedOnce'
<1>1. phase # "done"
  BY DEF Cut, Next, Refuse, Begin, OmitHidden, OmitOverBudget, IncludeAtLimit, IncludeAndDescend, Finish
<1>2. projected' = <<>> /\ contradictions' = {} /\ owed' = <<>>
  BY <1>1 DEF Cut, projectionVars, ProjectionInv, PlansFollow
<1>3. TypeInv'
  BY TypeStep DEF ProjectionInv, Partition, Cut
<1>4. Len(nodes') \in Nat
  BY <1>3 DEF TypeInv
<1>5. IsList(projected') /\ Len(projected') = 0 /\ DOMAIN projected' = {} /\ DOMAIN owed' = {}
      /\ owed' \in Seq(OwedType')
  BY <1>2 DEF IsList
<1>. QED  BY <1>2, <1>4, <1>5 DEF PlansFollow, ReportsAgree, OwedOnce

LEMMA ProjectStep ==
    ASSUME ProjectionInv, ProjectNode
    PROVE  PlansFollow' /\ ReportsAgree' /\ OwedOnce'
<1>. DEFINE n == Len(projected)
            m == n + 1
            v == nodes[m]
            plan == PlanOf(v)
            claims == Claims(v, plan)
            more == [k \in DOMAIN claims |-> [at |-> v.at, claim |-> claims[k]]]
<1>1. /\ phase = "done" /\ n < Len(nodes)
      /\ projected' = Append(projected, plan)
      /\ contradictions' = contradictions \cup {[at |-> v.at, check |-> x] : x \in Broken(plan)}
      /\ owed' = owed \o more
      /\ UNCHANGED vars
  BY DEF ProjectNode, Project
<1>2. /\ IsList(projected) /\ n \in Nat /\ DOMAIN projected = 1..n
      /\ nodes \in Seq(NodeType) /\ Len(nodes) \in Nat /\ DOMAIN nodes = 1..Len(nodes)
  BY ListGrows DEF ProjectionInv, PlansFollow, Partition, TypeInv
<1>3. m \in DOMAIN nodes /\ m \notin DOMAIN projected /\ DOMAIN projected \subseteq DOMAIN nodes
  BY <1>1, <1>2
<1>4. /\ v.at \in doc.nodes /\ IsLayout(doc.layout[v.at])
      /\ \A k \in DOMAIN nodes : nodes[k].at = v.at => k = m
  <2>1. \A k \in DOMAIN nodes : k # m => nodes[k].at # nodes[m].at
    BY <1>3 DEF ProjectionInv, Partition, Apart, ShownApart
  <2>. QED  BY <1>3, <2>1, LayoutTypes DEF ProjectionInv, Partition
<1>5. /\ plan.at = v.at
      /\ plan.container.kind \in {"flex", "non-flex", "unknown"}
      /\ plan.size \in [Axes -> Plans]
      /\ Broken(plan) # {} <=> SaysContradicted(plan)
  BY <1>4, PlanTypes, PlanIsLoud
<1>6. /\ claims \in Seq(ClaimSet) /\ Len(claims) \in Nat /\ DOMAIN claims = 1..Len(claims)
      /\ \A j, k \in DOMAIN claims : claims[j] = claims[k] => j = k
      /\ HugsAcross(v) => \E j \in DOMAIN claims : claims[j] = "preserveIntrinsicCrossSize"
  BY ClaimsFacts
<1>. HIDE DEF claims, plan
<1>7. /\ IsList(projected') /\ Len(projected') = m /\ DOMAIN projected' = 1..m
      /\ \A k \in DOMAIN projected : k \in DOMAIN projected' /\ projected'[k] = projected[k]
      /\ projected'[m] = plan /\ m \in DOMAIN projected'
      /\ \A k \in DOMAIN projected' : k \in DOMAIN projected \/ k = m
  BY <1>1, <1>2, ListGrows
<1>8. \A k \in DOMAIN projected : projected[k].at = nodes[k].at /\ projected[k].at # v.at
  BY <1>3, <1>4 DEF ProjectionInv, PlansFollow
<1>. HIDE DEF m, v
<1>9. nodes' = nodes /\ doc' = doc /\ phase' = phase /\ omitted' = omitted
  BY <1>1 DEF vars
<1>10. PlansFollow'
  <2>1. Len(projected') <= Len(nodes')
    BY <1>1, <1>2, <1>7, <1>9 DEF m
  <2>2. \A k \in DOMAIN projected' :
          /\ projected'[k].at = nodes'[k].at
          /\ projected'[k].container.kind \in {"flex", "non-flex", "unknown"}
          /\ projected'[k].size \in [Axes -> Plans]
    <3>1. \A k \in DOMAIN projected :
            /\ projected[k].at = nodes[k].at
            /\ projected[k].container.kind \in {"flex", "non-flex", "unknown"}
            /\ projected[k].size \in [Axes -> Plans]
      BY DEF ProjectionInv, PlansFollow
    <3>2. plan.at = nodes[m].at
      BY <1>5 DEF v
    <3>. QED  BY <1>5, <1>7, <1>9, <3>1, <3>2
  <2>. QED  BY <1>1, <1>7, <1>9, <2>1, <2>2 DEF PlansFollow
<1>11. ReportsAgree'
  <2>1. /\ \A x \in contradictions : \E k \in DOMAIN projected : projected[k].at = x.at
        /\ \A k \in DOMAIN projected :
             SaysContradicted(projected[k]) <=> \E x \in contradictions : x.at = projected[k].at
    BY DEF ProjectionInv, ReportsAgree
  <2>. DEFINE new == {[at |-> v.at, check |-> x] : x \in Broken(plan)}
  <2>a. contradictions' = contradictions \cup new
    BY <1>1
  <2>b. \A x \in new : x.at = v.at
    OBVIOUS
  <2>c. new # {} <=> Broken(plan) # {}
    <3>. DEFINE B == Broken(plan)
    <3>. HIDE DEF B
    <3>1. new = {[at |-> v.at, check |-> x] : x \in B}
      BY DEF B
    <3>2. B # {} => \E x \in B : [at |-> v.at, check |-> x] \in new
      BY <3>1
    <3>3. new # {} => B # {}
      BY <3>1
    <3>. QED  BY <3>2, <3>3 DEF B
  <2>2. (\A x \in new : x.at = v.at) /\ (new # {} <=> Broken(plan) # {}) /\ contradictions' = contradictions \cup new
    BY <2>a, <2>b, <2>c
  <2>. HIDE DEF new
  <2>3. \A x \in contradictions' : \E k \in DOMAIN projected' : projected'[k].at = x.at
    <3>. SUFFICES ASSUME NEW x \in contradictions'  PROVE \E k \in DOMAIN projected' : projected'[k].at = x.at
      OBVIOUS
    <3>1. CASE x \in contradictions
      BY <3>1, <2>1, <1>7
    <3>2. CASE x \in new
      BY <3>2, <2>2, <1>5, <1>7
    <3>. QED  BY <2>2, <3>1, <3>2
  <2>4. ASSUME NEW k \in DOMAIN projected
        PROVE  SaysContradicted(projected[k]) <=> \E x \in contradictions' : x.at = projected[k].at
    BY <1>8, <2>1, <2>2
  <2>5. \A x \in contradictions : x.at # v.at
    BY <1>8, <2>1
  <2>6. SaysContradicted(plan) <=> \E x \in contradictions' : x.at = plan.at
    BY <1>5, <2>2, <2>5
  <2>7. \A k \in DOMAIN projected' :
          SaysContradicted(projected'[k]) <=> \E x \in contradictions' : x.at = projected'[k].at
    BY <1>7, <2>4, <2>6
  <2>8. \A p : SaysContradicted(p)' <=> SaysContradicted(p)
    BY DEF SaysContradicted
  <2>. QED  BY <2>3, <2>7 DEF ReportsAgree, SaysContradicted
<1>12. OwedOnce'
  <2>1. /\ owed \in Seq(OwedType)
        /\ \A j \in DOMAIN owed : \E k \in DOMAIN projected : projected[k].at = owed[j].at
        /\ \A j, k \in DOMAIN owed : owed[j] = owed[k] => j = k
        /\ \A k \in DOMAIN projected :
             HugsAcross(nodes[k]) => \E j \in DOMAIN owed : owed[j] = Crossing(nodes[k].at)
    BY DEF ProjectionInv, OwedOnce
  <2>2. /\ more \in Seq(OwedType) /\ DOMAIN more = DOMAIN claims
        /\ \A k \in DOMAIN more : more[k].at = v.at /\ more[k].claim = claims[k] /\ more[k] \in OwedType
                                  /\ more[k] = [at |-> v.at, claim |-> claims[k]]
    <3>1. \A k \in DOMAIN claims : claims[k] \in ClaimSet
      BY <1>6
    <3>2. \A k \in DOMAIN claims : [at |-> v.at, claim |-> claims[k]] \in OwedType
      BY <1>4, <3>1 DEF OwedType
    <3>. QED  BY <1>6, <3>2
  <2>. HIDE DEF more
  <2>3. /\ owed' \in Seq(OwedType) /\ Len(owed) \in Nat
        /\ \A k \in DOMAIN owed : k \in DOMAIN owed' /\ owed'[k] = owed[k]
        /\ \A k \in DOMAIN more : k + Len(owed) \in DOMAIN owed' /\ owed'[k + Len(owed)] = more[k]
        /\ \A k \in DOMAIN owed' :
             \/ k \in DOMAIN owed /\ owed'[k] = owed[k]
             \/ k - Len(owed) \in DOMAIN more /\ owed'[k] = more[k - Len(owed)] /\ k \notin DOMAIN owed
        /\ DOMAIN owed' \subseteq Int
    <3>1. owed' = owed \o more
      BY <1>1
    <3>2. Len(owed) \in Nat /\ DOMAIN (owed \o more) \subseteq Int
      BY <2>1, <2>2
    <3>. QED  BY <2>1, <2>2, <3>1, <3>2, ConcatFacts
  <2>4. \A j \in DOMAIN owed : owed[j].at # v.at
    BY <2>1, <1>8
  <2>5. \A j \in DOMAIN owed' : \E k \in DOMAIN projected' : projected'[k].at = owed'[j].at
    <3>. SUFFICES ASSUME NEW j \in DOMAIN owed'  PROVE \E k \in DOMAIN projected' : projected'[k].at = owed'[j].at
      OBVIOUS
    <3>1. CASE j \in DOMAIN owed
      BY <3>1, <2>1, <2>3, <1>7
    <3>2. CASE j - Len(owed) \in DOMAIN more /\ owed'[j] = more[j - Len(owed)]
      BY <3>2, <2>2, <1>5, <1>7
    <3>. QED  BY <2>3, <3>1, <3>2
  <2>6. \A j, k \in DOMAIN owed' : owed'[j] = owed'[k] => j = k
    <3>. SUFFICES ASSUME NEW j \in DOMAIN owed', NEW k \in DOMAIN owed', owed'[j] = owed'[k]  PROVE j = k
      OBVIOUS
    <3>1. CASE j \in DOMAIN owed /\ k \in DOMAIN owed
      BY <3>1, <2>1, <2>3
    <3>2. CASE j \in DOMAIN owed /\ k \notin DOMAIN owed
      BY <3>2, <2>2, <2>3, <2>4
    <3>3. CASE j \notin DOMAIN owed /\ k \in DOMAIN owed
      BY <3>3, <2>2, <2>3, <2>4
    <3>4. CASE j \notin DOMAIN owed /\ k \notin DOMAIN owed
      <4>1. /\ j - Len(owed) \in DOMAIN more /\ k - Len(owed) \in DOMAIN more
            /\ more[j - Len(owed)] = more[k - Len(owed)]
        BY <3>4, <2>3
      <4>2. claims[j - Len(owed)] = claims[k - Len(owed)]
        BY <4>1, <2>2
      <4>3. j - Len(owed) = k - Len(owed)
        BY <4>1, <4>2, <2>2, <1>6
      <4>4. j \in Int /\ k \in Int
        BY <2>3
      <4>. QED  BY <4>3, <4>4, <2>3
    <3>. QED  BY <3>1, <3>2, <3>3, <3>4
  <2>7. ASSUME NEW k \in DOMAIN projected', HugsAcross(nodes[k])
        PROVE  \E j \in DOMAIN owed' : owed'[j] = Crossing(nodes[k].at)
    <3>1. CASE k \in DOMAIN projected
      BY <2>7, <3>1, <2>1, <2>3
    <3>2. CASE k = m
      <4>1. PICK j \in DOMAIN claims : claims[j] = "preserveIntrinsicCrossSize"
        BY <2>7, <3>2, <1>6 DEF v
      <4>2. more[j] = Crossing(nodes[k].at) /\ j \in DOMAIN more
        BY <3>2, <4>1, <2>2 DEF Crossing, v
      <4>. QED  BY <4>2, <2>3
    <3>. QED  BY <3>1, <3>2, <1>7
  <2>8. \A k \in DOMAIN nodes : HugsAcross(nodes[k])' <=> HugsAcross(nodes[k])
    BY <1>9 DEF HugsAcross
  <2>. QED  BY <1>3, <1>7, <1>9, <2>3, <2>5, <2>6, <2>7, <2>8 DEF OwedOnce, OwedType, Crossing
<1>. QED  BY <1>10, <1>11, <1>12

LEMMA ProjectionStep == ProjectionInv /\ [ProjectionNext]_<<vars, projectionVars>> => ProjectionInv'
<1>. SUFFICES ASSUME ProjectionInv, [ProjectionNext]_<<vars, projectionVars>>
              PROVE  ProjectionInv'
  OBVIOUS
<1>1. [Next]_vars
  BY DEF ProjectionNext, Cut, ProjectNode, Project
<1>2. Partition' /\ Marks'
  BY <1>1, IdsAreUnique, PartitionStep, MarksStep DEF ProjectionInv
<1>3. PlansFollow' /\ ReportsAgree' /\ OwedOnce'
  <2>1. CASE Cut
    BY <2>1, CutStep
  <2>2. CASE ProjectNode
    BY <2>2, ProjectStep
  <2>3. CASE UNCHANGED <<vars, projectionVars>>
    BY <2>3, SMTT(30) DEF ProjectionInv, vars, projectionVars, PlansFollow, ReportsAgree, OwedOnce,
                SaysContradicted, OwedType, Crossing, HugsAcross
  <2>. QED  BY <2>1, <2>2, <2>3 DEF ProjectionNext
<1>. QED  BY <1>2, <1>3 DEF ProjectionInv

LEMMA ProjectionInvariant == ProjectionSpec => []ProjectionInv
  BY ProjectionBegins, ProjectionStep, PTL DEF ProjectionSpec

(* projectWeb: the plans follow the nodes of the slice one by one, and     *)
(* neither a contradiction nor an obligation is about a node without one.  *)
THEOREM ProjectionTypes == ProjectionSpec => []ProjectionTypeOK
<1>1. ASSUME ProjectionInv  PROVE ProjectionTypeOK
  <2>1. PlansFollow /\ ReportsAgree /\ OwedOnce
    BY <1>1 DEF ProjectionInv
  <2>2. \A x \in Elements(owed) : \E k \in DOMAIN projected : projected[k].at = x.at
    BY <2>1 DEF OwedOnce, Elements
  <2>. QED  BY <2>1, <2>2 DEF PlansFollow, ReportsAgree, ProjectionTypeOK
<1>. QED  BY <1>1, ProjectionInvariant, PTL

(* "A mismatch demotes the claim and raises a mandatory diagnostic": a     *)
(* claim is demoted as contradicted exactly if that is reported there.     *)
THEOREM DemotionIsLoud == ProjectionSpec => []DemotedLoudly
<1>1. ASSUME ProjectionInv  PROVE DemotedLoudly
  <2>1. ASSUME NEW k \in DOMAIN projected
        PROVE  SaysContradicted(projected[k]) <=> \E x \in contradictions : x.at = projected[k].at
    BY <1>1 DEF ProjectionInv, ReportsAgree
  <2>. QED  BY <2>1 DEF DemotedLoudly, SaysContradicted, AlignmentClaims, Contradicted
<1>. QED  BY <1>1, ProjectionInvariant, PTL

-----------------------------------------------------------------------------
(* What a projection owes.                                                 *)

(* A projection is of what is visible.                                     *)
LEMMA FaithfulFacts ==
    ASSUME TypeInv, Faithful
    PROVE  /\ Working => Acceptable(doc, request)
           /\ \A k \in DOMAIN todo : Asked(todo[k])
           /\ \A k \in DOMAIN nodes : Asked(nodes[k]) /\ doc.visible[nodes[k].at]
           /\ \A k \in DOMAIN omitted :
                Asked(omitted[k]) /\ (omitted[k].reason = "not-rendered" => ~doc.visible[omitted[k].at])
  BY RenderedOnly DEF TypeInv, Faithful, Rendered

LEMMA ProjectionIsFaithful == ProjectionSpec => [](ProjectionInv /\ Faithful)
<1>1. ProjectionInit => Init
  BY DEF ProjectionInit
<1>2. [ProjectionNext]_<<vars, projectionVars>> => [Next]_vars
  BY DEF ProjectionNext, Cut, ProjectNode, Project
<1>3. ProjectionSpec => Spec
  BY <1>1, <1>2, PTL DEF ProjectionSpec, Spec
<1>. QED  BY <1>3, ProjectionInvariant, FaithfulInvariant, PTL

(* "A value nobody read is a loud gap instead of a silent omission": every *)
(* obligation is raised once, and a rendered child that hugs across its    *)
(* parent is owed for or lies under an omission that a limit caused.       *)
THEOREM NothingIsLost == ProjectionSpec => []NothingOwedIsLost
<1>1. ASSUME ProjectionInv, Faithful  PROVE NothingOwedIsLost
  <2>. SUFFICES ASSUME phase = "done", Len(projected) = Len(nodes)
                PROVE  /\ \A j, k \in DOMAIN owed : owed[j] = owed[k] => j = k
                       /\ \A o \in Requested :
                            LET p == doc.parent[o] IN
                            /\ doc.visible[o] /\ ~doc.layout[o].absolute
                            /\ p \in Requested /\ doc.layout[p].mode \in {"HORIZONTAL", "VERTICAL"}
                            /\ doc.layout[o].sizing[Across(MainAxis(doc.layout[p]))] = "HUG"
                            => \/ [at |-> o, claim |-> "preserveIntrinsicCrossSize"] \in Elements(owed)
                               \/ \E k \in DOMAIN omitted :
                                    omitted[k].reason # "not-rendered" /\ Covers(omitted[k].at, o)
    BY DEF NothingOwedIsLost
  <2>1. TypeInv /\ Working /\ EveryNodeAccounted /\ IsDocument(doc)
    BY <1>1, PartitionIsAccount, DocIsDocument DEF ProjectionInv, Partition, Working
  <2>2. \A j, k \in DOMAIN owed : owed[j] = owed[k] => j = k
    BY <1>1 DEF ProjectionInv, OwedOnce
  <2>3. ASSUME NEW o \in Requested, doc.visible[o], ~doc.layout[o].absolute,
               doc.parent[o] \in Requested,
               doc.layout[doc.parent[o]].mode \in {"HORIZONTAL", "VERTICAL"},
               doc.layout[o].sizing[Across(MainAxis(doc.layout[doc.parent[o]]))] = "HUG"
        PROVE  \/ Crossing(o) \in Elements(owed)
               \/ \E k \in DOMAIN omitted : omitted[k].reason # "not-rendered" /\ Covers(omitted[k].at, o)
    <3>1. o \in doc.nodes /\ doc.parent[o] \in doc.nodes /\ doc.parent[o] # NoParent
      BY <2>1, <2>3 DEF Requested, IsDocument
    <3>2. CASE o \in Shown
      <4>1. PICK k \in DOMAIN nodes : nodes[k].at = o
        BY <3>2 DEF Shown
      <4>2. nodes[k].parent = doc.parent[o]
        BY <1>1, <2>1, <2>3, <4>1, RequestedBelowIsPlaced, FaithfulFacts DEF Asked
      <4>3. HugsAcross(nodes[k])
        BY <2>3, <3>1, <4>1, <4>2 DEF HugsAcross
      <4>4. k \in DOMAIN projected
        <5>1. IsList(projected) /\ nodes \in Seq(NodeType)
          BY <1>1, <2>1 DEF ProjectionInv, PlansFollow, TypeInv
        <5>. QED  BY <5>1, ListGrows
      <4>5. \E j \in DOMAIN owed : owed[j] = Crossing(o)
        BY <1>1, <4>1, <4>3, <4>4 DEF ProjectionInv, OwedOnce
      <4>. QED  BY <4>5 DEF Elements
    <3>3. CASE o \notin Shown
      <4>1. PICK k \in DOMAIN omitted : Covers(omitted[k].at, o)
        BY <2>1, <3>3 DEF EveryNodeAccounted
      <4>2. doc.visible[omitted[k].at]
        BY <2>1, <2>3, <3>1, <4>1 DEF Covers, IsDocument
      <4>3. omitted[k].reason # "not-rendered"
        BY <1>1, <4>2, FaithfulFacts DEF ProjectionInv, Partition
      <4>. QED  BY <4>1, <4>3
    <3>. QED  BY <3>2, <3>3
  <2>. QED  BY <2>2, <2>3 DEF Crossing
<1>. QED  BY <1>1, ProjectionIsFaithful, PTL

-----------------------------------------------------------------------------
(* Numbers that are near each other, and what rounding loses.              *)

LEMMA NearFacts ==
    ASSUME NEW a \in Int, NEW b \in Int
    PROVE  Near(a, b) <=> -2 <= a - b /\ a - b <= 2
  BY DEF Near

LEMMA WithinFacts ==
    ASSUME NEW n \in Nat, NEW a \in Int, NEW b \in Int
    PROVE  Within(n, a, b) <=> -n <= a - b /\ a - b <= n
  BY DEF Within

(* The quotient and what is left of it.                                    *)
LEMMA QuotientFacts ==
    ASSUME NEW a \in Int, NEW b \in Nat \ {0}
    PROVE  /\ a \div b \in Int /\ a % b \in Int
           /\ a = b * (a \div b) + (a % b)
           /\ 0 <= a % b /\ a % b <= b - 1
  OBVIOUS

LEMMA RoundedFacts ==
    ASSUME NEW n \in Int, NEW d \in Nat \ {0}
    PROVE  /\ Rounded(n, d) \in Int
           /\ -d <= 2 * (d * Rounded(n, d)) - 2 * n
           /\ 2 * (d * Rounded(n, d)) - 2 * n <= d
<1>1. CASE n >= 0
  <2>. DEFINE a == 2 * n + d
              b == 2 * d
              q == a \div b
              r == a % b
  <2>1. a \in Int /\ b \in Nat \ {0}
    OBVIOUS
  <2>2. Rounded(n, d) = q
    BY <1>1 DEF Rounded
  <2>3. q \in Int /\ r \in Int /\ a = b * q + r /\ 0 <= r /\ r <= b - 1
    BY <2>1, QuotientFacts
  <2>. HIDE DEF q, r
  <2>4. b * q = 2 * (d * q)
    BY <2>3
  <2>5. d * q \in Int
    BY <2>3
  <2>. QED  BY <2>2, <2>3, <2>4, <2>5
<1>2. CASE ~(n >= 0)
  <2>. DEFINE a == d - 2 * n
              b == 2 * d
              q == a \div b
              r == a % b
  <2>1. a \in Int /\ b \in Nat \ {0}
    OBVIOUS
  <2>2. Rounded(n, d) = -q
    BY <1>2 DEF Rounded
  <2>3. q \in Int /\ r \in Int /\ a = b * q + r /\ 0 <= r /\ r <= b - 1
    BY <2>1, QuotientFacts
  <2>. HIDE DEF q, r
  <2>4. b * q = 2 * (d * q) /\ d * (-q) = -(d * q)
    BY <2>3
  <2>5. d * q \in Int
    BY <2>3
  <2>. QED  BY <2>2, <2>3, <2>4, <2>5
<1>. QED  BY <1>1, <1>2

(* A half is rounded up or not at all.                                     *)
LEMMA HalfFacts ==
    ASSUME NEW n \in Int
    PROVE  /\ Rounded(n, 2) \in Int
           /\ -1 <= 2 * Rounded(n, 2) - n /\ 2 * Rounded(n, 2) - n <= 1
           /\ n \div 2 \in Int
           /\ 0 <= Rounded(n, 2) - n \div 2 /\ Rounded(n, 2) - n \div 2 <= 1
  BY DEF Rounded

(* A multiple that is within a multiple is within.                         *)
LEMMA Divided ==
    ASSUME NEW d \in Nat \ {0}, NEW a \in Int, NEW b \in Int
    PROVE  /\ d * a <= d * b => a <= b
           /\ d * a < d * b => a < b
<1>1. ASSUME a > b  PROVE d * a >= d * b + d
  <2>. DEFINE e == a - b
  <2>1. e \in Nat /\ e >= 1 /\ a = b + e
    BY <1>1
  <2>. HIDE DEF e
  <2>2. d * a = d * b + d * e
    BY <2>1
  <2>3. d * e >= d
    <3>. DEFINE f == e - 1
    <3>1. f \in Nat /\ e = f + 1
      BY <2>1
    <3>. HIDE DEF f
    <3>2. d * e = d * f + d /\ d * f >= 0 /\ d * f \in Nat
      BY <3>1
    <3>. QED  BY <3>2
  <2>4. d * a \in Int /\ d * b \in Int /\ d * e \in Int
    BY <2>1
  <2>. QED  BY <2>2, <2>3, <2>4
<1>2. ASSUME a = b  PROVE d * a = d * b
  BY <1>2
<1>3. d * a \in Int /\ d * b \in Int
  OBVIOUS
<1>. QED  BY <1>1, <1>2, <1>3

-----------------------------------------------------------------------------
(* lineOffsets: where each item of a line starts.                          *)

LEMMA LineOffsetsUnfolded ==
    ASSUME NEW distribution, NEW sizes, NEW gap, NEW inner
    PROVE  LineOffsets(distribution, sizes, gap, inner) =
             LET n == Len(sizes)
                 before == SizesBefore(sizes)
                 total == before[n + 1]
                 line == total + (n - 1) * gap
                 at(k) == before[k] + (k - 1) * gap
             IN [k \in 1..n |->
                   CASE distribution = "space-between" /\ n > 1 ->
                          Rounded(before[k] * (n - 1) + (k - 1) * (inner - total), n - 1)
                     [] distribution = "center" -> Rounded(2 * at(k) + inner - line, 2)
                     [] distribution = "end"    -> at(k) + inner - line
                     [] OTHER                   -> at(k)]
  BY Zenon DEF LineOffsets, SizesBefore, SumsOf

LEMMA OffsetsFacts ==
    ASSUME NEW sizes \in Seq(Int), NEW gap \in Int, NEW inner \in Int, NEW k \in 1..Len(sizes)
    PROVE  LET n == Len(sizes)
               b == SizesBefore(sizes)
               at == b[k] + (k - 1) * gap
               spare == inner - (b[n + 1] + (n - 1) * gap)
           IN /\ LineOffsets("start", sizes, gap, inner)[k] = at
              /\ LineOffsets("end", sizes, gap, inner)[k] = at + spare
              /\ LineOffsets("center", sizes, gap, inner)[k] = Rounded(2 * at + spare, 2)
              /\ n = 1 => LineOffsets("space-between", sizes, gap, inner)[k] = at
              /\ n > 1 => LineOffsets("space-between", sizes, gap, inner)[k]
                            = Rounded(b[k] * (n - 1) + (k - 1) * (inner - b[n + 1]), n - 1)
<1>. DEFINE n == Len(sizes)
            b == SizesBefore(sizes)
            at(j) == b[j] + (j - 1) * gap
            line == b[n + 1] + (n - 1) * gap
<1>1. n \in Nat /\ k \in Int /\ b[k] \in Int /\ b[n + 1] \in Int
  <2>1. n \in Nat /\ k \in 1..(n + 1) /\ n + 1 \in 1..(n + 1)
    OBVIOUS
  <2>. QED  BY <2>1, SumsFacts
<1>. DEFINE offsets(d) ==
              [j \in 1..n |->
                 CASE d = "space-between" /\ n > 1 ->
                        Rounded(b[j] * (n - 1) + (j - 1) * (inner - b[n + 1]), n - 1)
                   [] d = "center" -> Rounded(2 * at(j) + inner - line, 2)
                   [] d = "end"    -> at(j) + inner - line
                   [] OTHER        -> at(j)]
<1>2. \A d : LineOffsets(d, sizes, gap, inner) = offsets(d)
  BY LineOffsetsUnfolded, Zenon
<1>. HIDE DEF b
<1>3. /\ offsets("start")[k] = at(k)
      /\ offsets("end")[k] = at(k) + inner - line
      /\ offsets("center")[k] = Rounded(2 * at(k) + inner - line, 2)
      /\ n = 1 => offsets("space-between")[k] = at(k)
      /\ n > 1 => offsets("space-between")[k]
                    = Rounded(b[k] * (n - 1) + (k - 1) * (inner - b[n + 1]), n - 1)
  <2>0. k \in 1..n
    OBVIOUS
  <2>. HIDE DEF at, line, n
  <2>1. offsets("start")[k] = at(k)
    BY <2>0
  <2>2. offsets("end")[k] = at(k) + inner - line
    BY <2>0
  <2>3. offsets("center")[k] = Rounded(2 * at(k) + inner - line, 2)
    BY <2>0
  <2>4. n = 1 => offsets("space-between")[k] = at(k)
    BY <2>0
  <2>5. n > 1 => offsets("space-between")[k]
                   = Rounded(b[k] * (n - 1) + (k - 1) * (inner - b[n + 1]), n - 1)
    BY <2>0
  <2>. QED  BY <2>1, <2>2, <2>3, <2>4, <2>5
<1>. HIDE DEF offsets
<1>4. at(k) \in Int /\ line \in Int
  BY <1>1
<1>. HIDE DEF at, line
<1>5. at(k) + inner - line = at(k) + (inner - line)
      /\ 2 * at(k) + inner - line = 2 * at(k) + (inner - line)
  BY <1>4
<1>. QED  BY <1>2, <1>3, <1>5 DEF at, line, b

-----------------------------------------------------------------------------
(* An even spread: the first item at the start, the last at the end, and   *)
(* the distances between them equal, as far as rounding lets them be.      *)

(* The distance in front of an item, from two predictions and two places.  *)
LEMMA EvenStep ==
    ASSUME NEW d \in Nat \ {0}, NEW b \in Int, NEW size \in Int, NEW j \in Int, NEW room \in Int,
           NEW x \in Int, NEW y \in Int,
           Near(Rounded(b * d + j * room, d), x),
           Near(Rounded((b + size) * d + (j + 1) * room, d), y)
    PROVE  /\ d * (y - x - size) <= room + 5 * d
           /\ room - 5 * d <= d * (y - x - size)
<1>. DEFINE p == Rounded(b * d + j * room, d)
            q == Rounded((b + size) * d + (j + 1) * room, d)
            m == b * d + j * room
            bd == b * d
            sd == size * d
            jr == j * room
<1>1. m \in Int /\ bd \in Int /\ sd \in Int /\ jr \in Int
  OBVIOUS
<1>2. (b + size) * d = bd + sd /\ (j + 1) * room = jr + room
  OBVIOUS
<1>3. /\ p \in Int /\ -d <= 2 * (d * p) - 2 * m /\ 2 * (d * p) - 2 * m <= d
  BY <1>1, RoundedFacts
<1>4. q \in Int /\ -d <= 2 * (d * q) - 2 * (m + sd + room) /\ 2 * (d * q) - 2 * (m + sd + room) <= d
  <2>1. (b + size) * d + (j + 1) * room = m + sd + room
    BY <1>1, <1>2
  <2>2. m + sd + room \in Int
    BY <1>1
  <2>. QED  BY <2>1, <2>2, RoundedFacts
<1>5. -2 <= p - x /\ p - x <= 2 /\ -2 <= q - y /\ q - y <= 2
  BY <1>3, <1>4, NearFacts
<1>. HIDE DEF p, q, m
<1>6. PICK u \in -2..2, w \in -2..2 : x = p - u /\ y = q - w
  <2>. DEFINE u == p - x
              w == q - y
  <2>1. u \in -2..2 /\ w \in -2..2 /\ x = p - u /\ y = q - w
    BY <1>3, <1>4, <1>5
  <2>. QED  BY <2>1
<1>7. d * (y - x - size) = d * q - d * p - d * (w - u) - sd
  BY <1>3, <1>4, <1>6
<1>8. -4 * d <= d * (w - u) /\ d * (w - u) <= 4 * d /\ d * (w - u) \in Int
  <2>. DEFINE e == w - u
  <2>1. e \in -4..4
    BY <1>6
  <2>2. \A f \in -4..4 : -4 * d <= d * f /\ d * f <= 4 * d /\ d * f \in Int
    OBVIOUS
  <2>. QED  BY <2>1, <2>2
<1>9. d * q \in Int /\ d * p \in Int
  BY <1>3, <1>4
<1>. HIDE DEF sd
<1>. QED  BY <1>1, <1>3, <1>4, <1>7, <1>8, <1>9

LEMMA Distributed ==
    ASSUME NEW d \in Int, NEW m \in Int, NEW e \in Int
    PROVE  /\ d * (m + e) = d * m + d * e
           /\ d * (2 * e) = 2 * (d * e)
           /\ d * e \in Int /\ d * m \in Int
  OBVIOUS

LEMMA EvenSpread ==
    ASSUME NEW sizes \in Seq(Int), sizes # <<>>, NEW inner \in Int,
           NEW off, \A k \in 1..Len(sizes) : off[k] \in Int,
           \A k \in 1..Len(sizes) : Near(LineOffsets("space-between", sizes, 0, inner)[k], off[k])
    PROVE  LET n == Len(sizes)
               gap(k) == off[k] - (off[k - 1] + sizes[k - 1])
           IN /\ Within(2, off[1], 0)
              /\ n > 1 => Within(2, inner - (off[n] + sizes[n]), 0)
              /\ \A j, k \in 2..n : Within(10, gap(j), gap(k))
<1>. DEFINE n == Len(sizes)
            b == SizesBefore(sizes)
            p == LineOffsets("space-between", sizes, 0, inner)
            room == inner - b[n + 1]
            d == n - 1
            gap(k) == off[k] - (off[k - 1] + sizes[k - 1])
<1>1. n \in Nat \ {0} /\ \A k \in 1..n : sizes[k] \in Int
  OBVIOUS
<1>2. /\ \A k \in 1..(n + 1) : b[k] \in Int
      /\ b[1] = 0 /\ \A k \in 1..n : b[k + 1] = b[k] + sizes[k]
  BY SumsFacts
<1>3. \A k \in 1..n : (n = 1 => p[k] = b[k]) /\ (n > 1 => p[k] = Rounded(b[k] * d + (k - 1) * room, d))
  <2>. SUFFICES ASSUME NEW k \in 1..n
                PROVE  (n = 1 => p[k] = b[k]) /\ (n > 1 => p[k] = Rounded(b[k] * d + (k - 1) * room, d))
    OBVIOUS
  <2>1. k \in Int /\ b[k] \in Int /\ b[k] + (k - 1) * 0 = b[k]
    <3>1. k \in Int /\ b[k] \in Int
      BY <1>1, <1>2
    <3>. HIDE DEF b
    <3>. QED  BY <3>1
  <2>2. (n = 1 => p[k] = b[k] + (k - 1) * 0)
        /\ (n > 1 => p[k] = Rounded(b[k] * d + (k - 1) * room, d))
    <3>. DEFINE zero == 0
    <3>1. zero \in Int
      OBVIOUS
    <3>. HIDE DEF zero
    <3>2. LET q == LineOffsets("space-between", sizes, zero, inner)
          IN (n = 1 => q[k] = b[k] + (k - 1) * zero)
             /\ (n > 1 => q[k] = Rounded(b[k] * d + (k - 1) * room, d))
      BY <3>1, OffsetsFacts
    <3>. QED  BY <3>2 DEF zero
  <2>. HIDE DEF p, b, n
  <2>. QED  BY <2>1, <2>2
<1>4. \A k \in 1..n : Near(p[k], off[k]) /\ off[k] \in Int
  OBVIOUS
<1>. HIDE DEF n, b, p
<1>5. CASE n = 1
  <2>1. p[1] = 0
    BY <1>2, <1>3, <1>5
  <2>2. -2 <= 0 - off[1] /\ 0 - off[1] <= 2 /\ off[1] \in Int
    BY <1>1, <1>4, <2>1, NearFacts
  <2>3. Within(2, off[1], 0)
    BY <2>2 DEF Within
  <2>. QED  BY <1>5, <2>3 DEF n
<1>6. CASE n > 1
  <2>1. d \in Nat \ {0} /\ room \in Int
    BY <1>1, <1>2, <1>6
  <2>. HIDE DEF d, room
  <2>2. Within(2, off[1], 0)
    <3>1. p[1] = Rounded(0, d)
      <4>1. b[1] * d + (1 - 1) * room = 0
        BY <1>2, <2>1
      <4>. QED  BY <1>1, <1>3, <1>6, <4>1
    <3>2. Rounded(0, d) \in Int /\ -d <= 2 * (d * Rounded(0, d)) - 2 * 0 /\ 2 * (d * Rounded(0, d)) - 2 * 0 <= d
      <4>1. 0 \in Int
        OBVIOUS
      <4>. QED  BY <2>1, <4>1, RoundedFacts
    <3>3. Rounded(0, d) = 0
      <4>. DEFINE r == Rounded(0, d)
      <4>. HIDE DEF r
      <4>0. r \in Int /\ -d <= 2 * (d * r) - 2 * 0 /\ 2 * (d * r) - 2 * 0 <= d
        BY <3>2 DEF r
      <4>1. r \in Int /\ d * r \in Int /\ -d <= 2 * (d * r) /\ 2 * (d * r) <= d
        <5>1. d * r \in Int
          BY <2>1, <4>0
        <5>. QED  BY <4>0, <5>1
      <4>2. d * (2 * r) = 2 * (d * r) /\ d * 1 = d /\ d * (-1) = -d
        BY <2>1, <4>1
      <4>3. d * (-1) <= d * (2 * r) /\ d * (2 * r) <= d * 1
        BY <4>1, <4>2
      <4>4. -1 <= 2 * r /\ 2 * r <= 1
        BY <2>1, <4>1, <4>3, Divided
      <4>. QED  BY <4>1, <4>4 DEF r
    <3>4. -2 <= 0 - off[1] /\ 0 - off[1] <= 2 /\ off[1] \in Int
      BY <1>1, <1>4, <3>1, <3>3, NearFacts
    <3>. QED  BY <3>4 DEF Within
  <2>3. Within(2, inner - (off[n] + sizes[n]), 0)
    <3>. DEFINE m == b[n] + room
    <3>0. n \in 1..n /\ n \in 1..(n + 1) /\ b[n] \in Int /\ sizes[n] \in Int /\ b[n + 1] = b[n] + sizes[n]
      BY <1>1, <1>2
    <3>1. n \in 1..n /\ m \in Int /\ m = inner - sizes[n] /\ b[n] * d + (n - 1) * room = d * m
      <4>1. room = inner - (b[n] + sizes[n]) /\ d = n - 1
        BY <3>0 DEF d, room
      <4>2. b[n] * d + d * room = d * (b[n] + room)
        BY <2>1, <3>0
      <4>3. (n - 1) * room = d * room /\ m = inner - sizes[n] /\ m \in Int
        <5>1. (n - 1) * room = d * room
          BY <4>1
        <5>2. m = inner - sizes[n] /\ m \in Int
          <6>. DEFINE u == b[n]
                      w == sizes[n]
          <6>1. u \in Int /\ w \in Int /\ room = inner - (u + w) /\ room \in Int
            BY <2>1, <3>0, <4>1
          <6>. HIDE DEF u, w, d, room
          <6>2. u + room = inner - w /\ u + room \in Int
            BY <6>1
          <6>. QED  BY <6>2 DEF u, w
        <5>. QED  BY <5>1, <5>2
      <4>4. b[n] * d + (n - 1) * room = b[n] * d + d * room
        BY <4>3
      <4>. QED  BY <3>0, <4>2, <4>3, <4>4
    <3>. HIDE DEF m
    <3>2. p[n] = Rounded(d * m, d)
      BY <1>3, <1>6, <3>1
    <3>3. Rounded(d * m, d) \in Int /\ d * m \in Int
          /\ -d <= 2 * (d * Rounded(d * m, d)) - 2 * (d * m) /\ 2 * (d * Rounded(d * m, d)) - 2 * (d * m) <= d
      <4>. DEFINE a == d * m
      <4>1. a \in Int
        BY <2>1, <3>1
      <4>. HIDE DEF a
      <4>2. /\ Rounded(a, d) \in Int
            /\ -d <= 2 * (d * Rounded(a, d)) - 2 * a /\ 2 * (d * Rounded(a, d)) - 2 * a <= d
        BY <2>1, <4>1, RoundedFacts
      <4>. QED  BY <4>1, <4>2 DEF a
    <3>4. Rounded(d * m, d) = m
      <4>. DEFINE r == Rounded(d * m, d)
      <4>. HIDE DEF r
      <4>1. r \in Int /\ -d <= 2 * (d * r) - 2 * (d * m) /\ 2 * (d * r) - 2 * (d * m) <= d
        BY <3>3 DEF r
      <4>2. d * (2 * (r - m)) = 2 * (d * r) - 2 * (d * m) /\ d * 1 = d /\ d * (-1) = -d
        <5>. DEFINE e == r - m
        <5>1. e \in Int /\ r = m + e
          BY <3>1, <4>1
        <5>. HIDE DEF e
        <5>2. d * r = d * m + d * e /\ d * (2 * e) = 2 * (d * e) /\ d * e \in Int /\ d * m \in Int
          BY <2>1, <3>1, <5>1, Distributed, SMTT(30)
        <5>3. d * 1 = d /\ d * (-1) = -d
          BY <2>1
        <5>. QED  BY <5>2, <5>3 DEF e
      <4>3. d * (-1) <= d * (2 * (r - m)) /\ d * (2 * (r - m)) <= d * 1 /\ 2 * (r - m) \in Int
        BY <3>1, <4>1, <4>2
      <4>4. -1 <= 2 * (r - m) /\ 2 * (r - m) <= 1
        BY <2>1, <4>3, Divided
      <4>. QED  BY <3>1, <4>1, <4>4 DEF r
    <3>5. -2 <= m - off[n] /\ m - off[n] <= 2 /\ off[n] \in Int
      BY <1>4, <3>1, <3>2, <3>4, NearFacts
    <3>6. inner - (off[n] + sizes[n]) = m - off[n] /\ inner - (off[n] + sizes[n]) \in Int
      <4>. DEFINE last == sizes[n]
                  end == off[n]
      <4>1. inner \in Int /\ last \in Int /\ end \in Int /\ m = inner - last
        BY <3>0, <3>1, <3>5
      <4>. HIDE DEF m, last, end
      <4>2. inner - (end + last) = m - end /\ inner - (end + last) \in Int
        BY <4>1
      <4>. QED  BY <4>2 DEF last, end
    <3>. DEFINE left == inner - (off[n] + sizes[n])
    <3>7. left \in Int /\ -2 <= left /\ left <= 2
      BY <3>5, <3>6
    <3>. HIDE DEF left
    <3>8. Within(2, left, 0)
      BY <3>7 DEF Within
    <3>. QED  BY <3>8 DEF left
  <2>4. ASSUME NEW k \in 2..n
        PROVE  gap(k) \in Int /\ d * gap(k) <= room + 5 * d /\ room - 5 * d <= d * gap(k)
    <3>. DEFINE i == k - 1
    <3>1. i \in 1..n /\ k \in 1..n /\ i \in Int /\ i - 1 \in Int /\ (i - 1) + 1 = k - 1 /\ i + 1 = k
      BY <1>1
    <3>. HIDE DEF i
    <3>2. b[k] = b[i] + sizes[i] /\ b[i] \in Int /\ sizes[i] \in Int /\ off[i] \in Int /\ off[k] \in Int
      <4>0. i \in 1..(n + 1)
        BY <1>1, <3>1
      <4>1. b[i + 1] = b[i] + sizes[i] /\ b[i] \in Int
        BY <1>2, <3>1, <4>0
      <4>2. sizes[i] \in Int /\ off[i] \in Int /\ off[k] \in Int
        BY <1>1, <1>4, <3>1
      <4>. QED  BY <3>1, <4>1, <4>2
    <3>. DEFINE j == i - 1
    <3>6. j \in Int /\ j + 1 = k - 1 /\ j = i - 1
      BY <3>1
    <3>. HIDE DEF j
    <3>3. p[i] = Rounded(b[i] * d + j * room, d)
          /\ p[k] = Rounded((b[i] + sizes[i]) * d + (j + 1) * room, d)
      BY <1>3, <1>6, <3>1, <3>2, <3>6
    <3>4. Near(p[i], off[i]) /\ Near(p[k], off[k])
      BY <1>4, <3>1
    <3>5. /\ d * (off[k] - off[i] - sizes[i]) <= room + 5 * d
          /\ room - 5 * d <= d * (off[k] - off[i] - sizes[i])
      <4>. DEFINE bi == b[i]
                  size == sizes[i]
                  x == off[i]
                  y == off[k]
      <4>1. /\ bi \in Int /\ size \in Int /\ x \in Int /\ y \in Int
            /\ Near(Rounded(bi * d + j * room, d), x)
            /\ Near(Rounded((bi + size) * d + (j + 1) * room, d), y)
        BY <3>2, <3>3, <3>4
      <4>. HIDE DEF bi, size, x, y
      <4>2. d * (y - x - size) <= room + 5 * d /\ room - 5 * d <= d * (y - x - size)
        BY <2>1, <3>6, <4>1, EvenStep
      <4>. QED  BY <4>2 DEF size, x, y
    <3>7. gap(k) = off[k] - off[i] - sizes[i] /\ gap(k) \in Int
      BY <3>2 DEF i
    <3>. QED  BY <3>5, <3>7
  <2>5. ASSUME NEW j \in 2..n, NEW k \in 2..n  PROVE Within(10, gap(j), gap(k))
    <3>. DEFINE x == gap(j)
                y == gap(k)
    <3>. HIDE DEF x, y
    <3>1. /\ x \in Int /\ d * x <= room + 5 * d /\ room - 5 * d <= d * x
          /\ y \in Int /\ d * y <= room + 5 * d /\ room - 5 * d <= d * y
      BY <2>4 DEF x, y
    <3>2. d * (x - y) = d * x - d * y /\ d * 10 = 10 * d /\ d * (-10) = -10 * d
      BY <2>1, <3>1, SMTT(30)
    <3>3. d * x \in Int /\ d * y \in Int
      BY <2>1, <3>1
    <3>4. d * (x - y) <= d * 10 /\ d * (-10) <= d * (x - y) /\ x - y \in Int
      <4>. DEFINE P == d * x
                  Q == d * y
      <4>0. P \in Int /\ Q \in Int /\ d \in Int /\ room \in Int
        BY <2>1, <3>3
      <4>1. P <= room + 5 * d /\ room - 5 * d <= P /\ Q <= room + 5 * d /\ room - 5 * d <= Q
        BY <3>1
      <4>2. d * (x - y) = P - Q
        BY <3>2
      <4>. HIDE DEF P, Q, room
      <4>3. P - Q <= 10 * d /\ -10 * d <= P - Q
        BY <4>0, <4>1
      <4>. QED  BY <3>1, <3>2, <4>2, <4>3
    <3>5. x - y <= 10 /\ -10 <= x - y
      BY <2>1, <3>4, Divided
    <3>6. Within(10, x, y)
      BY <3>1, <3>4, <3>5 DEF Within
    <3>. QED  BY <3>6 DEF x, y
  <2>. QED  BY <2>2, <2>3, <2>5 DEF n
<1>. QED  BY <1>1, <1>5, <1>6

-----------------------------------------------------------------------------
(* Where things are, and the order in which they are read.                 *)

LEMMA PlaceTypes ==
    ASSUME doc \in Docs, NEW o \in doc.nodes
    PROVE  /\ IsLayout(doc.layout[o])
           /\ doc.box[o] # None =>
                /\ doc.box[o].pos \in [Axes -> Int] /\ doc.box[o].size \in [Axes -> Nat]
                /\ \A axis \in Axes : Size(o, axis) \in Nat /\ Inner(o, axis) \in Int
                /\ \A c \in doc.nodes, axis \in Axes : doc.box[c] # None => Offset(c, o, axis) \in Int
<1>1. IsLayout(doc.layout[o])
  BY LayoutsAssumption
<1>2. \A c \in doc.nodes : doc.box[c] # None => doc.box[c].pos \in [Axes -> Int] /\ doc.box[c].size \in [Axes -> Nat]
  BY LayoutsAssumption
<1>3. doc.layout[o].before \in [Axes -> Int] /\ doc.layout[o].after \in [Axes -> Int]
  BY <1>1 DEF IsLayout
<1>4. ASSUME doc.box[o] # None, NEW axis \in Axes
      PROVE  Size(o, axis) \in Nat /\ Inner(o, axis) \in Int
  BY <1>2, <1>3, <1>4 DEF Size, Inner
<1>5. ASSUME doc.box[o] # None, NEW c \in doc.nodes, NEW axis \in Axes, doc.box[c] # None
      PROVE  Offset(c, o, axis) \in Int
  BY <1>2, <1>3, <1>5 DEF Offset
<1>. QED  BY <1>1, <1>2, <1>4, <1>5

(* Reading from the top is an order of boxes.                              *)
LEMMA ReadingOrder ==
    ASSUME doc \in Docs, NEW S \in SUBSET doc.nodes, \A c \in S : doc.box[c] # None
    PROVE  IsStrictOrder({p \in S \X S : ReadsBefore(p[1], p[2])}, S)
<1>. DEFINE R == {p \in S \X S : ReadsBefore(p[1], p[2])}
            v(c) == doc.box[c].pos["v"]
            h(c) == doc.box[c].pos["h"]
            reads(a, b) == v(a) < v(b) \/ (v(a) = v(b) /\ h(a) < h(b)) \/ (v(a) = v(b) /\ h(a) = h(b) /\ a < b)
<1>1. \A c \in S : /\ doc.box[c] # None /\ doc.box[c].pos \in [Axes -> Int]
                   /\ v(c) \in Int /\ h(c) \in Int /\ c \in Nat
  <2>. SUFFICES ASSUME NEW c \in S
                PROVE  /\ doc.box[c] # None /\ doc.box[c].pos \in [Axes -> Int]
                       /\ v(c) \in Int /\ h(c) \in Int /\ c \in Nat
    OBVIOUS
  <2>1. doc.box[c] # None /\ doc.box[c].pos \in [Axes -> Int] /\ c \in Nat
    BY PlaceTypes, NodesAreFinite
  <2>. QED  BY <2>1 DEF Axes
<1>2. \A a, b \in S : doc.box[a].pos = doc.box[b].pos <=> v(a) = v(b) /\ h(a) = h(b)
  <2>. SUFFICES ASSUME NEW a \in S, NEW b \in S
                PROVE  doc.box[a].pos = doc.box[b].pos <=> v(a) = v(b) /\ h(a) = h(b)
    OBVIOUS
  <2>. DEFINE p == doc.box[a].pos
              q == doc.box[b].pos
  <2>1. p \in [Axes -> Int] /\ q \in [Axes -> Int]
    BY <1>1
  <2>. HIDE DEF p, q
  <2>2. p["v"] = q["v"] /\ p["h"] = q["h"] => p = q
    BY <2>1 DEF Axes
  <2>. QED  BY <2>2 DEF p, q
<1>3. \A a, b \in S : ReadsBefore(a, b) <=> reads(a, b)
  <2>. SUFFICES ASSUME NEW a \in S, NEW b \in S  PROVE ReadsBefore(a, b) <=> reads(a, b)
    OBVIOUS
  <2>1. doc.box[a] # None /\ doc.box[b] # None
    BY <1>1
  <2>2. doc.box[a].pos = doc.box[b].pos <=> v(a) = v(b) /\ h(a) = h(b)
    BY <1>2
  <2>. QED  BY <2>1, <2>2 DEF ReadsBefore
<1>4. \A a, b \in S : <<a, b>> \in R <=> reads(a, b)
  BY <1>3
<1>. HIDE DEF R, v, h
<1>5. \A a, b, c \in S : /\ ~reads(a, a)
                         /\ a = b \/ reads(a, b) \/ reads(b, a)
                         /\ reads(a, b) /\ reads(b, c) => reads(a, c)
  <2>. SUFFICES ASSUME NEW a \in S, NEW b \in S, NEW c \in S
                PROVE  /\ ~reads(a, a)
                       /\ a = b \/ reads(a, b) \/ reads(b, a)
                       /\ reads(a, b) /\ reads(b, c) => reads(a, c)
    OBVIOUS
  <2>1. /\ v(a) \in Int /\ v(b) \in Int /\ v(c) \in Int
        /\ h(a) \in Int /\ h(b) \in Int /\ h(c) \in Int
        /\ a \in Nat /\ b \in Nat /\ c \in Nat
    BY <1>1
  <2>. QED  BY <2>1
<1>. HIDE DEF reads
<1>6. IsStrictOrder(R, S)
  BY <1>4, <1>5 DEF IsStrictOrder
<1>. QED  BY <1>6 DEF R

(* The children that are read are the children, each once.                 *)
LEMMA ReadingFacts ==
    ASSUME doc \in Docs, NEW flow, Elements(flow) \subseteq doc.nodes,
           \A c \in Elements(flow) : doc.box[c] # None
    PROVE  LET S == Elements(flow) line == Reading(flow) IN
           /\ IsFiniteSet(S) /\ Cardinality(S) \in Nat
           /\ line \in Seq(S) /\ Len(line) = Cardinality(S) /\ DOMAIN line = 1..Cardinality(S)
           /\ \A x \in S : \E k \in DOMAIN line : line[k] = x
           /\ \A j, k \in DOMAIN line : line[j] = line[k] => j = k
<1>. DEFINE S == Elements(flow)
            line == Reading(flow)
            n == Cardinality(S)
            R == {p \in S \X S : ReadsBefore(p[1], p[2])}
            before(x) == {y \in S : ReadsBefore(y, x)}
<1>1. IsStrictOrder(R, S) /\ IsFiniteSet(S)
  BY ReadingOrder, NodesAreFinite, FS_Subset
<1>2. \A x \in S : Place(R, S, x) = Cardinality(before(x))
  <2>. SUFFICES ASSUME NEW x \in S  PROVE Place(R, S, x) = Cardinality(before(x))
    OBVIOUS
  <2>1. {y \in S : <<y, x>> \in R} = before(x)
    OBVIOUS
  <2>. QED  BY <2>1 DEF Place
<1>3. n \in Nat /\ {Place(R, S, x) : x \in S} = 0..(n - 1)
  BY <1>1, PlacesAreTheNumbers
<1>4. line = [k \in 1..n |-> CHOOSE x \in S : Cardinality(before(x)) = k - 1]
  BY DEF Reading, InOrder
<1>5. \A k \in 1..n : line[k] \in S /\ Place(R, S, line[k]) = k - 1
  <2>. SUFFICES ASSUME NEW k \in 1..n  PROVE line[k] \in S /\ Place(R, S, line[k]) = k - 1
    OBVIOUS
  <2>1. k - 1 \in 0..(n - 1)
    BY <1>3
  <2>2. \E x \in S : Place(R, S, x) = k - 1
    BY <1>3, <2>1
  <2>3. \E x \in S : Cardinality(before(x)) = k - 1
    BY <1>2, <2>2
  <2>4. line[k] = CHOOSE x \in S : Cardinality(before(x)) = k - 1
    BY <1>4
  <2>. HIDE DEF before, line, R, S
  <2>5. line[k] \in S /\ Cardinality(before(line[k])) = k - 1
    BY <2>3, <2>4
  <2>. QED  BY <1>2, <2>5
<1>6. IsRanking(line, R, S)
  BY <1>4, <1>5 DEF IsRanking
<1>. HIDE DEF S, line, R, before
<1>7. /\ n \in Nat /\ line \in Seq(S) /\ Len(line) = n /\ DOMAIN line = 1..n
      /\ \A x \in S : \E k \in DOMAIN line : line[k] = x
      /\ \A j, k \in DOMAIN line : line[j] = line[k] => j = k
  BY <1>1, <1>6, Ranked
<1>. QED  BY <1>1, <1>7 DEF S, line

-----------------------------------------------------------------------------
(* The flow of a node whose children were all visited is the flow of the   *)
(* document.                                                               *)

LEMMA FlowFacts ==
    ASSUME TypeInv, NEW o
    PROVE  /\ Flow(o) \in Seq(doc.nodes)
           /\ \A c : c \in Elements(Flow(o)) <=>
                       \E k \in DOMAIN nodes :
                          nodes[k].at = c /\ nodes[k].parent = o /\ ~doc.layout[nodes[k].at].absolute
<1>. DEFINE passes(v) == v.parent = o /\ ~doc.layout[v.at].absolute
            K == {k \in DOMAIN nodes : passes(nodes[k])}
            below == Kept(nodes, K)
<1>1. nodes \in Seq(NodeType) /\ K \in SUBSET (DOMAIN nodes)
  BY DEF TypeInv
<1>2. Flow(o) = [k \in DOMAIN below |-> below[k].at]
  BY DEF Flow, Filtered, Kept
<1>3. /\ \A k \in K : \E j \in DOMAIN below : below[j] = nodes[k]
      /\ \A j \in DOMAIN below : \E k \in K : below[j] = nodes[k]
      /\ Len(below) \in Nat /\ DOMAIN below = 1..Len(below)
  <2>. HIDE DEF K
  <2>. QED  BY <1>1, KeptFacts
<1>. HIDE DEF below
<1>4. \A c : c \in Elements(Flow(o)) <=> \E j \in DOMAIN below : below[j].at = c
  BY <1>2 DEF Elements
<1>5. \A j \in DOMAIN below : below[j].at \in doc.nodes
  <2>1. \A k \in DOMAIN nodes : nodes[k].at \in doc.nodes
    BY LayoutTypes
  <2>. QED  BY <1>3, <2>1
<1>6. Flow(o) \in Seq(doc.nodes)
  BY <1>2, <1>3, <1>5
<1>. QED  BY <1>3, <1>4, <1>6

LEMMA FlowIsWhole ==
    ASSUME ProjectionInv, Faithful, phase = "done", NEW o \in Shown, o \notin Incomplete
    PROVE  Elements(Flow(o)) = InFlow(o)
<1>1. TypeInv /\ Working /\ EveryNodeAccounted /\ IsDocument(doc) /\ IsForest(doc)
  BY PartitionIsAccount, DocIsDocument DEF ProjectionInv, Partition, Working, IsDocument
<1>2. /\ nodes \in Seq(NodeType) /\ omitted \in Seq(OmissionType)
      /\ \A k \in DOMAIN nodes : Asked(nodes[k]) /\ doc.visible[nodes[k].at]
      /\ \A k \in DOMAIN omitted :
           Asked(omitted[k]) /\ (omitted[k].reason = "not-rendered" => ~doc.visible[omitted[k].at])
  BY <1>1, FaithfulFacts DEF TypeInv
<1>3. o \in Requested /\ o \in doc.nodes /\ o # NoParent
  BY <1>1, <1>2 DEF Shown, Asked, Requested, IsDocument
<1>4. ASSUME NEW c \in Elements(Flow(o))  PROVE c \in InFlow(o)
  <2>1. PICK k \in DOMAIN nodes :
            nodes[k].at = c /\ nodes[k].parent = o /\ ~doc.layout[nodes[k].at].absolute
    BY <1>1, <1>4, FlowFacts
  <2>2. c \in Requested /\ doc.visible[c] /\ Placed(nodes[k])
    BY <1>2, <2>1 DEF Asked
  <2>3. doc.parent[c] = o
    BY <1>3, <2>1, <2>2 DEF Placed
  <2>. QED  BY <2>1, <2>2, <2>3 DEF InFlow, Requested
<1>5. ASSUME NEW c \in InFlow(o)  PROVE c \in Elements(Flow(o))
  <2>1. c \in doc.nodes /\ doc.parent[c] = o /\ doc.visible[c] /\ ~doc.layout[c].absolute
    BY <1>5 DEF InFlow
  <2>2. PICK k \in DOMAIN nodes : nodes[k].at = c /\ nodes[k].parent = o
    <3>1. Rendered(c)
      BY <2>1 DEF Rendered
    <3>2. \A k \in DOMAIN omitted : omitted[k].parent = o => omitted[k].reason = "not-rendered"
      BY DEF Incomplete
    <3>. QED  BY <2>1, <3>1, <3>2, ChildrenAreShown DEF ProjectionInv
  <2>. QED  BY <1>1, <2>1, <2>2, FlowFacts
<1>. QED  BY <1>4, <1>5

-----------------------------------------------------------------------------
(* What the review of a stack leaves known is true of its children.        *)

(* A list of children that is read is one arrangement of them.             *)
LEMMA ReadingArranges ==
    ASSUME doc \in Docs, NEW o \in doc.nodes, NEW flow, Elements(flow) = InFlow(o), InFlow(o) # {},
           \A k \in DOMAIN flow : doc.box[flow[k]] # None
    PROVE  LET line == Reading(flow) IN
           /\ line \in Arrangements(o) /\ line \in Seq(InFlow(o))
           /\ Len(line) \in Nat \ {0} /\ DOMAIN line = 1..Len(line)
           /\ Len(line) = Cardinality(InFlow(o))
           /\ \A k \in 1..Len(line) : line[k] \in doc.nodes /\ line[k] \in InFlow(o) /\ doc.box[line[k]] # None
           /\ \A c \in InFlow(o) : \E k \in 1..Len(line) : line[k] = c
<1>. DEFINE line == Reading(flow)
            S == InFlow(o)
<1>1. S \subseteq doc.nodes /\ \A c \in S : doc.box[c] # None
  BY DEF InFlow, Elements
<1>2. /\ line \in Seq(S) /\ Len(line) = Cardinality(S) /\ DOMAIN line = 1..Cardinality(S)
      /\ Cardinality(S) \in Nat
      /\ \A x \in S : \E k \in DOMAIN line : line[k] = x
      /\ \A j, k \in DOMAIN line : line[j] = line[k] => j = k
  BY <1>1, ReadingFacts
<1>. HIDE DEF line, S
<1>3. line \in [1..Cardinality(S) -> S]
  BY <1>2
<1>4. line \in Arrangements(o)
  BY <1>2, <1>3 DEF Arrangements, S
<1>5. Len(line) # 0
  <2>1. PICK x : x \in S
    BY DEF S
  <2>2. PICK k \in DOMAIN line : line[k] = x
    BY <1>2, <2>1
  <2>. QED  BY <1>2, <2>2
<1>6. \A k \in 1..Len(line) : line[k] \in S
  BY <1>2, <1>3
<1>. QED  BY <1>1, <1>2, <1>4, <1>5, <1>6 DEF line, S

LEMMA StackIsTrue ==
    ASSUME doc \in Docs, NEW o \in doc.nodes, NEW flow, Elements(flow) = InFlow(o), InFlow(o) # {},
           NEW plan \in FlexPlan,
           \A claim \in {plan.mainAlign, plan.crossAlign, plan.mainGap, plan.crossGap} : claim # Contradicted
    PROVE  LET c == ReviewStack(o, plan, flow).plan IN
           /\ c.mainAlign.known \/ c.mainGap.known => \E s \in Arrangements(o) : Stacked(o, s, c, 2)
           /\ c.crossAlign.known => \A child \in InFlow(o) : Aligned(o, child, c, 2)
<1>. DEFINE c == ReviewStack(o, plan, flow).plan
            line == Reading(flow)
            n == Len(line)
            axis == plan.axis
            start(k) == Offset(line[k], o, axis)
            size(k) == Size(line[k], axis)
            end(k) == start(k) + size(k)
            inner == Inner(o, axis)
<1>1. flow # <<>>
  BY DEF Elements
<1>2. /\ c.axis = axis
      /\ c.mainAlign.known =>
           Compared(o, flow) /\ ~OriginFails(o, plan, flow) /\ c.mainAlign = plan.mainAlign
      /\ c.mainGap.known =>
           /\ Compared(o, flow) /\ ~(n < 2) /\ ~GapFails(plan, flow)
           /\ Even(plan) => c.mainAlign = plan.mainAlign
           /\ c.mainGap = plan.mainGap
      /\ c.crossAlign.known =>
           Compared(o, flow) /\ ~CrossFails(o, plan, flow) /\ c.crossAlign = plan.crossAlign
  BY <1>1, StackReview
<1>3. axis \in Axes /\ Across(axis) \in Axes
  BY DEF FlexPlan, Across, Axes
<1>4. plan.mainGap.known => plan.mainGap.value \in Int
  BY DEF FlexPlan, GapClaim, NotKnown
<1>. HIDE DEF c
<1>5. ASSUME Compared(o, flow)
      PROVE  /\ line \in Arrangements(o) /\ n \in Nat \ {0} /\ DOMAIN line = 1..n
             /\ doc.box[o] # None /\ inner \in Int
             /\ \A k \in 1..n : line[k] \in doc.nodes /\ doc.box[line[k]] # None
             /\ \A k \in 1..n : start(k) \in Int /\ size(k) \in Nat /\ end(k) \in Int
             /\ \A child \in InFlow(o) : \E k \in 1..n : line[k] = child
  <2>1. doc.box[o] # None /\ \A k \in DOMAIN flow : doc.box[flow[k]] # None
    BY <1>5 DEF Compared, Measurable
  <2>2. /\ line \in Arrangements(o) /\ n \in Nat \ {0} /\ DOMAIN line = 1..n
        /\ \A k \in 1..n : line[k] \in doc.nodes /\ doc.box[line[k]] # None
        /\ \A child \in InFlow(o) : \E k \in 1..n : line[k] = child
    BY <2>1, ReadingArranges
  <2>. HIDE DEF line, n, axis
  <2>3. inner \in Int
    BY <1>3, <2>1, PlaceTypes
  <2>4. ASSUME NEW k \in 1..n  PROVE start(k) \in Int /\ size(k) \in Nat
    <3>1. line[k] \in doc.nodes /\ doc.box[line[k]] # None
      BY <2>2
    <3>. QED  BY <1>3, <2>1, <3>1, PlaceTypes
  <2>. QED  BY <2>1, <2>2, <2>3, <2>4
<1>6. ASSUME c.mainAlign.known \/ c.mainGap.known  PROVE Stacked(o, line, c, 2)
  <2>1. /\ n \in Nat \ {0} /\ DOMAIN line = 1..n /\ inner \in Int /\ doc.box[o] # None
        /\ \A k \in 1..n : line[k] \in doc.nodes /\ doc.box[line[k]] # None
        /\ \A k \in 1..n : start(k) \in Int /\ size(k) \in Nat /\ end(k) \in Int
    BY <1>2, <1>5, <1>6
  <2>2. ASSUME c.mainGap.known, c.mainAlign # Known("space-between"), NEW k \in 2..n
        PROVE  Within(2, start(k) - end(k - 1), c.mainGap.value)
    <3>1. ~Even(plan)
      BY <1>2, <2>2 DEF Even
    <3>2. GapHolds(line, axis, plan.mainGap.value) /\ c.mainGap = plan.mainGap /\ plan.mainGap.value \in Int
      BY <1>2, <1>4, <2>2, <3>1 DEF GapFails
    <3>. DEFINE p == doc.box[line[k]].pos[axis]
                q == doc.box[line[k - 1]].pos[axis]
                base == doc.box[o].pos[axis]
                pad == doc.layout[o].before[axis]
                w == size(k - 1)
                gap == plan.mainGap.value
    <3>3. Near(p - q - w, gap)
      BY <3>2 DEF GapHolds
    <3>4. k \in 1..n /\ k - 1 \in 1..n
      BY <2>1
    <3>5. p \in Int /\ q \in Int /\ base \in Int /\ pad \in Int
      <4>1. line[k] \in doc.nodes /\ line[k - 1] \in doc.nodes
            /\ doc.box[line[k]] # None /\ doc.box[line[k - 1]] # None
        BY <2>1, <3>4
      <4>2. IsLayout(doc.layout[o]) /\ doc.box[o].pos \in [Axes -> Int]
            /\ doc.box[line[k]].pos \in [Axes -> Int] /\ doc.box[line[k - 1]].pos \in [Axes -> Int]
        BY <2>1, <4>1, PlaceTypes
      <4>3. doc.layout[o].before \in [Axes -> Int]
        BY <4>2 DEF IsLayout
      <4>. HIDE DEF axis
      <4>. QED  BY <1>3, <4>2, <4>3
    <3>6. start(k) = p - base - pad /\ end(k - 1) = q - base - pad + w
      BY DEF Offset
    <3>7. w \in Int
      BY <2>1, <3>4
    <3>. HIDE DEF p, q, base, pad, w, gap, start, end
    <3>8. start(k) - end(k - 1) = p - q - w
      BY <3>5, <3>6, <3>7
    <3>9. gap \in Int
      BY <3>2 DEF gap
    <3>10. Within(2, p - q - w, gap)
      BY <3>3 DEF Near, Within
    <3>. QED  BY <3>2, <3>8, <3>10 DEF gap
  <2>3. ASSUME NEW d \in {"start", "center", "end"}, c.mainAlign = Known(d)
        PROVE  LET span == end(n) - start(1) IN Near(Origin(d, span, inner), start(1))
    <3>1. c.mainAlign.known /\ plan.mainAlign = Known(d)
      BY <1>2, <2>3, ClaimFacts
    <3>2. plan.mainAlign.known /\ plan.mainAlign.value = d
      BY <3>1, ClaimFacts
    <3>3. ~Even(plan)
      BY <3>2, ClaimFacts DEF Even
    <3>4. SpanHolds(line, o, axis, d)
      BY <1>2, <3>1, <3>2, <3>3 DEF OriginFails
    <3>. DEFINE a == start(n)
                b == size(n)
                e == start(1)
    <3>5. Near(Origin(d, a + (b - e), inner), e)
      BY <3>4 DEF SpanHolds
    <3>6. a \in Int /\ b \in Int /\ e \in Int
      <4>1. 1 \in 1..n /\ n \in 1..n
        BY <2>1
      <4>. QED  BY <2>1, <4>1
    <3>. HIDE DEF a, b, e
    <3>7. a + (b - e) = (a + b) - e
      BY <3>6
    <3>. QED  BY <3>5, <3>7 DEF a, b, e
  <2>4. c.mainAlign = Known("start") => Within(2, start(1), 0)
    <3>. SUFFICES ASSUME c.mainAlign = Known("start")  PROVE Within(2, start(1), 0)
      OBVIOUS
    <3>1. Near(Origin("start", end(n) - start(1), inner), start(1))
      BY <2>3
    <3>2. Origin("start", end(n) - start(1), inner) = 0
      BY DEF Origin
    <3>3. start(1) \in Int
      BY <2>1
    <3>. HIDE DEF start, end, inner
    <3>4. Near(0, start(1))
      BY <3>1, <3>2
    <3>. QED  BY <3>3, <3>4 DEF Near, Within
  <2>5. c.mainAlign = Known("end") => Within(2, inner - end(n), 0)
    <3>. SUFFICES ASSUME c.mainAlign = Known("end")  PROVE Within(2, inner - end(n), 0)
      OBVIOUS
    <3>1. Near(Origin("end", end(n) - start(1), inner), start(1))
      BY <2>3
    <3>2. Origin("end", end(n) - start(1), inner) = inner - (end(n) - start(1))
      BY DEF Origin
    <3>3. start(1) \in Int /\ end(n) \in Int /\ inner \in Int
      BY <2>1
    <3>. HIDE DEF start, end, inner
    <3>4. Near(inner - (end(n) - start(1)), start(1))
      BY <3>1, <3>2
    <3>. QED  BY <3>3, <3>4 DEF Near, Within
  <2>6. c.mainAlign = Known("center") => Within(2 * 2 + 1, start(1), inner - end(n))
    <3>. SUFFICES ASSUME c.mainAlign = Known("center")  PROVE Within(2 * 2 + 1, start(1), inner - end(n))
      OBVIOUS
    <3>1. Near(Origin("center", end(n) - start(1), inner), start(1))
      BY <2>3
    <3>2. Origin("center", end(n) - start(1), inner) = Rounded(inner - (end(n) - start(1)), 2)
      BY DEF Origin
    <3>3. start(1) \in Int /\ end(n) \in Int /\ inner \in Int
      BY <2>1
    <3>. DEFINE free == inner - (end(n) - start(1))
                half == Rounded(free, 2)
    <3>. HIDE DEF start, end, inner
    <3>4. free \in Int
      BY <3>3
    <3>5. Near(half, start(1))
      BY <3>1, <3>2
    <3>. HIDE DEF free
    <3>6. half \in Int /\ -1 <= 2 * half - free /\ 2 * half - free <= 1
      BY <3>4, HalfFacts
    <3>. HIDE DEF half
    <3>7. -5 <= 2 * start(1) - free /\ 2 * start(1) - free <= 5
      BY <3>3, <3>4, <3>5, <3>6 DEF Near
    <3>8. start(1) - (inner - end(n)) = 2 * start(1) - free
      BY <3>3 DEF free
    <3>. DEFINE e == start(1) - (inner - end(n))
    <3>9. e \in Int /\ -5 <= e /\ e <= 5
      BY <3>3, <3>7, <3>8
    <3>. HIDE DEF e
    <3>10. e \in -(2 * 2 + 1)..(2 * 2 + 1)
      BY <3>9
    <3>. QED  BY <3>10 DEF Within, e
  <2>7. c.mainAlign = Known("space-between") =>
          /\ Within(2, start(1), 0)
          /\ n > 1 => Within(2, inner - end(n), 0)
          /\ \A j, k \in 2..n : Within(4 * 2 + 2, start(j) - end(j - 1), start(k) - end(k - 1))
    <3>. SUFFICES ASSUME c.mainAlign = Known("space-between")
                  PROVE  /\ Within(2, start(1), 0)
                         /\ n > 1 => Within(2, inner - end(n), 0)
                         /\ \A j, k \in 2..n : Within(4 * 2 + 2, start(j) - end(j - 1), start(k) - end(k - 1))
      OBVIOUS
    <3>1. c.mainAlign.known /\ Even(plan)
      BY <1>2, ClaimFacts DEF Even
    <3>2. plan.mainAlign.known
      BY <3>1, ClaimFacts DEF Even
    <3>3. Fits(line, o, axis, "space-between", 0)
      BY <1>2, <3>1, <3>2 DEF OriginFails
    <3>. DEFINE sizes == [k \in DOMAIN line |-> size(k)]
                off == [k \in 1..n |-> start(k)]
    <3>4. \A k \in 1..n : Near(LineOffsets("space-between", sizes, 0, inner)[k], start(k))
      BY <2>1, <3>3 DEF Fits
    <3>5. sizes \in Seq(Int) /\ Len(sizes) = n /\ \A k \in 1..n : sizes[k] = size(k)
      <4>1. sizes = [k \in 1..n |-> size(k)]
        BY <2>1
      <4>. HIDE DEF sizes, size, n
      <4>. QED  BY <2>1, <4>1
    <3>6. \A k \in 1..n : off[k] = start(k) /\ off[k] \in Int
      BY <2>1
    <3>7. inner \in Int /\ n \in Nat \ {0}
      BY <2>1
    <3>. HIDE DEF sizes, off, size, start, inner, n
    <3>8. sizes # <<>>
      BY <3>5, <3>7
    <3>9. \A k \in 1..n : Near(LineOffsets("space-between", sizes, 0, inner)[k], off[k])
      BY <3>4, <3>6
    <3>10. /\ Within(2, off[1], 0)
           /\ n > 1 => Within(2, inner - (off[n] + sizes[n]), 0)
           /\ \A j, k \in 2..n : Within(10, off[j] - (off[j - 1] + sizes[j - 1]), off[k] - (off[k - 1] + sizes[k - 1]))
      BY <3>5, <3>6, <3>7, <3>8, <3>9, EvenSpread
    <3>11. \A k \in 2..n : k \in 1..n /\ k - 1 \in 1..n
      BY <3>7
    <3>12. \A k \in 1..n : off[k] = start(k) /\ off[k] + sizes[k] = end(k)
      BY <3>5, <3>6
    <3>13. 1 \in 1..n /\ n \in 1..n /\ 4 * 2 + 2 = 10
      BY <3>7
    <3>. HIDE DEF end
    <3>14. ASSUME NEW j \in 2..n, NEW k \in 2..n
           PROVE  Within(4 * 2 + 2, start(j) - end(j - 1), start(k) - end(k - 1))
      <4>1. /\ off[j] = start(j) /\ off[j - 1] + sizes[j - 1] = end(j - 1)
            /\ off[k] = start(k) /\ off[k - 1] + sizes[k - 1] = end(k - 1)
        BY <3>11, <3>12
      <4>2. Within(10, off[j] - (off[j - 1] + sizes[j - 1]), off[k] - (off[k - 1] + sizes[k - 1]))
        BY <3>10
      <4>. QED  BY <3>13, <4>1, <4>2
    <3>. QED  BY <3>10, <3>12, <3>13, <3>14
  <2>. QED  BY <1>2, <2>2, <2>4, <2>5, <2>6, <2>7 DEF Stacked
<1>7. ASSUME c.crossAlign.known, NEW child \in InFlow(o)  PROVE Aligned(o, child, c, 2)
  <2>. DEFINE across == Across(axis)
              x == Offset(child, o, across)
              s == Size(child, across)
              room == Inner(o, across)
              d == c.crossAlign.value
  <2>1. /\ Compared(o, flow) /\ plan.crossAlign.known /\ d = plan.crossAlign.value
        /\ CrossHolds(line, o, across, d)
    BY <1>2, <1>7 DEF CrossFails
  <2>2. PICK k \in 1..n : line[k] = child
    BY <1>5, <2>1
  <2>3. child \in doc.nodes /\ doc.box[child] # None /\ doc.box[o] # None /\ k \in DOMAIN line
    BY <1>5, <2>1, <2>2
  <2>4. x \in Int /\ s \in Nat /\ room \in Int
    <3>. HIDE DEF across
    <3>. QED  BY <1>3, <2>3, PlaceTypes DEF across
  <2>5. doc.layout[child].sizing[across] = "FILL" \/ Near(x, Origin(d, s, room))
    BY <2>1, <2>2, <2>3 DEF CrossHolds
  <2>. HIDE DEF x, s, room, d
  <2>6. ASSUME Near(x, Origin("start", s, room))  PROVE Within(2, x, 0)
    <3>1. Origin("start", s, room) = 0
      BY DEF Origin
    <3>. QED  BY <2>4, <2>6, <3>1 DEF Near, Within
  <2>7. ASSUME Near(x, Origin("end", s, room))  PROVE Within(2, room - x - s, 0)
    <3>1. Origin("end", s, room) = room - s
      BY DEF Origin
    <3>. QED  BY <2>4, <2>7, <3>1 DEF Near, Within
  <2>8. ASSUME Near(x, Origin("center", s, room))  PROVE Within(2 * 2 + 1, x, room - x - s)
    <3>. DEFINE free == room - s
                half == Rounded(free, 2)
    <3>1. Origin("center", s, room) = half
      BY DEF Origin
    <3>2. free \in Int
      BY <2>4
    <3>3. half \in Int /\ -1 <= 2 * half - free /\ 2 * half - free <= 1
      <4>. HIDE DEF free
      <4>. QED  BY <3>2, HalfFacts
    <3>4. Near(x, half)
      BY <2>8, <3>1
    <3>. HIDE DEF half
    <3>. QED  BY <2>4, <3>3, <3>4 DEF Near, Within
  <2>9. \A v : c.crossAlign = Known(v) => d = v
    BY ClaimFacts DEF d
  <2>. QED  BY <1>2, <2>5, <2>6, <2>7, <2>8, <2>9 DEF Aligned, x, s, room, across
<1>8. c.mainAlign.known \/ c.mainGap.known => line \in Arrangements(o)
  BY <1>2, <1>5
<1>. QED  BY <1>6, <1>7, <1>8 DEF c

-----------------------------------------------------------------------------
(* lineOffsets with items of one width: a grid of columns.                 *)

LEMMA PairFacts ==
    ASSUME NEW a \in Int, NEW b \in Int
    PROVE  /\ Min({a, b}) = IF a <= b THEN a ELSE b
           /\ Max({a, b}) = IF a >= b THEN a ELSE b
<1>. DEFINE low == IF a <= b THEN a ELSE b
            high == IF a >= b THEN a ELSE b
<1>1. low \in {a, b} /\ \A y \in {a, b} : low <= y
  OBVIOUS
<1>2. high \in {a, b} /\ \A y \in {a, b} : high >= y
  OBVIOUS
<1>3. \A x \in {a, b} : (\A y \in {a, b} : x <= y) => x = low
  OBVIOUS
<1>4. \A x \in {a, b} : (\A y \in {a, b} : x >= y) => x = high
  OBVIOUS
<1>. HIDE DEF low, high
<1>5. Min({a, b}) = low
  BY <1>1, <1>3 DEF Min
<1>6. Max({a, b}) = high
  BY <1>2, <1>4 DEF Max
<1>. QED  BY <1>5, <1>6 DEF low, high

EqualSizes(n, width) == [k \in 1..n |-> width]

LEMMA EqualSums ==
    ASSUME NEW n \in Nat \ {0}, NEW width \in Int
    PROVE  /\ EqualSizes(n, width) \in Seq(Int) /\ Len(EqualSizes(n, width)) = n
           /\ \A k \in 1..(n + 1) : SizesBefore(EqualSizes(n, width))[k] = (k - 1) * width
<1>. DEFINE sizes == EqualSizes(n, width)
            b == SizesBefore(sizes)
<1>1. sizes \in Seq(Int) /\ Len(sizes) = n /\ \A k \in 1..n : sizes[k] = width
  BY DEF EqualSizes
<1>. HIDE DEF sizes
<1>2. b[1] = 0 /\ \A k \in 1..n : b[k + 1] = b[k] + width
  BY <1>1, SumsFacts
<1>. HIDE DEF b
<1>. DEFINE T == {k \in 1..(n + 1) : b[k] # (k - 1) * width}
<1>3. ASSUME T # {}  PROVE FALSE
  <2>1. T \subseteq Nat
    OBVIOUS
  <2>2. PICK m \in T : \A k \in T : m <= k
    BY <1>3, <2>1, LeastNatural
  <2>3. m \in 1..(n + 1) /\ b[m] # (m - 1) * width
    OBVIOUS
  <2>4. m # 1
    <3>1. (1 - 1) * width = 0
      OBVIOUS
    <3>. QED  BY <1>2, <2>3, <3>1
  <2>. DEFINE j == m - 1
  <2>5. j \in 1..n /\ j \in 1..(n + 1) /\ j + 1 = m /\ ~(m <= j)
    BY <2>3, <2>4
  <2>. HIDE DEF j
  <2>6. b[j] = (j - 1) * width
    BY <2>2, <2>5
  <2>7. (j - 1) * width + width = j * width /\ (m - 1) * width = j * width
    <3>. DEFINE i == j - 1
    <3>1. i \in Int /\ j = i + 1 /\ m - 1 = j
      BY <2>5
    <3>. HIDE DEF i
    <3>2. i * width + width = (i + 1) * width
      BY <3>1
    <3>3. j - 1 = i
      BY <2>5, <3>1
    <3>. QED  BY <3>1, <3>2, <3>3
  <2>8. b[m] = b[j] + width
    BY <1>2, <2>5
  <2>. QED  BY <2>3, <2>6, <2>7, <2>8
<1>4. \A k \in 1..(n + 1) : b[k] = (k - 1) * width
  BY <1>3
<1>. QED  BY <1>1, <1>4 DEF sizes, b

(* What is left of a line when its items take n times the pitch.           *)
LEMMA Columns ==
    ASSUME NEW n \in Nat \ {0}, NEW width \in Int, NEW gap \in Int, NEW inner \in Int, NEW j \in 1..n
    PROVE  LET col == j - 1
               pitch == width + gap
               spare == inner - n * pitch + gap
               at(d) == LineOffsets(d, EqualSizes(n, width), gap, inner)[j]
               even == (col * spare) \div Max({1, n - 1})
               half == spare \div 2
           IN /\ at("start") = col * pitch
              /\ at("end") = col * pitch + spare
              /\ 0 <= at("center") - (col * pitch + half) /\ at("center") - (col * pitch + half) <= 1
              /\ 0 <= at("space-between") - (col * pitch + even) /\ at("space-between") - (col * pitch + even) <= 1
              /\ col * pitch \in Int /\ spare \in Int /\ half \in Int /\ even \in Int
              /\ at("center") \in Int /\ at("space-between") \in Int
<1>. DEFINE col == j - 1
            pitch == width + gap
            spare == inner - n * pitch + gap
            sizes == EqualSizes(n, width)
            at(d) == LineOffsets(d, sizes, gap, inner)[j]
            b == SizesBefore(sizes)
            cw == col * width
            cg == col * gap
            cp == col * pitch
            nw == n * width
            ng == n * gap
            np == n * pitch
            even == (col * spare) \div Max({1, n - 1})
            half == spare \div 2
<1>1. col \in Nat /\ pitch \in Int /\ cw \in Int /\ cg \in Int /\ nw \in Int /\ ng \in Int
      /\ cp = cw + cg /\ np = nw + ng
  OBVIOUS
<1>2. /\ sizes \in Seq(Int) /\ Len(sizes) = n
      /\ b[j] = (j - 1) * width /\ b[n + 1] = ((n + 1) - 1) * width
  BY EqualSums
<1>3. b[j] = cw /\ b[n + 1] = nw
  BY <1>2
<1>4. (n - 1) * gap = ng - gap
  OBVIOUS
<1>5. spare = inner - (nw + ng) + gap /\ spare \in Int
  BY <1>1
<1>. DEFINE left == inner - (b[n + 1] + (n - 1) * gap)
            here == b[j] + (j - 1) * gap
<1>6. /\ at("start") = here
      /\ at("end") = here + left
      /\ at("center") = Rounded(2 * here + left, 2)
      /\ n = 1 => at("space-between") = here
      /\ n > 1 => at("space-between") = Rounded(b[j] * (n - 1) + (j - 1) * (inner - b[n + 1]), n - 1)
  <2>. HIDE DEF sizes
  <2>1. j \in 1..Len(sizes)
    BY <1>2
  <2>2. LET m == Len(sizes)
            c == SizesBefore(sizes)
            place == c[j] + (j - 1) * gap
            rest == inner - (c[m + 1] + (m - 1) * gap)
        IN /\ LineOffsets("start", sizes, gap, inner)[j] = place
           /\ LineOffsets("end", sizes, gap, inner)[j] = place + rest
           /\ LineOffsets("center", sizes, gap, inner)[j] = Rounded(2 * place + rest, 2)
           /\ m = 1 => LineOffsets("space-between", sizes, gap, inner)[j] = place
           /\ m > 1 => LineOffsets("space-between", sizes, gap, inner)[j]
                         = Rounded(c[j] * (m - 1) + (j - 1) * (inner - c[m + 1]), m - 1)
    BY <1>2, <2>1, OffsetsFacts
  <2>. QED  BY <1>2, <2>2
<1>7. here = cp
  <2>1. here = cw + cg
    BY <1>3
  <2>. HIDE DEF here
  <2>. QED  BY <1>1, <2>1
<1>8. left = spare
  <2>1. left = inner - (nw + (ng - gap))
    BY <1>3, <1>4
  <2>. HIDE DEF left, spare
  <2>. QED  BY <1>1, <1>5, <2>1
<1>9. at("start") = cp /\ at("end") = cp + spare /\ at("center") = Rounded(2 * cp + spare, 2)
      /\ (n = 1 => at("space-between") = cp)
      /\ (n > 1 => at("space-between") = Rounded(cw * (n - 1) + col * (inner - nw), n - 1))
  <2>. HIDE DEF at, here, left, cw, nw, cp, spare, b
  <2>. QED  BY <1>3, <1>6, <1>7, <1>8
<1>10. cp \in Int
  BY <1>1
<1>11. 0 <= at("center") - (cp + half) /\ at("center") - (cp + half) <= 1
       /\ half \in Int /\ at("center") \in Int
  <2>. HIDE DEF at, cp, spare
  <2>. DEFINE x == 2 * cp + spare
  <2>1. x \in Int /\ x \div 2 = cp + half
    BY <1>5, <1>10
  <2>. HIDE DEF x
  <2>2. Rounded(x, 2) \in Int /\ x \div 2 \in Int /\ 0 <= Rounded(x, 2) - x \div 2 /\ Rounded(x, 2) - x \div 2 <= 1
    BY <2>1, HalfFacts
  <2>3. half \in Int
    BY <1>5
  <2>4. at("center") = Rounded(x, 2)
    BY <1>9 DEF x
  <2>. HIDE DEF half
  <2>. QED  BY <1>10, <2>1, <2>2, <2>3, <2>4
<1>12. even \in Int /\ at("space-between") \in Int /\ 0 <= at("space-between") - (cp + even) /\ at("space-between") - (cp + even) <= 1
  <2>1. CASE n = 1
    <3>1. col = 0 /\ Max({1, n - 1}) = 1
      BY <2>1, PairFacts
    <3>2. col * spare = 0
      BY <1>5, <3>1
    <3>3. even = 0
      BY <3>1, <3>2
    <3>. HIDE DEF at, even, cp
    <3>. QED  BY <1>9, <1>10, <2>1, <3>3
  <2>2. CASE n > 1
    <3>. DEFINE d == n - 1
                num == cw * d + col * (inner - nw)
                cs == col * spare
                q == cs \div d
                r == cs % d
                x == cp + q
                y == Rounded(num, d)
    <3>1. d \in Nat \ {0} /\ n = d + 1
      BY <2>2
    <3>2. Max({1, n - 1}) = d
      <4>1. d >= 1 /\ d \in Int
        BY <3>1
      <4>. HIDE DEF d
      <4>2. Max({1, d}) = d
        BY <4>1, PairFacts
      <4>. QED  BY <4>2 DEF d
    <3>3. even = q
      BY <3>2
    <3>4. cs \in Int
      BY <1>1, <1>5
    <3>5. q \in Int /\ r \in Int /\ cs = d * q + r /\ 0 <= r /\ r <= d - 1
      <4>. HIDE DEF d, cs
      <4>. QED  BY <3>1, <3>4, QuotientFacts
    <3>6. at("space-between") = y
      BY <1>9, <2>2
    <3>. DEFINE ci == col * inner
                cnw == col * nw
                ncw == n * cw
                dcp == d * cp
                ncp == n * cp
    <3>7. num = ci - cw /\ num \in Int /\ ci \in Int
      <4>1. cw * d = ncw - cw
        <5>. HIDE DEF cw
        <5>. QED  BY <1>1
      <4>2. col * (inner - nw) = ci - cnw
        <5>. HIDE DEF nw, col
        <5>. QED  BY <1>1
      <4>3. cnw = ncw
        <5>. HIDE DEF col
        <5>. QED  BY <1>1
      <4>4. ci \in Int /\ cnw \in Int /\ ncw \in Int
        BY <1>1
      <4>5. num = (ncw - cw) + (ci - cnw)
        BY <4>1, <4>2
      <4>. HIDE DEF num, ci, cnw, ncw, cw
      <4>. QED  BY <1>1, <4>3, <4>4, <4>5
    <3>8. dcp + cs = ci - cw
      <4>1. dcp = ncp - cp
        <5>. HIDE DEF cp
        <5>. QED  BY <1>10
      <4>2. cs = ci - col * np + cg
        <5>1. spare = inner - np + gap /\ np \in Int
          OBVIOUS
        <5>. HIDE DEF spare, np, col
        <5>. QED  BY <1>1, <5>1
      <4>3. col * np = ncp
        <5>. HIDE DEF col, pitch
        <5>. QED  BY <1>1
      <4>4. ci \in Int /\ ncp \in Int /\ col * np \in Int /\ dcp \in Int
        BY <1>1, <1>10
      <4>. DEFINE cnp == col * np
      <4>. HIDE DEF cs, ci, ncp, cnp, dcp, cp, cg, cw
      <4>5. cs = ci - cnp + cg /\ cnp = ncp /\ cnp \in Int
        BY <4>2, <4>3, <4>4 DEF cnp
      <4>. QED  BY <1>1, <1>10, <4>1, <4>4, <4>5
    <3>. HIDE DEF d, num, cs, q, r, y, dcp, ci, cp, cw
    <3>9. dcp \in Int /\ d * q \in Int
      BY <1>10, <3>1, <3>5 DEF dcp
    <3>10. d * x = dcp + d * q
      BY <1>10, <3>1, <3>5 DEF dcp
    <3>11. d * x = num - r
      <4>. DEFINE dq == d * q
      <4>1. d * x = dcp + dq /\ cs = dq + r /\ dq \in Int
        BY <3>5, <3>9, <3>10
      <4>. DEFINE dx == d * x
      <4>2. dx = dcp + dq
        BY <4>1
      <4>. HIDE DEF dq, dx
      <4>3. dx = num - r
        BY <1>1, <3>4, <3>5, <3>7, <3>8, <3>9, <4>1, <4>2
      <4>. QED  BY <4>3 DEF dx
    <3>12. y \in Int /\ -d <= 2 * (d * y) - 2 * num /\ 2 * (d * y) - 2 * num <= d
      BY <3>1, <3>7, RoundedFacts DEF y
    <3>. DEFINE e == y - x
    <3>13. x \in Int /\ e \in Int /\ y = x + e
      BY <1>10, <3>5, <3>12
    <3>. HIDE DEF x, e
    <3>14. d * y = d * x + d * e /\ d * (2 * e) = 2 * (d * e) /\ d * e \in Int /\ d * x \in Int
      BY <3>1, <3>13, Distributed
    <3>15. -d <= d * (2 * e) /\ d * (2 * e) < d * 3
      <4>. DEFINE dx == d * x
                  de == d * e
                  dy == d * y
      <4>1. dy = dx + de /\ dx \in Int /\ de \in Int /\ dx = num - r
            /\ -d <= 2 * dy - 2 * num /\ 2 * dy - 2 * num <= d
        BY <3>11, <3>12, <3>14
      <4>. HIDE DEF dx, de, dy
      <4>2. -d <= 2 * de /\ 2 * de < 3 * d
        BY <3>1, <3>5, <3>7, <4>1
      <4>3. d * (2 * e) = 2 * de /\ d * 3 = 3 * d
        BY <3>1, <3>14 DEF de
      <4>. QED  BY <4>2, <4>3
    <3>16. d * (-1) = -d
      BY <3>1
    <3>17. -1 <= 2 * e /\ 2 * e < 3
      <4>. DEFINE t == 2 * e
                  u == -1
                  w == 3
      <4>1. t \in Int /\ u \in Int /\ w \in Int /\ d * u <= d * t /\ d * t < d * w
        BY <3>13, <3>15, <3>16
      <4>. HIDE DEF t, u, w
      <4>2. u <= t /\ t < w
        BY <3>1, <4>1, Divided
      <4>. QED  BY <4>2 DEF t, u, w
    <3>18. e = y - x
      BY <3>13
    <3>19. 0 <= y - x /\ y - x <= 1
      BY <3>13, <3>17, <3>18
    <3>. QED  BY <3>3, <3>5, <3>6, <3>12, <3>19 DEF x, q
  <2>. QED  BY <2>1, <2>2
<1>. HIDE DEF at, cp, spare, half, even
<1>13. /\ at("start") = cp
       /\ at("end") = cp + spare
       /\ 0 <= at("center") - (cp + half) /\ at("center") - (cp + half) <= 1
       /\ 0 <= at("space-between") - (cp + even) /\ at("space-between") - (cp + even) <= 1
       /\ cp \in Int /\ spare \in Int /\ half \in Int /\ even \in Int
       /\ at("center") \in Int /\ at("space-between") \in Int
  BY <1>5, <1>9, <1>10, <1>11, <1>12
<1>. QED  BY <1>13 DEF at, cp, spare, half, even

-----------------------------------------------------------------------------
(* observeLines: every child is near the first one of its row.             *)

RowsOf(f, o, ordered) ==
    f = [k \in 0..Len(ordered) |-> IF k = 0 THEN <<>> ELSE AddToRows(f[k - 1], ordered[k], o)]

LEMMA ObservedUnfolded ==
    ASSUME NEW o, NEW ordered
    PROVE  ObservedRows(o, ordered) = (CHOOSE f : RowsOf(f, o, ordered))[Len(ordered)]
  BY Zenon DEF ObservedRows, RowsOf

RowType(S) == [y : Int, items : Seq(S)]

CloseRow(row, o) == \A j \in DOMAIN row.items : Near(row.y, Offset(row.items[j], o, "v"))

(* Rows in which every child is close to the height of its row.            *)
RowLists(o, S) == {r \in Seq(RowType(S)) : \A i \in DOMAIN r : CloseRow(r[i], o)}

LEMMA RowsGrow ==
    ASSUME NEW o, NEW S, NEW rows \in RowLists(o, S), NEW c \in S, Offset(c, o, "v") \in Int
    PROVE  AddToRows(rows, c, o) \in RowLists(o, S)
<1>. DEFINE y == Offset(c, o, "v")
            near == {i \in DOMAIN rows : Near(rows[i].y, y)}
            m == Min(near)
            added == AddToRows(rows, c, o)
<1>1. rows \in Seq(RowType(S)) /\ DOMAIN rows = 1..Len(rows) /\ Len(rows) \in Nat
      /\ \A i \in DOMAIN rows : rows[i] \in RowType(S) /\ CloseRow(rows[i], o)
  BY DEF RowLists
<1>2. CASE near = {}
  <2>. DEFINE row == [y |-> y, items |-> <<c>>]
  <2>1. added = Append(rows, row)
    BY <1>2 DEF AddToRows
  <2>2. row \in RowType(S) /\ row.y = y /\ row.items = <<c>>
    BY DEF RowType
  <2>3. CloseRow(row, o)
    <3>1. Near(y, y)
      BY DEF Near
    <3>2. DOMAIN row.items = {1} /\ row.items[1] = c
      BY <2>2
    <3>. HIDE DEF row
    <3>. QED  BY <2>2, <3>1, <3>2 DEF CloseRow
  <2>. HIDE DEF row, added
  <2>4. added \in Seq(RowType(S)) /\ \A i \in DOMAIN added : CloseRow(added[i], o)
    BY <1>1, <2>1, <2>2, <2>3, AppendFacts
  <2>. QED  BY <2>4 DEF RowLists, added
<1>3. CASE near # {}
  <2>1. m \in near
    <3>1. near \subseteq Nat
      BY <1>1
    <3>. HIDE DEF near
    <3>2. \E x \in near : \A z \in near : x <= z
      BY <1>3, <3>1, LeastNatural
    <3>. QED  BY <3>2 DEF Min
  <2>2. m \in DOMAIN rows /\ Near(rows[m].y, y)
    BY <2>1
  <2>. HIDE DEF near, m
  <2>. DEFINE row == [rows[m] EXCEPT !.items = Append(@, c)]
  <2>3. added = [rows EXCEPT ![m] = row]
    BY <1>3 DEF AddToRows, near, m
  <2>4. rows[m] \in RowType(S) /\ CloseRow(rows[m], o)
    BY <1>1, <2>2
  <2>5. row \in RowType(S) /\ row.y = rows[m].y /\ row.items = Append(rows[m].items, c)
    BY <2>4, SMTT(30) DEF RowType
  <2>6. CloseRow(row, o)
    <3>1. rows[m].items \in Seq(S)
      BY <2>4 DEF RowType
    <3>. HIDE DEF row
    <3>. QED  BY <2>2, <2>4, <2>5, <3>1, AppendFacts DEF CloseRow
  <2>. HIDE DEF row, added
  <2>7. DOMAIN added = DOMAIN rows /\ \A i \in DOMAIN rows : added[i] = IF i = m THEN row ELSE rows[i]
    BY <2>3
  <2>8. \A i \in 1..Len(rows) : added[i] \in RowType(S) /\ CloseRow(added[i], o)
    BY <1>1, <2>5, <2>6, <2>7
  <2>9. added \in Seq(RowType(S))
    <3>1. added = [i \in 1..Len(rows) |-> added[i]]
      BY <1>1, <2>3
    <3>. QED  BY <1>1, <2>8, <3>1
  <2>. QED  BY <1>1, <2>7, <2>8, <2>9 DEF RowLists, added
<1>. QED  BY <1>2, <1>3

(* The rows grow with each child that is read, and the last are observed.  *)
LEMMA ObservedSteps ==
    ASSUME NEW o, NEW S, NEW ordered \in Seq(S), \A c \in S : Offset(c, o, "v") \in Int
    PROVE  \E f : /\ f[0] = <<>> /\ \A k \in 1..Len(ordered) : f[k] = AddToRows(f[k - 1], ordered[k], o)
                  /\ \A k \in 0..Len(ordered) : f[k] \in RowLists(o, S)
                  /\ ObservedRows(o, ordered) = f[Len(ordered)]
<1>. DEFINE n == Len(ordered)
            N == 0..n
            none == -1
            V == RowLists(o, S)
            parent == [k \in N |-> k - 1]
            base == [k \in N |-> <<>>]
            step == [t \in N \X V |-> IF t[1] = 0 THEN <<>> ELSE AddToRows(t[2], ordered[t[1]], o)]
<1>1. n \in Nat /\ \A k \in 1..n : ordered[k] \in S
  OBVIOUS
<1>. HIDE DEF n
<1>2. N \subseteq Nat /\ parent \in [N -> N \cup {none}]
      /\ \A k \in N : parent[k] = k - 1 /\ (parent[k] # none => parent[k] \in N /\ parent[k] < k)
  BY <1>1
<1>3. <<>> \in V
  <2>1. <<>> \in Seq(RowType(S)) /\ DOMAIN <<>> = {}
    OBVIOUS
  <2>. QED  BY <2>1 DEF RowLists
<1>4. base \in [N -> V] /\ \A k \in N : base[k] = <<>>
  <2>. HIDE DEF V
  <2>. QED  BY <1>3
<1>5. step \in [N \X V -> V]
  <2>. SUFFICES ASSUME NEW k \in N, NEW r \in V
                PROVE (IF k = 0 THEN <<>> ELSE AddToRows(r, ordered[k], o)) \in V
    <3>. HIDE DEF V, N
    <3>. QED  OBVIOUS
  <2>1. k # 0 => ordered[k] \in S /\ Offset(ordered[k], o, "v") \in Int
    BY <1>1
  <2>2. k # 0 => AddToRows(r, ordered[k], o) \in V
    BY <2>1, RowsGrow
  <2>. HIDE DEF V
  <2>. QED  BY <1>3, <2>2
<1>. HIDE DEF V
<1>6. \A k \in N, r \in V : k # 0 => step[k, r] = AddToRows(r, ordered[k], o)
  <2>. HIDE DEF N
  <2>. QED  OBVIOUS
<1>. HIDE DEF parent, base, step, none
<1>7. PICK g \in [N -> V] : SolvesForest(g, N, none, parent, base, step)
  <2>. HIDE DEF N
  <2>. QED  BY <1>2, <1>4, <1>5, ForestRecursion
<1>8. \A k \in N : g[k] = IF parent[k] = none THEN base[k] ELSE step[k, g[parent[k]]]
  BY <1>7, Zenon DEF SolvesForest
<1>9. \A k \in N : g[k] = IF k = 0 THEN <<>> ELSE AddToRows(g[k - 1], ordered[k], o)
  <2>. SUFFICES ASSUME NEW k \in N  PROVE g[k] = IF k = 0 THEN <<>> ELSE AddToRows(g[k - 1], ordered[k], o)
    OBVIOUS
  <2>1. CASE k = 0
    <3>1. parent[k] = none /\ base[k] = <<>>
      BY <1>2, <1>4, <2>1 DEF none
    <3>. QED  BY <1>8, <2>1, <3>1
  <2>2. CASE k # 0
    <3>1. parent[k] = k - 1 /\ parent[k] # none /\ g[k - 1] \in V
      BY <1>1, <1>2, <2>2 DEF none
    <3>. QED  BY <1>6, <1>8, <2>2, <3>1
  <2>. QED  BY <2>1, <2>2
<1>10. RowsOf(g, o, ordered)
  <2>1. g = [k \in N |-> g[k]]
    OBVIOUS
  <2>. QED  BY <1>9, <2>1 DEF RowsOf, n
<1>. DEFINE f == CHOOSE h : RowsOf(h, o, ordered)
<1>11. RowsOf(f, o, ordered)
  BY <1>10, Zenon
<1>. HIDE DEF f
<1>12. f = [k \in N |-> IF k = 0 THEN <<>> ELSE AddToRows(f[k - 1], ordered[k], o)]
  BY <1>11, Zenon DEF RowsOf, n
<1>13. f[0] = <<>> /\ \A k \in N : k # 0 => f[k] = AddToRows(f[k - 1], ordered[k], o)
  BY <1>1, <1>12
<1>14. \A k \in N : f[k] \in V
  <2>. DEFINE T == {k \in N : f[k] \notin V}
  <2>. SUFFICES ASSUME T # {}  PROVE FALSE
    OBVIOUS
  <2>1. PICK m \in T : \A k \in T : m <= k
    BY <1>2, LeastNatural
  <2>2. m \in N /\ m # 0
    BY <1>3, <1>13
  <2>3. m - 1 \in N /\ m \in 1..n /\ ~(m <= m - 1)
    BY <1>1, <2>2
  <2>4. f[m - 1] \in V
    BY <2>1, <2>3
  <2>5. f[m] = AddToRows(f[m - 1], ordered[m], o)
    BY <1>13, <2>2
  <2>6. ordered[m] \in S /\ Offset(ordered[m], o, "v") \in Int
    BY <1>1, <2>3
  <2>7. f[m] \in V
    BY <2>4, <2>5, <2>6, RowsGrow DEF V
  <2>. QED  BY <2>7
<1>15. ObservedRows(o, ordered) = f[n]
  BY ObservedUnfolded DEF f, n
<1>16. /\ f[0] = <<>> /\ \A k \in 1..n : f[k] = AddToRows(f[k - 1], ordered[k], o)
       /\ \A k \in 0..n : f[k] \in RowLists(o, S)
  BY <1>1, <1>13, <1>14 DEF V
<1>. QED  BY <1>15, <1>16 DEF n

LEMMA ObservedFacts ==
    ASSUME NEW o, NEW S, NEW ordered \in Seq(S), \A c \in S : Offset(c, o, "v") \in Int
    PROVE  ObservedRows(o, ordered) \in RowLists(o, S)
<1>1. Len(ordered) \in 0..Len(ordered)
  OBVIOUS
<1>. QED  BY <1>1, ObservedSteps

-----------------------------------------------------------------------------
(* Where the rows of a grid begin and end.                                 *)

LEMMA GridFacts ==
    ASSUME NEW n \in Nat, NEW cap \in Nat \ {0}, NEW k \in 1..n
    PROVE  LET q == (k - 1) \div cap
               r == (k - 1) % cap
               m == (n + cap - 1) \div cap
               taken == Min({cap, n - q * cap})
           IN /\ q \in Nat /\ r \in Nat /\ m \in Nat /\ k = q * cap + (r + 1)
              /\ q + 1 \in 1..m
              /\ taken \in 1..cap /\ r + 1 \in 1..taken
              /\ Min({(q + 1) * cap, n}) = q * cap + taken
              /\ q * cap \in Nat /\ q * cap + taken <= n
              /\ taken < cap => q + 1 = m
<1>. DEFINE q == (k - 1) \div cap
            r == (k - 1) % cap
            a == (n + cap) - 1
            m == a \div cap
            t == a % cap
            taken == Min({cap, n - q * cap})
            qc == cap * q
            mc == cap * m
<1>1. q \in Int /\ r \in Int /\ k - 1 = qc + r /\ 0 <= r /\ r <= cap - 1
  <2>. DEFINE b == k - 1
  <2>1. b \in Int
    OBVIOUS
  <2>. HIDE DEF b
  <2>2. b \div cap \in Int /\ b % cap \in Int /\ b = cap * (b \div cap) + (b % cap)
        /\ 0 <= b % cap /\ b % cap <= cap - 1
    BY <2>1, QuotientFacts
  <2>. QED  BY <2>2 DEF b
<1>2. m \in Int /\ t \in Int /\ a = mc + t /\ 0 <= t /\ t <= cap - 1 /\ a \in Int
  <2>1. a \in Int
    OBVIOUS
  <2>. HIDE DEF a
  <2>. QED  BY <2>1, QuotientFacts
<1>3. n + cap - 1 = a
  OBVIOUS
<1>. HIDE DEF q, r, m, t
<1>4. /\ qc \in Int /\ mc \in Int /\ q * cap = qc /\ (q + 1) * cap = qc + cap
      /\ cap * (q + 1) = qc + cap /\ cap * (q + 2) = qc + 2 * cap
      /\ cap * (m + 1) = mc + cap /\ cap * 0 = 0 /\ cap * (-1) = -cap
  BY <1>1, <1>2
<1>. HIDE DEF qc, mc
<1>5. q >= 0
  <2>. DEFINE u == -1
  <2>1. u \in Int /\ cap * u < cap * q
    BY <1>1, <1>4 DEF qc
  <2>. HIDE DEF u
  <2>2. u < q
    BY <1>1, <2>1, Divided
  <2>. QED  BY <1>1, <2>2 DEF u
<1>6. q + 1 <= m
  <2>. DEFINE u == q + 1
              w == m + 1
  <2>1. u \in Int /\ w \in Int /\ cap * u < cap * w
    BY <1>1, <1>2, <1>4
  <2>. HIDE DEF u, w
  <2>2. u < w
    BY <2>1, Divided
  <2>. QED  BY <1>1, <1>2, <2>2 DEF u, w
<1>. DEFINE rest == n - qc
<1>7. rest \in Int /\ rest >= r + 1 /\ n - q * cap = rest
  BY <1>1, <1>4
<1>8. taken = IF cap <= rest THEN cap ELSE rest
  <2>1. taken = Min({cap, rest})
    BY <1>7
  <2>. HIDE DEF taken, rest
  <2>. QED  BY <1>7, <2>1, PairFacts
<1>9. Min({(q + 1) * cap, n}) = IF qc + cap <= n THEN qc + cap ELSE n
  <2>. DEFINE x == qc + cap
  <2>1. x \in Int /\ (q + 1) * cap = x
    BY <1>4
  <2>. HIDE DEF x
  <2>2. Min({x, n}) = IF x <= n THEN x ELSE n
    BY <2>1, PairFacts
  <2>. QED  BY <2>1, <2>2 DEF x
<1>. HIDE DEF taken
<1>10. taken \in 1..cap /\ r + 1 \in 1..taken
  BY <1>1, <1>7, <1>8
<1>11. Min({(q + 1) * cap, n}) = qc + taken /\ qc + taken <= n
  BY <1>4, <1>8, <1>9
<1>12. ASSUME taken < cap  PROVE q + 1 = m
  <2>1. rest < cap
    BY <1>7, <1>8, <1>12
  <2>. DEFINE w == q + 2
  <2>2. w \in Int /\ cap * m < cap * w
    BY <1>1, <1>2, <1>4, <2>1 DEF mc
  <2>. HIDE DEF w
  <2>3. m < w
    BY <1>2, <2>2, Divided
  <2>. QED  BY <1>1, <1>2, <1>6, <2>3 DEF w
<1>13. qc >= 0
  BY <1>1, <1>5 DEF qc
<1>14. /\ q \in Nat /\ r \in Nat /\ m \in Nat /\ k = q * cap + (r + 1)
       /\ q + 1 \in 1..m /\ q * cap \in Nat
  BY <1>1, <1>2, <1>4, <1>5, <1>6, <1>13
<1>15. /\ Min({(q + 1) * cap, n}) = q * cap + taken /\ q * cap + taken <= n
       /\ (taken < cap => q + 1 = m) /\ taken \in 1..cap /\ r + 1 \in 1..taken
  BY <1>4, <1>10, <1>11, <1>12
<1>. HIDE DEF a
<1>. QED  BY <1>3, <1>14, <1>15 DEF q, r, m, taken

(* The rows that are predicted: there are so many, so many children are in *)
(* the row i, and the k-th child is the column of this row.                *)
RowCount(s, cap) == (Len(s) + cap - 1) \div cap
Taken(s, cap, i) == Min({cap, Len(s) - (i - 1) * cap})
RowOf(cap, k) == (k - 1) \div cap + 1
ColumnOf(cap, k) == ((k - 1) % cap) + 1

LEMMA PredictedFacts ==
    ASSUME NEW S, NEW s \in Seq(S), NEW cap \in Nat \ {0}, NEW k \in 1..Len(s)
    PROVE  /\ DOMAIN PredictedRows(s, cap) = 1..RowCount(s, cap)
           /\ Len(PredictedRows(s, cap)) = RowCount(s, cap)
           /\ PredictedRows(s, cap)[RowOf(cap, k)] \in Seq(S)
           /\ Len(PredictedRows(s, cap)[RowOf(cap, k)]) = Taken(s, cap, RowOf(cap, k))
           /\ PredictedRows(s, cap)[RowOf(cap, k)][ColumnOf(cap, k)] = s[k]
<1>. DEFINE n == Len(s)
            q == (k - 1) \div cap
            r == (k - 1) % cap
            m == (n + cap - 1) \div cap
            taken == Min({cap, n - q * cap})
            rows == PredictedRows(s, cap)
            from(i) == (i - 1) * cap + 1
            upto(i) == Min({i * cap, n})
<1>1. /\ q \in Nat /\ r \in Nat /\ m \in Nat /\ k = q * cap + (r + 1)
      /\ q + 1 \in 1..m
      /\ taken \in 1..cap /\ r + 1 \in 1..taken
      /\ Min({(q + 1) * cap, n}) = q * cap + taken
      /\ q * cap \in Nat /\ q * cap + taken <= n
  <2>1. n \in Nat /\ k \in 1..n
    OBVIOUS
  <2>. HIDE DEF n
  <2>2. /\ q \in Nat /\ r \in Nat /\ m \in Nat /\ k = q * cap + (r + 1)
        /\ q + 1 \in 1..m
        /\ taken \in 1..cap /\ r + 1 \in 1..taken
        /\ Min({(q + 1) * cap, n}) = q * cap + taken
        /\ q * cap \in Nat /\ q * cap + taken <= n
        /\ taken < cap => q + 1 = m
    BY <2>1, GridFacts
  <2>. HIDE DEF q, r, m, taken
  <2>. QED  BY <2>2
<1>2. rows = [i \in 1..m |-> SubSeq(s, from(i), upto(i))]
  BY DEF PredictedRows
<1>3. n \in Nat /\ \A i \in 1..n : s[i] \in S
  OBVIOUS
<1>. HIDE DEF m, q, r, taken, n
<1>4. \A i \in 1..m : SubSeq(s, from(i), upto(i)) \in Seq(S)
  <2>. SUFFICES ASSUME NEW i \in 1..m  PROVE SubSeq(s, from(i), upto(i)) \in Seq(S)
    OBVIOUS
  <2>. DEFINE ic == i * cap
              jc == (i - 1) * cap
  <2>1. ic \in Int /\ jc \in Int
    BY <1>1
  <2>2. jc >= 0
    <3>. DEFINE j == i - 1
    <3>1. j \in Nat
      BY <1>1
    <3>. HIDE DEF j
    <3>2. j * cap >= 0
      BY <3>1
    <3>. QED  BY <3>2 DEF j
  <2>. HIDE DEF ic, jc
  <2>3. upto(i) \in Int /\ upto(i) <= n
    <3>1. Min({ic, n}) = IF ic <= n THEN ic ELSE n
      BY <1>3, <2>1, PairFacts
    <3>. QED  BY <1>3, <2>1, <3>1 DEF ic
  <2>4. from(i) = jc + 1
    BY DEF jc
  <2>. DEFINE x == from(i)
              y == upto(i)
  <2>5. x \in Int /\ x >= 1 /\ y \in Int /\ y <= Len(s)
    BY <2>1, <2>2, <2>3, <2>4 DEF n
  <2>. HIDE DEF x, y
  <2>6. SubSeq(s, x, y) \in Seq(S)
    BY <2>5
  <2>. QED  BY <2>6 DEF x, y
<1>5. rows \in Seq(Seq(S)) /\ DOMAIN rows = 1..m /\ Len(rows) = m
  <2>. DEFINE T == Seq(S)
              row(i) == SubSeq(s, from(i), upto(i))
  <2>1. rows = [i \in 1..m |-> row(i)] /\ \A i \in 1..m : row(i) \in T
    BY <1>2, <1>4
  <2>. HIDE DEF rows, row, T
  <2>2. rows \in Seq(T) /\ DOMAIN rows = 1..m /\ Len(rows) = m
    BY <1>1, <2>1
  <2>. QED  BY <2>2 DEF T
<1>. DEFINE x == q * cap + 1
            y == q * cap + taken
<1>6. rows[q + 1] = SubSeq(s, x, y)
  <2>1. rows[q + 1] = SubSeq(s, from(q + 1), upto(q + 1))
    BY <1>1, <1>2
  <2>2. from(q + 1) = x
    <3>1. (q + 1) - 1 = q
      BY <1>1
    <3>. QED  BY <3>1
  <2>3. upto(q + 1) = y
    BY <1>1
  <2>. HIDE DEF rows, from, upto, x, y
  <2>. QED  BY <2>1, <2>2, <2>3
<1>7. /\ x \in 1..Len(s) /\ y \in x..Len(s) /\ y - x + 1 = taken
      /\ r + 1 \in 1..(y - x + 1) /\ x + (r + 1) - 1 = k
  <2>. DEFINE qc == q * cap
  <2>1. qc \in Nat /\ x = qc + 1 /\ y = qc + taken /\ qc + taken <= n /\ k = qc + (r + 1)
    BY <1>1
  <2>. HIDE DEF qc, x, y
  <2>. QED  BY <1>1, <1>3, <2>1 DEF n
<1>. HIDE DEF x, y, rows
<1>8. Len(SubSeq(s, x, y)) = y - x + 1 /\ SubSeq(s, x, y) \in Seq(S)
  BY <1>7
<1>9. SubSeq(s, x, y)[r + 1] = s[x + (r + 1) - 1]
  <2>. DEFINE j == r + 1
  <2>1. j \in 1..(y - x + 1)
    BY <1>7
  <2>. HIDE DEF j
  <2>2. SubSeq(s, x, y)[j] = s[x + j - 1]
    BY <1>7, <2>1
  <2>. QED  BY <2>2 DEF j
<1>10. rows[q + 1] \in Seq(S) /\ Len(rows[q + 1]) = taken /\ rows[q + 1][r + 1] = s[k]
  BY <1>6, <1>7, <1>8, <1>9
<1>11. m = RowCount(s, cap) /\ RowOf(cap, k) = q + 1 /\ ColumnOf(cap, k) = r + 1
  BY DEF RowCount, RowOf, ColumnOf, m, q, r, n
<1>12. taken = Taken(s, cap, q + 1)
  <2>1. (q + 1) - 1 = q
    BY <1>1
  <2>. QED  BY <2>1 DEF Taken, taken, n
<1>. QED  BY <1>5, <1>10, <1>11, <1>12 DEF rows

(* A row that a distribution explains lies on the columns it predicts.     *)
LEMMA SitsWithin ==
    ASSUME NEW o, NEW row, NEW n \in Nat \ {0}, DOMAIN row = 1..n, NEW width \in Int, NEW gap \in Int,
           Inner(o, "h") \in Int, NEW d \in Spreads, Sits(row, o, width, d, gap),
           NEW j \in 1..n, Offset(row[j], o, "h") \in Int
    PROVE  LET col == j - 1
               pitch == width + gap
               spare == Inner(o, "h") - n * pitch + gap
           IN Within(3, Offset(row[j], o, "h"),
                     col * pitch + CASE d = "start"  -> 0
                                     [] d = "end"    -> spare
                                     [] d = "center" -> spare \div 2
                                     [] OTHER -> (col * spare) \div Max({1, n - 1}))
<1>. DEFINE col == j - 1
            pitch == width + gap
            inner == Inner(o, "h")
            spare == inner - n * pitch + gap
            half == spare \div 2
            even == (col * spare) \div Max({1, n - 1})
            cp == col * pitch
            at == LineOffsets(d, EqualSizes(n, width), gap, inner)[j]
            x == Offset(row[j], o, "h")
            shift == CASE d = "start"  -> 0
                       [] d = "end"    -> spare
                       [] d = "center" -> half
                       [] OTHER        -> even
<1>1. Near(at, x)
  <2>1. [k \in DOMAIN row |-> width] = EqualSizes(n, width)
    BY DEF EqualSizes
  <2>2. j \in DOMAIN row
    OBVIOUS
  <2>. QED  BY <2>1, <2>2 DEF Sits
<1>2. inner \in Int /\ x \in Int
  OBVIOUS
<1>3. /\ d = "start" => at = cp
      /\ d = "end" => at = cp + spare
      /\ d = "center" => 0 <= at - (cp + half) /\ at - (cp + half) <= 1
      /\ d = "space-between" => 0 <= at - (cp + even) /\ at - (cp + even) <= 1
      /\ cp \in Int /\ spare \in Int /\ half \in Int /\ even \in Int
      /\ d \in {"center", "space-between"} => at \in Int
  <2>. DEFINE put(e) == LineOffsets(e, EqualSizes(n, width), gap, inner)[j]
  <2>1. /\ put("start") = cp
        /\ put("end") = cp + spare
        /\ 0 <= put("center") - (cp + half) /\ put("center") - (cp + half) <= 1
        /\ 0 <= put("space-between") - (cp + even) /\ put("space-between") - (cp + even) <= 1
        /\ cp \in Int /\ spare \in Int /\ half \in Int /\ even \in Int
        /\ put("center") \in Int /\ put("space-between") \in Int
    <3>. HIDE DEF inner
    <3>. QED  BY <1>2, Columns
  <2>2. at = put(d)
    OBVIOUS
  <2>. HIDE DEF put, at, cp, spare, half, even
  <2>. QED  BY <2>1, <2>2
<1>4. /\ d = "start" => shift = 0
      /\ d = "end" => shift = spare
      /\ d = "center" => shift = half
      /\ d = "space-between" => shift = even
  <2>. HIDE DEF spare, half, even
  <2>. QED  OBVIOUS
<1>5. at - x \in -2..2
  BY <1>1 DEF Near
<1>. HIDE DEF at, x, shift, cp, spare, half, even
<1>6. d \in {"start", "center", "end", "space-between"}
  BY DEF Spreads
<1>7. at \in Int
  BY <1>3, <1>6
<1>8. shift \in Int /\ 0 <= at - (cp + shift) /\ at - (cp + shift) <= 1
  BY <1>3, <1>4, <1>6, <1>7
<1>9. x - (cp + shift) \in -3..3
  BY <1>2, <1>3, <1>5, <1>7, <1>8
<1>10. Within(3, x, cp + shift)
  BY <1>9 DEF Within
<1>. QED  BY <1>10 DEF x, cp, shift, spare, half, even

-----------------------------------------------------------------------------
(* What a rule leaves known of a row that wraps is true of its children.   *)

LEMMA CapacityFacts ==
    ASSUME NEW o, Inner(o, "h") \in Int, NEW width \in Nat \ {0}, NEW gap \in Nat
    PROVE  Capacity(o, width, gap) \in Nat \ {0}
<1>. DEFINE fit == (Inner(o, "h") + gap) \div (width + gap)
<1>1. fit \in Int
  <2>. DEFINE a == Inner(o, "h") + gap
              b == width + gap
  <2>1. a \in Int /\ b \in Nat \ {0}
    OBVIOUS
  <2>. HIDE DEF a, b
  <2>2. a \div b \in Int
    BY <2>1, QuotientFacts
  <2>. QED  BY <2>2 DEF a, b
<1>2. Capacity(o, width, gap) = Max({1, fit})
  BY DEF Capacity
<1>. DEFINE one == 1
<1>3. one \in Int
  OBVIOUS
<1>. HIDE DEF fit, one
<1>4. Max({one, fit}) = IF one >= fit THEN one ELSE fit
  BY <1>1, <1>3, PairFacts
<1>. QED  BY <1>1, <1>2, <1>4 DEF one

(* How a row is spread, as far as that is known, is how its children lie.  *)
LEMMA RowIsSpread ==
    ASSUME NEW o, NEW flow, NEW full \in Spreads, InlineHolds(o, flow, full),
           NEW cap, cap = RowCapacity(o, flow), cap \in Nat,
           NEW i \in DOMAIN WrapLines(o, flow), NEW taken \in 1..cap, Len(WrapLines(o, flow)[i]) = taken,
           taken < cap => i = Len(WrapLines(o, flow))
    PROVE  LET claim == IF taken = cap THEN Known(full) ELSE Partial(o, flow, full)
           IN claim.known => /\ claim.value \in Spreads
                             /\ Sits(WrapLines(o, flow)[i], o, Width(flow), claim.value, Gap(o))
<1>. DEFINE lines == WrapLines(o, flow)
            row == lines[i]
            open == Open(o, flow, full)
            left == LastSurvivors(o, flow)
            sits(d) == Sits(row, o, Width(flow), d, Gap(o))
<1>1. IF open /\ i = Len(lines) THEN left # {} ELSE sits(full)
  BY DEF InlineHolds, Inline
<1>2. i = Len(lines) => LastRow(o, flow) = row
  BY DEF LastRow
<1>3. open <=> full = "space-between" /\ Len(LastRow(o, flow)) < cap
  BY DEF Open
<1>4. i = Len(lines) => \A d \in left : d \in Spreads /\ sits(d)
  BY <1>2 DEF LastSurvivors, Survivors, Spreads
<1>5. CASE taken = cap
  <2>1. ~(open /\ i = Len(lines))
    BY <1>2, <1>3, <1>5
  <2>2. sits(full)
    BY <1>1, <2>1
  <2>. QED  BY <1>5, <2>2, ClaimFacts
<1>6. CASE taken # cap
  <2>1. taken < cap /\ i = Len(lines) /\ (open <=> full = "space-between")
    BY <1>2, <1>3, <1>6
  <2>2. CASE full # "space-between"
    <3>1. sits(full)
      BY <1>1, <2>1, <2>2
    <3>2. Partial(o, flow, full) = Known(full)
      BY <2>2 DEF Partial, PartialRow
    <3>. QED  BY <1>6, <3>1, <3>2, ClaimFacts
  <2>3. CASE full = "space-between" /\ Cardinality(left) = 1
    <3>. DEFINE d == CHOOSE e \in left : TRUE
    <3>1. left # {}
      BY <1>1, <2>1, <2>3
    <3>2. Partial(o, flow, full) = Known(d)
      BY <2>1, <2>3 DEF Partial, PartialRow
    <3>3. d \in left
      BY <3>1
    <3>. HIDE DEF d
    <3>4. d \in Spreads /\ sits(d)
      BY <1>4, <2>1, <3>3
    <3>. HIDE DEF sits
    <3>5. Known(d).known /\ Known(d).value = d
      BY ClaimFacts
    <3>. QED  BY <1>6, <3>2, <3>4, <3>5 DEF sits
  <2>4. CASE full = "space-between" /\ Cardinality(left) # 1
    <3>1. Partial(o, flow, full) = Unknown("PARTIAL_LINE_UNOBSERVED")
      BY <2>4 DEF Partial, PartialRow
    <3>. QED  BY <1>6, <3>1, ClaimFacts
  <2>. QED  BY <2>2, <2>3, <2>4
<1>. QED  BY <1>5, <1>6

LEMMA WrapIsTrue ==
    ASSUME doc \in Docs, NEW o \in doc.nodes, NEW flow \in Seq(doc.nodes), Elements(flow) = InFlow(o),
           NEW plan \in FlexPlan, WrapEligible(o, plan, flow),
           \A claim \in {plan.mainAlign, plan.crossAlign, plan.mainGap, plan.crossGap} : claim # Contradicted
    PROVE  LET c == Ruled(o, plan, flow).plan IN
           c.mainGap.known /\ c.crossGap.known =>
             \E s \in Arrangements(o) : Repeats(o, s, WrapRule(o, plan, flow), 2)
<1>. DEFINE c == Ruled(o, plan, flow).plan
            rule == WrapRule(o, plan, flow)
            full == plan.mainAlign.value
            s == Reading(flow)
            n == Len(s)
            width == Width(flow)
            height == Size(flow[1], "v")
            gap == Gap(o)
            lineGap == LineGap(doc.layout[o])
            cap == RowCapacity(o, flow)
            lines == WrapLines(o, flow)
            rows == Rows(o, flow)
            inner == Inner(o, "h")
            S == InFlow(o)
<1>. SUFFICES ASSUME c.mainGap.known, c.crossGap.known
              PROVE  \E t \in Arrangements(o) : Repeats(o, t, rule, 2)
  OBVIOUS
<1>1. /\ flow # <<>> /\ doc.box[o] # None /\ plan.mainAlign.known
      /\ \A k \in DOMAIN flow : Measurable(flow[k])
      /\ width > 0 /\ gap >= 0 /\ lineGap >= 0
  BY DEF WrapEligible, Width, Gap
<1>2. IsLayout(doc.layout[o]) /\ gap \in Int /\ lineGap \in Int /\ "h" \in Axes /\ "v" \in Axes
  BY PlaceTypes, DeclaredType DEF Gap, Axes
<1>3. 1 \in DOMAIN flow /\ flow[1] \in doc.nodes /\ \A k \in DOMAIN flow : doc.box[flow[k]] # None
  BY <1>1 DEF Measurable
<1>4. width \in Nat \ {0} /\ height \in Nat /\ inner \in Int /\ gap \in Nat
  <2>1. Size(flow[1], "h") \in Nat /\ Size(flow[1], "v") \in Nat
    BY <1>2, <1>3, PlaceTypes
  <2>2. inner \in Int
    BY <1>1, <1>2, PlaceTypes
  <2>. QED  BY <1>1, <1>2, <2>1, <2>2 DEF Width
<1>5. full \in Spreads
  <2>1. plan.mainAlign \in AlignClaim
    BY DEF FlexPlan
  <2>. QED  BY <1>1, <2>1 DEF AlignClaim, NotKnown
<1>6. /\ rule.track = Known([h |-> width, v |-> height])
      /\ Members(o, flow) /\ InlineHolds(o, flow, full) /\ LinesHold(o, flow)
      /\ rule.packingGap = Known(gap) /\ rule.full = Known(full)
      /\ rule.partial = Partial(o, flow, full) /\ rule.lineGap = Known(lineGap)
  BY <1>1, <1>2, WrapReview
<1>7. /\ rule.track.value.h = width /\ rule.track.value.v = height
      /\ rule.packingGap.value = gap /\ rule.lineGap.value = lineGap
  <2>. HIDE DEF rule, width, height, gap, lineGap
  <2>1. rule.track.value = [h |-> width, v |-> height]
    BY <1>6, ClaimFacts
  <2>. QED  BY <1>6, <2>1, ClaimFacts
<1>8. cap \in Nat \ {0} /\ cap = Capacity(o, width, gap)
  BY <1>4, CapacityFacts DEF RowCapacity
<1>9. /\ s \in Arrangements(o) /\ s \in Seq(S) /\ n \in Nat \ {0} /\ DOMAIN s = 1..n
      /\ \A k \in 1..n : s[k] \in doc.nodes /\ s[k] \in S /\ doc.box[s[k]] # None
  <2>1. InFlow(o) # {}
    BY <1>3 DEF Elements
  <2>. QED  BY <1>3, <2>1, ReadingArranges
<1>10. \A a \in S : Offset(a, o, "v") \in Int /\ Offset(a, o, "h") \in Int
  <2>. SUFFICES ASSUME NEW a \in S  PROVE Offset(a, o, "v") \in Int /\ Offset(a, o, "h") \in Int
    OBVIOUS
  <2>1. a \in doc.nodes /\ doc.box[a] # None
    <3>1. a \in Elements(flow)
      OBVIOUS
    <3>. QED  BY <1>3, <3>1 DEF Elements
  <2>. QED  BY <1>1, <1>2, <2>1, PlaceTypes
<1>11. s \in Seq(S)
  BY <1>9
<1>12. \A i \in DOMAIN rows : CloseRow(rows[i], o) /\ rows[i].y \in Int
  <2>. HIDE DEF s
  <2>1. \A a \in S : Offset(a, o, "v") \in Int
    BY <1>10
  <2>. HIDE DEF S
  <2>2. rows \in RowLists(o, S)
    BY <1>11, <2>1, ObservedFacts DEF Rows, s
  <2>. HIDE DEF rows
  <2>3. rows \in Seq(RowType(S)) /\ \A i \in DOMAIN rows : CloseRow(rows[i], o)
    BY <2>2 DEF RowLists
  <2>4. \A i \in DOMAIN rows : rows[i] \in RowType(S)
    BY <2>3
  <2>. QED  BY <2>3, <2>4 DEF RowType
<1>13. lines = PredictedRows(s, cap)
  BY <1>6 DEF Members
<1>14. DOMAIN lines = DOMAIN rows /\ \A i \in DOMAIN rows : lines[i] = rows[i].items
  BY DEF WrapLines
<1>. HIDE DEF rule, full, s, n, width, height, gap, lineGap, cap, lines, rows, inner, S
<1>. DEFINE pitch == width + gap
            row(k) == (k - 1) \div cap
            column(k) == (k - 1) % cap
            inRow(k) == Min({cap, n - row(k) * cap})
            spare(k) == inner - inRow(k) * pitch + gap
            claim(k) == IF inRow(k) = cap THEN rule.full ELSE rule.partial
            x(k) == column(k) * pitch +
                    CASE claim(k).value = "start"  -> 0
                      [] claim(k).value = "end"    -> spare(k)
                      [] claim(k).value = "center" -> spare(k) \div 2
                      [] OTHER -> (column(k) * spare(k)) \div Max({1, inRow(k) - 1})
<1>15. ASSUME NEW k \in 1..n
       PROVE  /\ claim(k).known => Within(2 + 1, Offset(s[k], o, "h"), x(k))
              /\ Within(2 * 2, Offset(s[k], o, "v"), row(k) * (height + lineGap))
  <2>. DEFINE q == row(k)
              r == column(k)
              m == (n + cap - 1) \div cap
              taken == inRow(k)
              i == q + 1
  <2>1. /\ DOMAIN lines = 1..m /\ Len(lines) = m
        /\ lines[i] \in Seq(S) /\ Len(lines[i]) = taken /\ lines[i][r + 1] = s[k]
    <3>. DEFINE predicted == PredictedRows(s, cap)
    <3>1. k \in 1..Len(s) /\ cap \in Nat \ {0} /\ s \in Seq(S)
      BY <1>8, <1>11 DEF n
    <3>2. /\ DOMAIN predicted = 1..RowCount(s, cap) /\ Len(predicted) = RowCount(s, cap)
          /\ predicted[RowOf(cap, k)] \in Seq(S)
          /\ Len(predicted[RowOf(cap, k)]) = Taken(s, cap, RowOf(cap, k))
          /\ predicted[RowOf(cap, k)][ColumnOf(cap, k)] = s[k]
      BY <3>1, PredictedFacts
    <3>4. m = RowCount(s, cap) /\ RowOf(cap, k) = i /\ ColumnOf(cap, k) = r + 1
      BY DEF RowCount, RowOf, ColumnOf, n
    <3>5. taken = Taken(s, cap, i)
      <4>1. i - 1 = q
        <5>1. q \in Int
          <6>. DEFINE d == k - 1
          <6>1. d \in Int
            OBVIOUS
          <6>. HIDE DEF d
          <6>2. d \div cap \in Int
            BY <1>8, <6>1, QuotientFacts
          <6>. QED  BY <6>2 DEF d
        <5>. HIDE DEF q
        <5>. QED  BY <5>1
      <4>. QED  BY <4>1 DEF Taken, n
    <3>. HIDE DEF m, i, taken, r, predicted
    <3>3. /\ DOMAIN predicted = 1..m /\ Len(predicted) = m
          /\ predicted[i] \in Seq(S) /\ Len(predicted[i]) = taken /\ predicted[i][r + 1] = s[k]
      BY <3>2, <3>4, <3>5
    <3>. HIDE DEF predicted, m, i, taken, r
    <3>. QED  BY <1>13, <3>3 DEF predicted
  <2>2. /\ q \in Nat /\ r \in Nat /\ i \in 1..m /\ taken \in 1..cap /\ r + 1 \in 1..taken
        /\ taken < cap => i = m
    <3>1. n \in Nat
      BY <1>9
    <3>. QED  BY <1>8, <3>1, GridFacts
  <2>3. i \in DOMAIN lines /\ i \in DOMAIN rows /\ lines[i] = rows[i].items
    BY <1>14, <2>1, <2>2
  <2>. DEFINE off == Offset(s[k], o, "h")
              down == Offset(s[k], o, "v")
  <2>4. off \in Int /\ down \in Int
    BY <1>9, <1>10
  <2>. HIDE DEF q, r, m, taken
  <2>5. ASSUME claim(k).known  PROVE Within(2 + 1, off, x(k))
    <3>. DEFINE d == claim(k).value
    <3>1. claim(k) = IF taken = cap THEN Known(full) ELSE Partial(o, flow, full)
      BY <1>6 DEF taken
    <3>2. d \in Spreads /\ Sits(lines[i], o, width, d, gap)
      <4>. DEFINE known == IF taken = cap THEN Known(full) ELSE Partial(o, flow, full)
      <4>. HIDE DEF claim
      <4>1. /\ cap = RowCapacity(o, flow) /\ cap \in Nat /\ i \in DOMAIN WrapLines(o, flow)
            /\ Len(WrapLines(o, flow)[i]) = taken
            /\ taken < cap => i = Len(WrapLines(o, flow))
        BY <1>8, <2>1, <2>2, <2>3 DEF cap, lines
      <4>2. known.known
        BY <2>5, <3>1
      <4>3. full \in Spreads /\ InlineHolds(o, flow, full) /\ taken \in 1..cap
        BY <1>5, <1>6, <2>2
      <4>. HIDE DEF i
      <4>4. known.value \in Spreads /\ Sits(WrapLines(o, flow)[i], o, Width(flow), known.value, Gap(o))
        <5>1. /\ full \in Spreads /\ InlineHolds(o, flow, full)
              /\ cap = RowCapacity(o, flow) /\ cap \in Nat
              /\ i \in DOMAIN WrapLines(o, flow) /\ taken \in 1..cap
              /\ Len(WrapLines(o, flow)[i]) = taken
              /\ taken < cap => i = Len(WrapLines(o, flow))
          BY <4>1, <4>3
        <5>2. LET spread == IF taken = cap THEN Known(full) ELSE Partial(o, flow, full)
              IN spread.known => /\ spread.value \in Spreads
                                 /\ Sits(WrapLines(o, flow)[i], o, Width(flow), spread.value, Gap(o))
          BY <5>1, RowIsSpread
        <5>. QED  BY <4>2, <5>2
      <4>5. d = known.value
        BY <3>1
      <4>. QED  BY <4>4, <4>5 DEF lines, width, gap
    <3>. DEFINE j == r + 1
    <3>3. /\ taken \in Nat \ {0} /\ j \in 1..taken /\ DOMAIN lines[i] = 1..taken
          /\ lines[i][j] = s[k] /\ j - 1 = r
      BY <2>1, <2>2
    <3>4. x(k) = r * pitch + CASE d = "start"  -> 0
                               [] d = "end"    -> inner - taken * pitch + gap
                               [] d = "center" -> (inner - taken * pitch + gap) \div 2
                               [] OTHER -> (r * (inner - taken * pitch + gap)) \div Max({1, taken - 1})
      BY DEF r, taken
    <3>. HIDE DEF d, j, i, x
    <3>5. Offset(lines[i][j], o, "h") \in Int /\ Inner(o, "h") \in Int
      BY <1>4, <2>4, <3>3 DEF inner
    <3>6. width \in Int /\ gap \in Int
      BY <1>4
    <3>7. Within(3, Offset(lines[i][j], o, "h"),
                 (j - 1) * pitch + CASE d = "start"  -> 0
                                     [] d = "end"    -> Inner(o, "h") - taken * pitch + gap
                                     [] d = "center" -> (Inner(o, "h") - taken * pitch + gap) \div 2
                                     [] OTHER -> ((j - 1) * (Inner(o, "h") - taken * pitch + gap))
                                                    \div Max({1, taken - 1}))
      BY <3>2, <3>3, <3>5, <3>6, SitsWithin
    <3>8. Within(3, off, x(k))
      BY <3>3, <3>4, <3>7 DEF inner
    <3>. QED  BY <3>8
  <2>6. Within(2 * 2, down, q * (height + lineGap))
    <3>. DEFINE line == (i - 1) * (height + lineGap)
                y == rows[i].y
    <3>1. CloseRow(rows[i], o) /\ y \in Int
      BY <1>12, <2>3
    <3>2. r + 1 \in DOMAIN rows[i].items /\ rows[i].items[r + 1] = s[k]
      BY <2>1, <2>2, <2>3
    <3>3. Near(y, down)
      BY <3>1, <3>2 DEF CloseRow
    <3>4. Near(y, line)
      BY <1>6, <2>3 DEF LinesHold, rows, height, lineGap
    <3>5. line = q * (height + lineGap)
      <4>1. i - 1 = q
        BY <2>2
      <4>. QED  BY <4>1
    <3>6. line \in Int
      <4>1. height + lineGap \in Int /\ i - 1 \in Int
        BY <1>2, <1>4, <2>2 DEF lineGap
      <4>. DEFINE u == height + lineGap
                  w == i - 1
      <4>. HIDE DEF u, w
      <4>2. w * u \in Int
        BY <4>1 DEF u, w
      <4>. QED  BY <4>2 DEF u, w
    <3>. HIDE DEF line, y, down
    <3>7. down - line \in -4..4
      BY <2>4, <3>1, <3>3, <3>4, <3>6 DEF Near
    <3>8. Within(2 * 2, down, line)
      BY <3>7 DEF Within
    <3>. QED  BY <3>5, <3>8
  <2>. QED  BY <2>5, <2>6 DEF q
<1>16. Repeats(o, s, rule, 2)
  <2>1. Capacity(o, rule.track.value.h, rule.packingGap.value) = cap
    BY <1>7, <1>8
  <2>. QED  BY <1>7, <1>15, <2>1 DEF Repeats, n, inner
<1>. QED  BY <1>9, <1>16

-----------------------------------------------------------------------------
(* What a plan says of a container is true of the children it has in the   *)
(* document.                                                               *)

(* KnownClaimsHold, of one plan.                                           *)
Honest(p) ==
    LET o == p.at
        c == p.container
        rule == p.wrap
    IN /\ c.kind = "flex" /\ ~c.wrap /\ InFlow(o) # {} =>
            /\ c.mainAlign.known \/ c.mainGap.known =>
                 \E s \in Arrangements(o) : Stacked(o, s, c, 2)
            /\ c.crossAlign.known /\ o \notin Incomplete =>
                 \A child \in InFlow(o) : Aligned(o, child, c, 2)
       /\ rule # None /\ c.mainGap.known /\ c.crossGap.known =>
            \E s \in Arrangements(o) : Repeats(o, s, rule, 2)

Projected == {projected[k] : k \in DOMAIN projected}
AllHonest == \A p \in Projected : Honest(p)

LEMMA AllHonestIsKnownClaimsHold == AllHonest <=> KnownClaimsHold
  BY DEF AllHonest, Projected, Honest, KnownClaimsHold

LEMMA ReviewIsTrue ==
    ASSUME doc \in Docs, NEW o \in doc.nodes, NEW flow \in Seq(doc.nodes),
           o \notin Incomplete => Elements(flow) = InFlow(o),
           NEW r, r = ContainerReview(o, ContainerOf(doc.layout[o]), flow),
           NEW p, p.at = o, p.container = r.plan, p.wrap = r.wrap
    PROVE  Honest(p)
<1>. DEFINE c == ContainerOf(doc.layout[o])
<1>1. IsLayout(doc.layout[o])
  BY PlaceTypes
<1>2. p.at = o /\ p.container = r.plan /\ p.wrap = r.wrap
  OBVIOUS
<1>3. CASE c.kind # "flex"
  <2>1. r = Reviewed(c, {})
    BY <1>3 DEF ContainerReview
  <2>2. r.plan = c /\ r.wrap = None
    <3>. HIDE DEF c
    <3>. QED  BY <2>1 DEF Reviewed
  <2>. HIDE DEF c
  <2>. QED  BY <1>2, <1>3, <2>2 DEF Honest
<1>4. CASE c.kind = "flex"
  <2>1. /\ c \in FlexPlan
        /\ \A claim \in {c.mainAlign, c.crossAlign, c.mainGap, c.crossGap} : claim # Contradicted
    BY <1>1, <1>4, ContainerOfFacts
  <2>2. CASE o \in Incomplete
    <3>1. r = Withheld(c, "DEPTH_LIMIT")
      BY <1>4, <2>2 DEF ContainerReview
    <3>. HIDE DEF c
    <3>2. r.wrap = None /\ ~r.plan.mainAlign.known /\ ~r.plan.mainGap.known
      BY <2>1, <3>1, WithheldFacts
    <3>. QED  BY <1>2, <2>2, <3>2 DEF Honest
  <2>3. CASE o \notin Incomplete /\ ~c.wrap
    <3>1. r = ReviewStack(o, c, flow)
      BY <1>4, <2>3 DEF ContainerReview
    <3>. HIDE DEF c
    <3>2. r.wrap = None
      BY <3>1 DEF ReviewStack, Reviewed
    <3>3. InFlow(o) # {} =>
            /\ r.plan.mainAlign.known \/ r.plan.mainGap.known =>
                 \E s \in Arrangements(o) : Stacked(o, s, r.plan, 2)
            /\ r.plan.crossAlign.known => \A child \in InFlow(o) : Aligned(o, child, r.plan, 2)
      BY <2>1, <2>3, <3>1, StackIsTrue
    <3>. QED  BY <1>2, <3>2, <3>3 DEF Honest
  <2>4. CASE o \notin Incomplete /\ c.wrap /\ ~WrapEligible(o, c, flow)
    <3>1. r = Withheld(c, "UNSUPPORTED")
      BY <1>4, <2>4 DEF ContainerReview
    <3>. HIDE DEF c
    <3>2. r.wrap = None /\ r.plan.wrap = c.wrap
      BY <2>1, <3>1, WithheldFacts
    <3>. QED  BY <1>2, <2>4, <3>2 DEF Honest
  <2>5. CASE o \notin Incomplete /\ c.wrap /\ WrapEligible(o, c, flow)
    <3>1. r = Ruled(o, c, flow)
      BY <1>4, <2>5 DEF ContainerReview, Ruled
    <3>2. c.mainAlign.known
      BY <2>5 DEF WrapEligible
    <3>. HIDE DEF c
    <3>3. r.wrap = WrapRule(o, c, flow)
      BY <3>1 DEF Ruled, Plan
    <3>4. r.plan.mainGap.known /\ r.plan.crossGap.known =>
            \E s \in Arrangements(o) : Repeats(o, s, WrapRule(o, c, flow), 2)
      BY <2>1, <2>5, <3>1, WrapIsTrue
    <3>5. r.plan.wrap = c.wrap
      <4>. DEFINE rule == WrapRule(o, c, flow)
      <4>1. r.plan = [c EXCEPT !.mainAlign = rule.full, !.mainGap = rule.packingGap, !.crossGap = rule.lineGap]
        BY <3>1 DEF Ruled, Plan
      <4>. HIDE DEF rule
      <4>. QED  BY <2>1, <4>1 DEF FlexPlan
    <3>. QED  BY <1>2, <2>5, <3>3, <3>4, <3>5 DEF Honest
  <2>. QED  BY <2>2, <2>3, <2>4, <2>5
<1>. QED  BY <1>3, <1>4

LEMMA PlanIsHonest ==
    ASSUME ProjectionInv, Faithful, phase = "done", NEW k \in DOMAIN nodes
    PROVE  Honest(PlanOf(nodes[k]))
<1>. DEFINE v == nodes[k]
            o == v.at
            p == PlanOf(v)
            r == ReviewOf(v)
<1>1. TypeInv /\ doc \in Docs /\ o \in doc.nodes
  BY LayoutTypes DEF ProjectionInv, Partition, TypeInv
<1>2. Flow(o) \in Seq(doc.nodes)
  BY <1>1, FlowFacts
<1>3. o \notin Incomplete => Elements(Flow(o)) = InFlow(o)
  <2>1. o \in Shown
    BY DEF Shown
  <2>. HIDE DEF o
  <2>. QED  BY <2>1, FlowIsWhole
<1>4. p.at = o /\ p.container = r.plan /\ p.wrap = r.wrap
  BY PlanUnfolded
<1>5. r = ContainerReview(o, ContainerOf(doc.layout[o]), Flow(o))
  BY DEF ReviewOf
<1>. DEFINE flow == Flow(o)
<1>. HIDE DEF p, r, o, flow
<1>6. Honest(p)
  <2>1. flow \in Seq(doc.nodes) /\ (o \notin Incomplete => Elements(flow) = InFlow(o))
        /\ r = ContainerReview(o, ContainerOf(doc.layout[o]), flow)
    BY <1>2, <1>3, <1>5 DEF flow
  <2>. QED  BY <1>1, <1>4, <2>1, ReviewIsTrue
<1>. QED  BY <1>6 DEF p

(* Repeats, of one child.                                                  *)
Tiled(rule, n, k, capacity, inner, h, v, slack) ==
    LET pitch == rule.track.value.h + rule.packingGap.value
        row == (k - 1) \div capacity
        column == (k - 1) % capacity
        inRow == Min({capacity, n - row * capacity})
        spare == inner - inRow * pitch + rule.packingGap.value
        claim == IF inRow = capacity THEN rule.full ELSE rule.partial
        x == column * pitch +
                CASE claim.value = "start"  -> 0
                  [] claim.value = "end"    -> spare
                  [] claim.value = "center" -> spare \div 2
                  [] OTHER -> (column * spare) \div Max({1, inRow - 1})
    IN /\ claim.known => Within(slack + 1, h, x)
       /\ Within(2 * slack, v, row * (rule.track.value.v + rule.lineGap.value))

LEMMA RepeatsStays ==
    ASSUME UNCHANGED vars, NEW CONSTANT o, NEW CONSTANT s, NEW CONSTANT rule, NEW CONSTANT slack
    PROVE  Repeats(o, s, rule, slack)' <=> Repeats(o, s, rule, slack)
<1>1. \A a, b, axis : Offset(a, b, axis)' = Offset(a, b, axis) /\ Inner(b, axis)' = Inner(b, axis)
  BY DEF vars, Size, Offset, Inner
<1>. DEFINE capacity == Capacity(o, rule.track.value.h, rule.packingGap.value)
            tiled(k) == Tiled(rule, Len(s), k, capacity, Inner(o, "h"), Offset(s[k], o, "h"),
                              Offset(s[k], o, "v"), slack)
<1>2. Repeats(o, s, rule, slack) <=> \A k \in 1..Len(s) : tiled(k)
  BY DEF Repeats, Tiled
<1>3. Repeats(o, s, rule, slack)' <=> \A k \in 1..Len(s) : tiled(k)'
  BY DEF Repeats, Tiled
<1>4. capacity' = capacity
  BY <1>1 DEF Capacity
<1>5. ASSUME NEW CONSTANT k \in 1..Len(s)  PROVE tiled(k)' <=> tiled(k)
  <2>. HIDE DEF capacity
  <2>. QED  BY <1>1, <1>4
<1>. HIDE DEF tiled
<1>. QED  BY <1>2, <1>3, <1>5

LEMMA HonestStays ==
    ASSUME NEW CONSTANT p, UNCHANGED vars
    PROVE  Honest(p)' <=> Honest(p)
<1>1. doc' = doc /\ nodes' = nodes /\ omitted' = omitted
  BY DEF vars
<1>2. \A a, b, axis : /\ Size(a, axis)' = Size(a, axis) /\ Offset(a, b, axis)' = Offset(a, b, axis)
                      /\ Inner(b, axis)' = Inner(b, axis)
  BY <1>1 DEF Size, Offset, Inner
<1>3. \A o : InFlow(o)' = InFlow(o)
  BY <1>1 DEF InFlow
<1>4. \A o : Arrangements(o)' = Arrangements(o)
  BY <1>3 DEF Arrangements
<1>5. Incomplete' = Incomplete
  BY <1>1 DEF Incomplete
<1>6. \A o, s, c : Stacked(o, s, c, 2)' <=> Stacked(o, s, c, 2)
  BY <1>2 DEF Stacked
<1>7. \A o, child, c : Aligned(o, child, c, 2)' <=> Aligned(o, child, c, 2)
  BY <1>1, <1>2 DEF Aligned
<1>8. \A o, s, rule : Repeats(o, s, rule, 2)' <=> Repeats(o, s, rule, 2)
  BY RepeatsStays
<1>. QED  BY <1>3, <1>4, <1>5, <1>6, <1>7, <1>8 DEF Honest

(* "A numeric or positional claim leaves this file as known only when the  *)
(* declaration's prediction matched the observed geometry" (project.ts):   *)
(* what a plan says is known of a container is true of all the children it *)
(* has in the document, and what is demoted is reported.                   *)
THEOREM ProjectionIsHonest == ProjectionSpec => []ClaimsAreHonest
<1>1. ProjectionInit => AllHonest
  BY DEF ProjectionInit, AllHonest, Projected
<1>2. ASSUME ProjectionInv, Faithful, AllHonest, [ProjectionNext]_<<vars, projectionVars>>
      PROVE  AllHonest'
  <2>1. CASE Cut
    <3>1. projected' = <<>>
      <4>1. phase # "done"
        BY <2>1 DEF Cut, Next, Refuse, Begin, OmitHidden, OmitOverBudget, IncludeAtLimit,
                    IncludeAndDescend, Finish
      <4>. QED  BY <1>2, <2>1, <4>1 DEF Cut, projectionVars, ProjectionInv, PlansFollow
    <3>. QED  BY <3>1 DEF AllHonest, Projected
  <2>2. CASE ProjectNode
    <3>. DEFINE n == Len(projected)
                plan == PlanOf(nodes[n + 1])
    <3>1. /\ phase = "done" /\ n < Len(nodes) /\ UNCHANGED vars
          /\ projected' = Append(projected, plan)
      BY <2>2 DEF ProjectNode, Project
    <3>2. IsList(projected) /\ n \in Nat /\ DOMAIN nodes = 1..Len(nodes) /\ Len(nodes) \in Nat
      BY <1>2, ListGrows DEF ProjectionInv, PlansFollow, Partition, TypeInv
    <3>3. Honest(plan)
      BY <1>2, <3>1, <3>2, PlanIsHonest
    <3>4. Projected' = Projected \cup {plan}
      <4>. HIDE DEF plan
      <4>. QED  BY <3>1, <3>2, ListGrows DEF Projected
    <3>5. ASSUME NEW CONSTANT p \in Projected'  PROVE Honest(p)'
      <4>1. Honest(p)
        BY <1>2, <3>3, <3>4 DEF AllHonest
      <4>. QED  BY <3>1, <4>1, HonestStays
    <3>. QED  BY <3>5 DEF AllHonest
  <2>3. CASE UNCHANGED <<vars, projectionVars>>
    <3>1. UNCHANGED vars /\ Projected' = Projected
      BY <2>3 DEF projectionVars, Projected
    <3>2. ASSUME NEW CONSTANT p \in Projected'  PROVE Honest(p)'
      BY <1>2, <3>1, HonestStays DEF AllHonest
    <3>. QED  BY <3>2 DEF AllHonest
  <2>. QED  BY <1>2, <2>1, <2>2, <2>3 DEF ProjectionNext
<1>3. ProjectionSpec => []AllHonest
  BY <1>1, <1>2, ProjectionIsFaithful, PTL DEF ProjectionSpec
<1>4. AllHonest /\ DemotedLoudly => ClaimsAreHonest
  BY AllHonestIsKnownClaimsHold DEF ClaimsAreHonest
<1>. QED  BY <1>3, <1>4, DemotionIsLoud, PTL

-----------------------------------------------------------------------------
(* Children that fill, and what they fill.                                 *)

(* A length that is taken for E, as often as F says, is off by two for each. *)
LEMMA SharedTotal ==
    ASSUME NEW n \in Nat, NEW z \in [1..n -> Int], NEW F \in SUBSET (1..n), NEW E \in Int,
           \A k \in F : Near(z[k], E),
           NEW rest, rest = [k \in 1..n |-> IF k \in F THEN 0 ELSE z[k]]
    PROVE  LET m == Cardinality(F)
               d == Total(z) - Total(rest) - m * E
           IN /\ m \in Nat /\ Total(z) \in Int /\ Total(rest) \in Int
              /\ -(2 * m) <= d /\ d <= 2 * m
<1>. DEFINE b == SizesBefore(z)
            r == SizesBefore(rest)
            before(k) == F \cap (1..(k - 1))
            c == [k \in 1..(n + 1) |-> Cardinality(before(k))]
            D == [k \in 1..(n + 1) |-> b[k] - r[k] - c[k] * E]
            bounded(k) == -(2 * c[k]) <= D[k] /\ D[k] <= 2 * c[k]
<1>1. z \in Seq(Int) /\ Len(z) = n /\ rest \in Seq(Int) /\ Len(rest) = n
  OBVIOUS
<1>2. /\ b[1] = 0 /\ \A k \in 1..n : b[k + 1] = b[k] + z[k]
      /\ \A k \in 1..(n + 1) : b[k] \in Int
  BY <1>1, SumsFacts
<1>3. /\ r[1] = 0 /\ \A k \in 1..n : r[k + 1] = r[k] + rest[k]
      /\ \A k \in 1..(n + 1) : r[k] \in Int
  BY <1>1, SumsFacts
<1>4. \A k \in 1..(n + 1) : IsFiniteSet(before(k)) /\ c[k] \in Nat /\ c[k] = Cardinality(before(k))
  <2>. SUFFICES ASSUME NEW k \in 1..(n + 1)
                PROVE  IsFiniteSet(before(k)) /\ c[k] \in Nat /\ c[k] = Cardinality(before(k))
    OBVIOUS
  <2>1. IsFiniteSet(1..(k - 1))
    BY FS_Interval
  <2>2. IsFiniteSet(before(k))
    BY <2>1, FS_Subset
  <2>. QED  BY <2>2, FS_CardinalityType
<1>. HIDE DEF c
<1>5. c[1] = 0
  <2>1. before(1) = {} /\ 1 \in 1..(n + 1)
    OBVIOUS
  <2>. QED  BY <1>4, <2>1, FS_EmptySet
<1>6. ASSUME NEW k \in 1..n  PROVE c[k + 1] = IF k \in F THEN c[k] + 1 ELSE c[k]
  <2>. DEFINE A == before(k)
              B == before(k + 1)
  <2>0. k \in 1..(n + 1) /\ k + 1 \in 1..(n + 1)
    OBVIOUS
  <2>1. IsFiniteSet(A) /\ Cardinality(A) = c[k] /\ Cardinality(B) = c[k + 1]
    BY <1>4, <2>0
  <2>2. CASE k \in F
    <3>1. B = A \cup {k} /\ k \notin A
      BY <2>2
    <3>. HIDE DEF A, B
    <3>2. Cardinality(B) = Cardinality(A) + 1
      BY <2>1, <3>1, FS_AddElement
    <3>. QED  BY <2>1, <2>2, <3>2
  <2>3. CASE k \notin F
    <3>1. B = A
      BY <2>3
    <3>. QED  BY <2>1, <2>3, <3>1
  <2>. QED  BY <2>2, <2>3
<1>7. /\ \A k \in F : rest[k] = 0 /\ k \in 1..n /\ -2 <= z[k] - E /\ z[k] - E <= 2
      /\ \A k \in (1..n) \ F : rest[k] = z[k]
  <2>1. /\ \A k \in F : rest[k] = 0 /\ k \in 1..n /\ z[k] \in Int
        /\ \A k \in (1..n) \ F : rest[k] = z[k]
    OBVIOUS
  <2>2. ASSUME NEW k \in F  PROVE -2 <= z[k] - E /\ z[k] - E <= 2
    <3>1. z[k] \in Int /\ Near(z[k], E)
      BY <2>1
    <3>. QED  BY <3>1, NearFacts
  <2>. QED  BY <2>1, <2>2
<1>. HIDE DEF b, r
<1>8. \A k \in 1..n :
         /\ k \in 1..(n + 1) /\ k + 1 \in 1..(n + 1)
         /\ D[k] \in Int /\ c[k] \in Nat /\ z[k] - E \in Int
         /\ k \in F => D[k + 1] = D[k] + (z[k] - E) /\ c[k + 1] = c[k] + 1 /\ -2 <= z[k] - E /\ z[k] - E <= 2
         /\ k \notin F => D[k + 1] = D[k] /\ c[k + 1] = c[k]
  <2>. SUFFICES ASSUME NEW k \in 1..n
                PROVE  /\ k \in 1..(n + 1) /\ k + 1 \in 1..(n + 1)
                       /\ D[k] \in Int /\ c[k] \in Nat /\ z[k] - E \in Int
                       /\ k \in F => /\ D[k + 1] = D[k] + (z[k] - E) /\ c[k + 1] = c[k] + 1
                                     /\ -2 <= z[k] - E /\ z[k] - E <= 2
                       /\ k \notin F => D[k + 1] = D[k] /\ c[k + 1] = c[k]
    OBVIOUS
  <2>. DEFINE u == b[k]
              v == r[k]
              x == z[k]
              C == c[k]
              P == C * E
  <2>0. k \in 1..(n + 1) /\ k + 1 \in 1..(n + 1)
    OBVIOUS
  <2>1. u \in Int /\ v \in Int /\ C \in Nat /\ x \in Int
    BY <1>2, <1>3, <1>4, <2>0
  <2>2. b[k + 1] = u + x /\ r[k + 1] = v + rest[k]
    BY <1>2, <1>3
  <2>3. (C + 1) * E = P + E /\ P \in Int
    BY <2>1
  <2>4. D[k] = u - v - P /\ D[k + 1] = b[k + 1] - r[k + 1] - c[k + 1] * E
    BY <2>0
  <2>. HIDE DEF u, v, x, C, P, D
  <2>5. D[k] \in Int /\ x - E \in Int
    BY <2>1, <2>3, <2>4
  <2>6. CASE k \in F
    <3>1. c[k + 1] = C + 1
      BY <1>6, <2>6 DEF C
    <3>2. rest[k] = 0 /\ -2 <= x - E /\ x - E <= 2
      BY <1>7, <2>6 DEF x
    <3>3. D[k + 1] = (u + x) - (v + 0) - (P + E)
      BY <2>2, <2>3, <2>4, <3>1, <3>2
    <3>4. D[k + 1] = D[k] + (x - E)
      BY <2>1, <2>3, <2>4, <3>3
    <3>. QED  BY <2>0, <2>1, <2>5, <2>6, <3>1, <3>2, <3>4 DEF x, C
  <2>7. CASE k \notin F
    <3>1. c[k + 1] = C /\ rest[k] = x
      BY <1>6, <1>7, <2>7 DEF C, x
    <3>2. D[k + 1] = (u + x) - (v + x) - P
      BY <2>2, <2>4, <3>1 DEF P
    <3>3. D[k + 1] = D[k]
      BY <2>1, <2>3, <2>4, <3>2
    <3>. QED  BY <2>0, <2>1, <2>5, <2>7, <3>1, <3>3 DEF x, C
  <2>. QED  BY <2>6, <2>7
<1>9. D[1] = 0 /\ n + 1 \in 1..(n + 1) /\ D[n + 1] = b[n + 1] - r[n + 1] - c[n + 1] * E
  <2>1. 1 \in 1..(n + 1) /\ n + 1 \in 1..(n + 1)
    OBVIOUS
  <2>2. D[1] = b[1] - r[1] - c[1] * E /\ D[n + 1] = b[n + 1] - r[n + 1] - c[n + 1] * E
    BY <2>1
  <2>3. c[1] * E = 0
    BY <1>5
  <2>. QED  BY <1>2, <1>3, <2>1, <2>2, <2>3
<1>. HIDE DEF D
<1>a. bounded(1)
  BY <1>5, <1>9
<1>b. ASSUME NEW k \in 1..n, bounded(k)  PROVE bounded(k + 1)
  <2>. DEFINE y == z[k] - E
  <2>1. D[k] \in Int /\ c[k] \in Nat /\ y \in Int
    BY <1>8
  <2>2. k \in F => D[k + 1] = D[k] + y /\ c[k + 1] = c[k] + 1 /\ -2 <= y /\ y <= 2
    BY <1>8
  <2>3. k \notin F => D[k + 1] = D[k] /\ c[k + 1] = c[k]
    BY <1>8
  <2>. DEFINE u == D[k]
              v == D[k + 1]
              i == c[k]
              j == c[k + 1]
  <2>4. -(2 * i) <= u /\ u <= 2 * i
    BY <1>b
  <2>. HIDE DEF y, u, v, i, j
  <2>5. CASE k \in F
    <3>1. v = u + y /\ j = i + 1 /\ -2 <= y /\ y <= 2 /\ u \in Int /\ i \in Nat /\ y \in Int
      BY <2>1, <2>2, <2>5 DEF u, v, i, j
    <3>2. -(2 * j) <= v /\ v <= 2 * j
      BY <2>4, <3>1
    <3>. QED  BY <3>2 DEF v, j
  <2>6. CASE k \notin F
    <3>1. v = u /\ j = i
      BY <2>3, <2>6 DEF u, v, i, j
    <3>2. -(2 * j) <= v /\ v <= 2 * j
      BY <2>4, <3>1
    <3>. QED  BY <3>2 DEF v, j
  <2>. QED  BY <2>5, <2>6
<1>. HIDE DEF bounded
<1>10. ASSUME NEW k \in 1..(n + 1), ~bounded(k)  PROVE FALSE
  <2>. DEFINE T == {j \in 1..(n + 1) : ~bounded(j)}
  <2>1. T \subseteq Nat /\ T # {}
    BY <1>10
  <2>2. PICK m \in T : \A j \in T : m <= j
    BY <2>1, LeastNatural
  <2>. DEFINE j == m - 1
  <2>3. m # 1 /\ m \in 1..(n + 1)
    BY <1>a
  <2>4. j \in 1..n /\ j \in 1..(n + 1) /\ j + 1 = m /\ ~(m <= j)
    BY <2>3
  <2>5. bounded(j)
    BY <2>2, <2>4
  <2>. HIDE DEF j
  <2>6. bounded(j + 1)
    BY <1>b, <2>4, <2>5
  <2>. QED  BY <2>4, <2>6
<1>11. bounded(n + 1)
  BY <1>10
<1>12. n + 1 \in 1..(n + 1) /\ before(n + 1) = F
  <2>1. (n + 1) - 1 = n /\ n + 1 \in 1..(n + 1)
    OBVIOUS
  <2>2. before(n + 1) = F \cap (1..n)
    BY <2>1
  <2>3. F \cap (1..n) = F
    OBVIOUS
  <2>. QED  BY <2>1, <2>2, <2>3
<1>13. Total(z) = b[n + 1] /\ Total(rest) = r[n + 1]
  BY <1>1, TotalFacts DEF b, r
<1>14. b[n + 1] \in Int /\ r[n + 1] \in Int /\ c[n + 1] \in Nat /\ c[n + 1] = Cardinality(F)
  BY <1>2, <1>3, <1>4, <1>12
<1>. QED  BY <1>9, <1>11, <1>13, <1>14 DEF bounded

(* The children of o in the slice are one arrangement of those it has.     *)
LEMMA FlowArranges ==
    ASSUME TypeInv, ShownApart, NEW o, Elements(Flow(o)) = InFlow(o)
    PROVE  /\ Flow(o) \in Arrangements(o)
           /\ DOMAIN Flow(o) = 1..Len(Flow(o)) /\ Len(Flow(o)) \in Nat
           /\ Len(Flow(o)) = Cardinality(InFlow(o))
           /\ \A j, k \in DOMAIN Flow(o) : Flow(o)[j] = Flow(o)[k] => j = k
<1>. DEFINE passes(v) == v.parent = o /\ ~doc.layout[v.at].absolute
            K == {k \in DOMAIN nodes : passes(nodes[k])}
            below == Kept(nodes, K)
            flow == Flow(o)
<1>1. nodes \in Seq(NodeType) /\ K \in SUBSET (DOMAIN nodes)
  BY DEF TypeInv
<1>2. \A j, k \in DOMAIN nodes : nodes[j].at = nodes[k].at => j = k
  BY DEF ShownApart
<1>3. flow = [k \in DOMAIN below |-> below[k].at]
  BY DEF Flow, Filtered, Kept
<1>4. /\ \A j \in DOMAIN below : \E k \in K : below[j] = nodes[k]
      /\ Len(below) \in Nat /\ DOMAIN below = 1..Len(below)
      /\ \A j, k \in DOMAIN below : below[j] = below[k] => j = k
  <2>1. \A j, k \in DOMAIN nodes : nodes[j] = nodes[k] => j = k
    BY <1>2
  <2>. HIDE DEF K
  <2>. QED  BY <1>1, <2>1, KeptFacts
<1>. HIDE DEF below
<1>5. \A j, k \in DOMAIN below : below[j].at = below[k].at => j = k
  BY <1>2, <1>4
<1>. DEFINE n == Len(below)
<1>6. DOMAIN flow = 1..n /\ n \in Nat /\ \A j, k \in 1..n : flow[j] = flow[k] => j = k
  BY <1>3, <1>4, <1>5
<1>. HIDE DEF flow, n
<1>7. /\ \A k \in 1..n : flow[k] \in InFlow(o)
      /\ \A c \in InFlow(o) : \E k \in 1..n : c = flow[k]
  BY <1>6 DEF Elements, flow
<1>8. IsFiniteSet(1..n) /\ Cardinality(1..n) = n
  BY <1>6, FS_Interval
<1>9. Cardinality(InFlow(o)) = n
  <2>. DEFINE S == 1..n
              T == InFlow(o)
  <2>1. IsFiniteSet(S) /\ (\A x \in S : flow[x] \in T)
        /\ (\A t \in T : \E x \in S : t = flow[x]) /\ (\A x, y \in S : flow[x] = flow[y] => x = y)
    BY <1>6, <1>7, <1>8
  <2>. HIDE DEF S, T
  <2>2. Cardinality(T) = Cardinality(S)
    BY <2>1, ImageSize
  <2>. QED  BY <1>8, <2>2 DEF S, T
<1>10. flow \in [1..n -> InFlow(o)] /\ Len(flow) = n
  <2>1. flow = [k \in 1..n |-> flow[k]]
    BY <1>3, <1>6 DEF flow
  <2>2. flow \in [1..n -> InFlow(o)]
    BY <1>7, <2>1
  <2>. QED  BY <1>6, <2>2
<1>11. flow \in Arrangements(o)
  BY <1>6, <1>9, <1>10 DEF Arrangements
<1>. QED  BY <1>6, <1>9, <1>10, <1>11 DEF flow

(* Children that are near their share take up what there is.               *)
LEMMA SharesFill ==
    ASSUME doc \in Docs, NEW o \in doc.nodes, doc.box[o] # None, NEW axis \in Axes,
           NEW flow \in Arrangements(o), Len(flow) = Cardinality(InFlow(o)), Len(flow) \in Nat,
           DOMAIN flow = 1..Len(flow),
           \A c \in InFlow(o) : \E k \in DOMAIN flow : flow[k] = c,
           \A k \in DOMAIN flow : doc.box[flow[k]] # None,
           Filling(o, axis) # {},
           \A c \in Filling(o, axis) : Near(Size(c, axis), Share(o, axis, flow))
    PROVE  Within(3 * Cardinality(Filling(o, axis)),
                  Total([k \in DOMAIN flow |-> Size(flow[k], axis)])
                      + PackingGap(doc.layout[o]) * (Cardinality(InFlow(o)) - 1),
                  Inner(o, axis))
<1>. DEFINE n == Len(flow)
            z == [k \in DOMAIN flow |-> Size(flow[k], axis)]
            F == {k \in DOMAIN flow : doc.layout[flow[k]].sizing[axis] = "FILL"}
            rest == [k \in DOMAIN flow |-> IF k \in F THEN 0 ELSE Size(flow[k], axis)]
            m == Cardinality(F)
            inner == Inner(o, axis)
            gaps == PackingGap(doc.layout[o]) * (n - 1)
            R == inner - Total(rest) - gaps
            E == Share(o, axis, flow)
<1>1. E = Rounded(R, Max({1, m}))
  BY DEF Share
<1>2. /\ \A k \in 1..n : flow[k] \in InFlow(o) /\ flow[k] \in doc.nodes /\ doc.box[flow[k]] # None
      /\ \A j, k \in 1..n : flow[j] = flow[k] => j = k
  BY DEF Arrangements, InFlow
<1>3. \A k \in 1..n : Size(flow[k], axis) \in Int
  BY <1>2, PlaceTypes
<1>4. /\ n \in Nat /\ z \in [1..n -> Int] /\ F \in SUBSET (1..n)
      /\ rest = [k \in 1..n |-> IF k \in F THEN 0 ELSE z[k]]
  BY <1>3
<1>5. inner \in Int /\ gaps \in Int
  <2>1. inner \in Int /\ PackingGap(doc.layout[o]) \in Int
    BY PlaceTypes, DeclaredType
  <2>. QED  BY <2>1
<1>6. \A k \in F : Near(z[k], E)
  BY <1>2 DEF Filling
<1>7. IsFiniteSet(F) /\ Cardinality(Filling(o, axis)) = m /\ m \in Nat \ {0}
  <2>. DEFINE T == Filling(o, axis)
  <2>1. (\A x \in F : flow[x] \in T) /\ (\A t \in T : \E x \in F : t = flow[x])
        /\ (\A x, y \in F : flow[x] = flow[y] => x = y)
    BY <1>2 DEF Filling
  <2>2. IsFiniteSet(F)
    <3>. HIDE DEF F
    <3>1. IsFiniteSet(1..n)
      <4>. HIDE DEF n
      <4>1. 1 \in Int /\ n \in Int
        BY <1>4
      <4>. QED  BY <4>1, FS_Interval, Zenon
    <3>. QED  BY <1>4, <3>1, FS_Subset
  <2>. HIDE DEF F
  <2>a. T # {}
    OBVIOUS
  <2>. HIDE DEF T
  <2>3. T # {} /\ F # {}
    <3>1. PICK t \in T : TRUE
      BY <2>a
    <3>2. PICK x \in F : t = flow[x]
      BY <2>1
    <3>. QED  BY <3>1, <3>2
  <2>4. Cardinality(T) = Cardinality(F) /\ Cardinality(F) \in Nat
    BY <2>1, <2>2, ImageSize
  <2>5. Cardinality(F) # 0
    BY <2>2, <2>3, FS_EmptySet
  <2>. QED  BY <2>2, <2>4, <2>5 DEF T
<1>. HIDE DEF z, F, rest, E, inner, gaps
<1>8. Total(z) \in Int /\ Total(rest) \in Int /\ R \in Int
  <2>1. z \in Seq(Int) /\ rest \in Seq(Int)
    BY <1>4
  <2>2. Total(z) \in Int /\ Total(rest) \in Int
    BY <2>1, TotalFacts
  <2>. QED  BY <1>5, <2>2
<1>. HIDE DEF R
<1>9. Max({1, m}) = m
  <2>. DEFINE one == 1
  <2>1. one \in Int /\ m \in Int /\ m >= one
    BY <1>7
  <2>. HIDE DEF one, m
  <2>2. Max({one, m}) = IF one >= m THEN one ELSE m
    BY <2>1, PairFacts
  <2>3. Max({one, m}) = m
    BY <2>1, <2>2
  <2>. QED  BY <2>3 DEF one
<1>10. E \in Int /\ -m <= 2 * (m * E) - 2 * R /\ 2 * (m * E) - 2 * R <= m
  <2>. HIDE DEF m
  <2>. QED  BY <1>1, <1>7, <1>8, <1>9, RoundedFacts
<1>11. LET d == Total(z) - Total(rest) - m * E
       IN -(2 * m) <= d /\ d <= 2 * m
  BY <1>4, <1>6, <1>10, SharedTotal
<1>12. Within(3 * m, Total(z) + gaps, inner)
  <2>. DEFINE P == m * E
              t == Total(z)
              u == Total(rest)
  <2>1. P \in Int /\ t \in Int /\ u \in Int /\ m \in Nat
    BY <1>7, <1>8, <1>10
  <2>2. -m <= 2 * P - 2 * R /\ 2 * P - 2 * R <= m
    BY <1>10
  <2>3. -(2 * m) <= t - u - P /\ t - u - P <= 2 * m
    BY <1>11
  <2>4. R = inner - u - gaps
    BY DEF R
  <2>. HIDE DEF P, t, u, m
  <2>5. -(3 * m) <= (t + gaps) - inner /\ (t + gaps) - inner <= 3 * m
    BY <1>5, <2>1, <2>2, <2>3, <2>4
  <2>6. 3 * m \in Nat /\ t + gaps \in Int
    BY <1>5, <2>1
  <2>7. Within(3 * m, t + gaps, inner)
    BY <1>5, <2>5, <2>6, WithinFacts
  <2>. QED  BY <2>7 DEF t
<1>. QED  BY <1>7, <1>12 DEF z, gaps, inner

(* What a length of node k means was compared with where things are.       *)
Sized(k, size) ==
    LET o == nodes[k].at
        p == nodes[k].parent
    IN \A axis \in Axes : size[axis] \in {"flex", "stretch"} =>
         /\ p # NoParent /\ doc.box[p] # None
         /\ IF axis = MainAxis(doc.layout[p])
            THEN /\ \A j \in DOMAIN Flow(p) : doc.box[Flow(p)[j]] # None
                 /\ Near(Size(o, axis), Share(p, axis, Flow(p)))
            ELSE Near(Size(o, axis), Inner(p, axis))

Sizes == {<<k, projected[k].size>> : k \in DOMAIN projected}
AllSized == \A t \in Sizes : Sized(t[1], t[2])

LEMMA PlanIsSized ==
    ASSUME NEW k \in DOMAIN nodes
    PROVE  Sized(k, PlanOf(nodes[k]).size)
<1>. DEFINE v == nodes[k]
            o == v.at
            p == v.parent
            siblings == Siblings(v)
            size == PlanOf(v).size
<1>1. size = [axis \in Axes |-> ReviewedAxis(o, p, axis, siblings)]
  BY PlanUnfolded
<1>2. p # NoParent => siblings = Flow(p)
  BY DEF Siblings
<1>. HIDE DEF size, siblings
<1>3. ASSUME NEW axis \in Axes, ReviewedAxis(o, p, axis, siblings) \in {"flex", "stretch"}
      PROVE  /\ p # NoParent /\ doc.box[p] # None
             /\ IF axis = MainAxis(doc.layout[p])
                THEN /\ \A j \in DOMAIN Flow(p) : doc.box[Flow(p)[j]] # None
                     /\ Near(Size(o, axis), Share(p, axis, Flow(p)))
                ELSE Near(Size(o, axis), Inner(p, axis))
  <2>. DEFINE plan == AxisPlan(o, p, axis)
              reviewed == ReviewedAxis(o, p, axis, siblings)
  <2>1. plan \in {"stretch", "flex"} /\ reviewed = plan
    BY <1>3 DEF ReviewedAxis
  <2>2. p # NoParent /\ (plan = "flex" <=> axis = MainAxis(doc.layout[p]))
    BY <2>1 DEF AxisPlan
  <2>. HIDE DEF plan
  <2>3. /\ doc.box[p] # None
        /\ plan = "flex" => \A j \in DOMAIN siblings : doc.box[siblings[j]] # None
        /\ Near(Size(o, axis), IF plan = "stretch" THEN Inner(p, axis) ELSE Share(p, axis, siblings))
    BY <2>1 DEF ReviewedAxis, plan
  <2>. QED  BY <1>2, <2>1, <2>2, <2>3
<1>. QED  BY <1>1, <1>3 DEF Sized, size

(* The order in which S is read in the document d.                         *)
ReadsIn(d, a, b) ==
    LET p == d.box[a] q == d.box[b] IN
    \/ q = None /\ (p = None => a < b)
    \/ /\ p # None /\ q # None
       /\ \/ p.pos["v"] < q.pos["v"]
          \/ p.pos["v"] = q.pos["v"] /\ p.pos["h"] < q.pos["h"]
          \/ p.pos = q.pos /\ a < b

ReadingIn(d, S) ==
    [k \in 1..Cardinality(S) |-> CHOOSE x \in S : Cardinality({y \in S : ReadsIn(d, y, x)}) = k - 1]

LEMMA FlowStays ==
    ASSUME UNCHANGED vars, NEW CONSTANT o
    PROVE  Flow(o)' = Flow(o) /\ Reading(Flow(o))' = Reading(Flow(o))
<1>1. doc' = doc /\ nodes' = nodes
  BY DEF vars
<1>2. Flow(o)' = Flow(o)
  <2>. DEFINE K == {j \in DOMAIN nodes : nodes[j].parent = o /\ ~doc.layout[nodes[j].at].absolute}
              below == Kept(nodes, K)
              flow == [j \in DOMAIN below |-> below[j].at]
  <2>1. Flow(o) = flow
    BY DEF Flow, Filtered, Kept
  <2>2. Flow(o)' = flow'
    BY DEF Flow, Filtered, Kept
  <2>3. K' = K
    BY <1>1
  <2>. HIDE DEF K
  <2>4. below' = below
    BY <1>1, <2>3
  <2>. HIDE DEF below
  <2>5. flow' = flow
    BY <2>4
  <2>. QED  BY <2>1, <2>2, <2>5
<1>. DEFINE S == Elements(Flow(o))
<1>3. S' = S
  BY <1>2 DEF Elements
<1>4. Reading(Flow(o)) = ReadingIn(doc, S)
  BY DEF Reading, InOrder, ReadsBefore, ReadingIn, ReadsIn
<1>5. Reading(Flow(o))' = ReadingIn(doc', S')
  BY DEF Reading, InOrder, ReadsBefore, ReadingIn, ReadsIn
<1>. HIDE DEF S
<1>. QED  BY <1>1, <1>2, <1>3, <1>4, <1>5

LEMMA SizedStays ==
    ASSUME NEW CONSTANT k, NEW CONSTANT size, UNCHANGED vars
    PROVE  Sized(k, size)' <=> Sized(k, size)
<1>1. doc' = doc /\ nodes' = nodes
  BY DEF vars
<1>2. \A a, axis : Size(a, axis)' = Size(a, axis) /\ Inner(a, axis)' = Inner(a, axis)
  BY <1>1 DEF Size, Inner
<1>3. \A p : Flow(p)' = Flow(p)
  BY FlowStays
<1>4. \A p, axis, list : Share(p, axis, list)' = Share(p, axis, list)
  BY <1>1, <1>2 DEF Share
<1>. QED  BY <1>1, <1>2, <1>3, <1>4 DEF Sized

LEMMA SizedInvariant == ProjectionSpec => []AllSized
<1>1. ProjectionInit => AllSized
  BY DEF ProjectionInit, AllSized, Sizes
<1>2. ASSUME ProjectionInv, AllSized, [ProjectionNext]_<<vars, projectionVars>>
      PROVE  AllSized'
  <2>1. CASE Cut
    <3>1. projected' = <<>>
      <4>1. phase # "done"
        BY <2>1 DEF Cut, Next, Refuse, Begin, OmitHidden, OmitOverBudget, IncludeAtLimit,
                    IncludeAndDescend, Finish
      <4>. QED  BY <1>2, <2>1, <4>1 DEF Cut, projectionVars, ProjectionInv, PlansFollow
    <3>. QED  BY <3>1 DEF AllSized, Sizes
  <2>2. CASE ProjectNode
    <3>. DEFINE n == Len(projected)
                m == n + 1
                plan == PlanOf(nodes[m])
    <3>1. /\ phase = "done" /\ n < Len(nodes) /\ UNCHANGED vars
          /\ projected' = Append(projected, plan)
      BY <2>2 DEF ProjectNode, Project
    <3>2. IsList(projected) /\ n \in Nat /\ DOMAIN nodes = 1..Len(nodes) /\ Len(nodes) \in Nat
      BY <1>2, ListGrows DEF ProjectionInv, PlansFollow, Partition, TypeInv
    <3>3. Sized(m, plan.size)
      BY <3>1, <3>2, PlanIsSized
    <3>4. Sizes' = Sizes \cup {<<m, plan.size>>}
      <4>. HIDE DEF plan
      <4>. QED  BY <3>1, <3>2, ListGrows DEF Sizes
    <3>5. ASSUME NEW CONSTANT t \in Sizes'  PROVE Sized(t[1], t[2])'
      <4>1. Sized(t[1], t[2])
        <5>. HIDE DEF plan, m
        <5>. QED  BY <1>2, <3>3, <3>4 DEF AllSized
      <4>. QED  BY <3>1, <4>1, SizedStays
    <3>. QED  BY <3>5 DEF AllSized
  <2>3. CASE UNCHANGED <<vars, projectionVars>>
    <3>1. UNCHANGED vars /\ Sizes' = Sizes
      BY <2>3 DEF projectionVars, Sizes
    <3>2. ASSUME NEW CONSTANT t \in Sizes'  PROVE Sized(t[1], t[2])'
      BY <1>2, <3>1, SizedStays DEF AllSized
    <3>. QED  BY <3>2 DEF AllSized
  <2>. QED  BY <1>2, <2>1, <2>2, <2>3 DEF ProjectionNext
<1>. QED  BY <1>1, <1>2, ProjectionInvariant, PTL DEF ProjectionSpec

(* FillsTheParent, of one parent along one axis.                           *)
Filled(o, axis) ==
    LET planned(c) == \E k \in DOMAIN projected :
                        projected[k].at = c /\ projected[k].size[axis] \in {"flex", "stretch"}
        gaps == PackingGap(doc.layout[o]) * (Cardinality(InFlow(o)) - 1)
        taken(s) == Total([k \in DOMAIN s |-> Size(s[k], axis)])
    IN /\ doc.layout[o].mode \in {"HORIZONTAL", "VERTICAL"}
       /\ Filling(o, axis) # {} /\ \A c \in Filling(o, axis) : planned(c)
       => IF axis = MainAxis(doc.layout[o])
          THEN \E s \in Arrangements(o) :
                 Within(3 * Cardinality(Filling(o, axis)), taken(s) + gaps, Inner(o, axis))
          ELSE \A c \in Filling(o, axis) : Within(2, Size(c, axis), Inner(o, axis))

AllFilled ==
    phase = "done" /\ Len(projected) = Len(nodes) =>
        \A o \in {projected[k].at : k \in DOMAIN projected} \ Incomplete : \A axis \in Axes :
            Filled(o, axis)

LEMMA AllFilledIsFillsTheParent == AllFilled <=> FillsTheParent
  BY DEF AllFilled, Filled, FillsTheParent

(* reviewAxisPlan (project.ts): "the remainder after non-flex siblings and *)
(* gaps, split evenly among the flex ones".  Children whose plans are      *)
(* confirmed, one by one, fill their parent together.                      *)
THEOREM FillersFill == ProjectionSpec => []FillsTheParent
<1>1. ASSUME ProjectionInv, Faithful, AllSized  PROVE AllFilled
  <2>. SUFFICES ASSUME phase = "done", NEW i \in DOMAIN projected, projected[i].at \notin Incomplete,
                       NEW axis \in Axes
                PROVE  Filled(projected[i].at, axis)
    BY DEF AllFilled
  <2>. DEFINE o == projected[i].at
              flow == Flow(o)
  <2>. SUFFICES ASSUME Filling(o, axis) # {},
                       \A c \in Filling(o, axis) :
                          \E k \in DOMAIN projected :
                             projected[k].at = c /\ projected[k].size[axis] \in {"flex", "stretch"}
                PROVE  IF axis = MainAxis(doc.layout[o])
                       THEN \E s \in Arrangements(o) :
                              Within(3 * Cardinality(Filling(o, axis)),
                                     Total([k \in DOMAIN s |-> Size(s[k], axis)])
                                         + PackingGap(doc.layout[o]) * (Cardinality(InFlow(o)) - 1),
                                     Inner(o, axis))
                       ELSE \A c \in Filling(o, axis) : Within(2, Size(c, axis), Inner(o, axis))
    BY Zenon DEF Filled
  <2>1. TypeInv /\ Working /\ ShownApart /\ doc \in Docs /\ IsDocument(doc)
    BY <1>1, DocIsDocument DEF ProjectionInv, Partition, Apart, TypeInv, Working, IsDocument
  <2>2. \A k \in DOMAIN projected : k \in DOMAIN nodes /\ projected[k].at = nodes[k].at
    BY <1>1, ListGrows DEF ProjectionInv, PlansFollow, Partition, TypeInv
  <2>3. o \in Shown /\ o \in doc.nodes
    BY <2>1, <2>2, LayoutTypes DEF Shown
  <2>. HIDE DEF o, flow
  <2>4. Elements(flow) = InFlow(o)
    BY <1>1, <2>3, FlowIsWhole DEF flow, o
  <2>5. ASSUME NEW c \in Filling(o, axis)
        PROVE  /\ c \in doc.nodes /\ doc.box[o] # None
               /\ IF axis = MainAxis(doc.layout[o])
                  THEN /\ \A j \in DOMAIN flow : doc.box[flow[j]] # None
                       /\ Near(Size(c, axis), Share(o, axis, flow))
                  ELSE Near(Size(c, axis), Inner(o, axis))
    <3>1. PICK k \in DOMAIN projected :
             projected[k].at = c /\ projected[k].size[axis] \in {"flex", "stretch"}
      BY DEF o
    <3>2. Sized(k, projected[k].size)
      <4>1. <<k, projected[k].size>> \in Sizes
        BY DEF Sizes
      <4>. QED  BY <1>1, <4>1 DEF AllSized
    <3>3. nodes[k].at = c /\ Placed(nodes[k]) /\ c \in doc.nodes /\ doc.parent[c] = o
      BY <1>1, <2>2, <3>1, FaithfulFacts DEF ProjectionInv, Partition, Asked, Filling, InFlow
    <3>4. nodes[k].parent # NoParent
      BY <3>1, <3>2 DEF Sized
    <3>5. nodes[k].parent = o
      BY <3>3, <3>4 DEF Placed
    <3>. QED  BY <3>1, <3>2, <3>3, <3>5 DEF Sized, flow
  <2>6. CASE axis = MainAxis(doc.layout[o])
    <3>1. PICK c : c \in Filling(o, axis)
      BY DEF o
    <3>2. doc.box[o] # None /\ \A j \in DOMAIN flow : doc.box[flow[j]] # None
      BY <2>5, <2>6, <3>1
    <3>3. \A x \in Filling(o, axis) : Near(Size(x, axis), Share(o, axis, flow))
      BY <2>5, <2>6
    <3>4. /\ flow \in Arrangements(o) /\ DOMAIN flow = 1..Len(flow) /\ Len(flow) \in Nat
          /\ Len(flow) = Cardinality(InFlow(o))
      BY <2>1, <2>4, FlowArranges DEF flow
    <3>5. \A x \in InFlow(o) : \E k \in DOMAIN flow : flow[k] = x
      BY <2>4 DEF Elements
    <3>6. Within(3 * Cardinality(Filling(o, axis)),
                 Total([k \in DOMAIN flow |-> Size(flow[k], axis)])
                     + PackingGap(doc.layout[o]) * (Cardinality(InFlow(o)) - 1),
                 Inner(o, axis))
      BY <2>1, <2>3, <3>1, <3>2, <3>3, <3>4, <3>5, SharesFill
    <3>. QED  BY <2>6, <3>4, <3>6 DEF o
  <2>7. CASE axis # MainAxis(doc.layout[o])
    <3>1. ASSUME NEW c \in Filling(o, axis)  PROVE Within(2, Size(c, axis), Inner(o, axis))
      <4>1. Near(Size(c, axis), Inner(o, axis))
        BY <2>5, <2>7, <3>1
      <4>. QED  BY <4>1 DEF Near, Within
    <3>. QED  BY <2>7, <3>1 DEF o
  <2>. QED  BY <2>6, <2>7
<1>. QED  BY <1>1, ProjectionIsFaithful, SizedInvariant, AllFilledIsFillsTheParent, PTL

-----------------------------------------------------------------------------
(* Children that sit where they are declared: a stack.                     *)

(* What sits where it was declared is near what the review computes.       *)

(* The sum of a beginning of a list is what comes before its end.          *)
LEMMA SumOfABeginning ==
    ASSUME NEW sizes \in Seq(Int), NEW k \in 1..(Len(sizes) + 1)
    PROVE  Total([j \in 1..(k - 1) |-> sizes[j]]) = SizesBefore(sizes)[k]
<1>. DEFINE part == [j \in 1..(k - 1) |-> sizes[j]]
            n == Len(sizes)
            m == k - 1
            b == SizesBefore(sizes)
            c == SizesBefore(part)
<1>1. /\ m \in Nat /\ m <= n /\ n \in Nat /\ k = m + 1
      /\ part \in Seq(Int) /\ Len(part) = m /\ \A j \in 1..m : part[j] = sizes[j]
  OBVIOUS
<1>. HIDE DEF part, m, n
<1>2. b[1] = 0 /\ \A j \in 1..n : b[j + 1] = b[j] + sizes[j]
  BY SumsFacts DEF n
<1>3. c[1] = 0 /\ \A j \in 1..m : c[j + 1] = c[j] + part[j]
  BY <1>1, SumsFacts
<1>4. Total(part) = c[m + 1]
  BY <1>1, TotalFacts
<1>. HIDE DEF b, c
<1>. DEFINE T == {j \in 1..k : c[j] # b[j]}
<1>5. ASSUME T # {}  PROVE FALSE
  <2>1. T \subseteq Nat
    OBVIOUS
  <2>2. PICK i \in T : \A j \in T : i <= j
    BY <1>5, <2>1, LeastNatural
  <2>3. i \in 1..k /\ c[i] # b[i] /\ i # 1
    BY <1>2, <1>3
  <2>. DEFINE j == i - 1
  <2>4. j \in 1..m /\ j \in 1..n /\ j \in 1..k /\ j + 1 = i /\ ~(i <= j)
    BY <1>1, <2>3
  <2>. HIDE DEF j
  <2>5. c[j] = b[j]
    BY <2>2, <2>4
  <2>6. c[j + 1] = c[j] + sizes[j] /\ b[j + 1] = b[j] + sizes[j]
    BY <1>1, <1>2, <1>3, <2>4
  <2>. QED  BY <2>3, <2>4, <2>5, <2>6
<1>6. c[k] = b[k]
  <2>1. k \in 1..k
    BY <1>1
  <2>. QED  BY <1>5, <2>1
<1>. QED  BY <1>1, <1>4, <1>6 DEF part, b

(* Of an even share, rounded, one within a step of it is near.             *)
LEMMA ShareIsNear ==
    ASSUME NEW d \in Nat \ {0}, NEW b \in Int, NEW m \in Int, NEW x \in Int,
           Within(d, d * (x - b), m)
    PROVE  Near(Rounded(b * d + m, d), x)
<1>. DEFINE p == Rounded(b * d + m, d)
<1>1. /\ p \in Int /\ -d <= 2 * (d * p) - 2 * (b * d + m) /\ 2 * (d * p) - 2 * (b * d + m) <= d
  <2>. DEFINE t == b * d + m
  <2>1. t \in Int
    OBVIOUS
  <2>. HIDE DEF t
  <2>2. /\ Rounded(t, d) \in Int /\ -d <= 2 * (d * Rounded(t, d)) - 2 * t
        /\ 2 * (d * Rounded(t, d)) - 2 * t <= d
    BY <2>1, RoundedFacts
  <2>. QED  BY <2>2 DEF t
<1>. HIDE DEF p
<1>2. -d <= d * (x - b) - m /\ d * (x - b) - m <= d
  <2>. DEFINE t == d * (x - b)
  <2>1. t \in Int
    OBVIOUS
  <2>. HIDE DEF t
  <2>. QED  BY <2>1, WithinFacts DEF t
<1>. DEFINE dp == d * p
            dx == d * x
            db == d * b
            e == p - x
<1>3. /\ dp \in Int /\ dx \in Int /\ db \in Int /\ b * d = db
      /\ d * (x - b) = dx - db
      /\ d * e = dp - dx /\ e \in Int
  BY <1>1
<1>. HIDE DEF dp, dx, db, e
<1>4. 2 * (d * e) <= 3 * d /\ -3 * d <= 2 * (d * e)
  BY <1>1, <1>2, <1>3 DEF dp
<1>5. e <= 1 /\ -1 <= e
  <2>1. d * 2 = 2 * d /\ d * (-2) = -2 * d /\ d * e \in Int
    BY <1>3
  <2>. DEFINE u == 2
              w == -2
  <2>2. u \in Int /\ w \in Int /\ d * e < d * u /\ d * w < d * e
    BY <1>4, <2>1
  <2>. HIDE DEF u, w
  <2>3. e < u /\ w < e
    BY <1>3, <2>2, Divided
  <2>. QED  BY <1>3, <2>3 DEF u, w
<1>6. p - x \in -2..2
  BY <1>1, <1>3, <1>5 DEF e
<1>. QED  BY <1>6 DEF Near, p

(* No false alarm of a stack: what is declared exactly as it is found in   *)
(* reading order is not contradicted.                                      *)
LEMMA StackIsQuiet ==
    ASSUME doc \in Docs, NEW o \in doc.nodes, NEW flow, Elements(flow) = InFlow(o), InFlow(o) # {},
           NEW plan \in FlexPlan, plan.mainGap.known, plan.crossAlign # Known("space-between"),
           \A claim \in {plan.mainAlign, plan.crossAlign, plan.mainGap, plan.crossGap} : claim # Contradicted,
           Compared(o, flow),
           Stacked(o, Reading(flow), plan, 0),
           plan.mainAlign = Known("space-between") => EvenlySpread(o, Reading(flow), plan.axis),
           \A child \in InFlow(o) : Aligned(o, child, plan, 0)
    PROVE  ReviewStack(o, plan, flow).broken = {}
<1>. DEFINE line == Reading(flow)
            n == Len(line)
            axis == plan.axis
            start(k) == Offset(line[k], o, axis)
            size(k) == Size(line[k], axis)
            end(k) == start(k) + size(k)
            inner == Inner(o, axis)
            room == inner - end(n)
<1>1. axis \in Axes /\ Across(axis) \in Axes
  BY DEF FlexPlan, Across, Axes
<1>2. plan.mainGap.value \in Int /\ plan.mainGap.known
  BY DEF FlexPlan, GapClaim, NotKnown
<1>3. /\ n \in Nat \ {0} /\ DOMAIN line = 1..n
      /\ doc.box[o] # None /\ inner \in Int
      /\ \A k \in 1..n : line[k] \in InFlow(o) /\ line[k] \in doc.nodes /\ doc.box[line[k]] # None
      /\ \A k \in 1..n : start(k) \in Int /\ size(k) \in Nat /\ end(k) \in Int
  <2>1. doc.box[o] # None /\ \A k \in DOMAIN flow : doc.box[flow[k]] # None
    BY DEF Compared, Measurable
  <2>2. /\ n \in Nat \ {0} /\ DOMAIN line = 1..n
        /\ \A k \in 1..n : line[k] \in InFlow(o) /\ line[k] \in doc.nodes /\ doc.box[line[k]] # None
    BY <2>1, ReadingArranges
  <2>. HIDE DEF line, n, axis
  <2>3. inner \in Int
    BY <1>1, <2>1, PlaceTypes
  <2>4. ASSUME NEW k \in 1..n  PROVE start(k) \in Int /\ size(k) \in Nat
    <3>1. line[k] \in doc.nodes /\ doc.box[line[k]] # None
      BY <2>2
    <3>. QED  BY <1>1, <2>1, <3>1, PlaceTypes
  <2>. QED  BY <2>1, <2>2, <2>3, <2>4
<1>4. /\ ~Even(plan) => \A k \in 2..n : Within(0, start(k) - end(k - 1), plan.mainGap.value)
      /\ plan.mainAlign = Known("start") => Within(0, start(1), 0)
      /\ plan.mainAlign = Known("end") => Within(0, room, 0)
      /\ plan.mainAlign = Known("center") => Within(2 * 0 + 1, start(1), room)
      /\ Even(plan) => Within(0, start(1), 0)
  BY <1>2 DEF Stacked, Even
<1>5. 1 \in 1..n /\ n \in 1..n /\ room \in Int
  BY <1>3
<1>6. ~GapFails(plan, flow)
  <2>. SUFFICES ASSUME ~Even(plan)  PROVE GapHolds(line, axis, plan.mainGap.value)
    BY DEF GapFails
  <2>. SUFFICES ASSUME NEW k \in 2..n
                PROVE  Near(doc.box[line[k]].pos[axis] - doc.box[line[k - 1]].pos[axis] - size(k - 1),
                            plan.mainGap.value)
    BY DEF GapHolds
  <2>. DEFINE p == doc.box[line[k]].pos[axis]
              q == doc.box[line[k - 1]].pos[axis]
              base == doc.box[o].pos[axis]
              pad == doc.layout[o].before[axis]
              w == size(k - 1)
              gap == plan.mainGap.value
  <2>1. k \in 1..n /\ k - 1 \in 1..n
    BY <1>3
  <2>2. p \in Int /\ q \in Int /\ base \in Int /\ pad \in Int
    <3>1. line[k] \in doc.nodes /\ line[k - 1] \in doc.nodes
          /\ doc.box[line[k]] # None /\ doc.box[line[k - 1]] # None
      BY <1>3, <2>1
    <3>2. IsLayout(doc.layout[o]) /\ doc.box[o].pos \in [Axes -> Int]
          /\ doc.box[line[k]].pos \in [Axes -> Int] /\ doc.box[line[k - 1]].pos \in [Axes -> Int]
      BY <1>3, <3>1, PlaceTypes
    <3>3. doc.layout[o].before \in [Axes -> Int]
      BY <3>2 DEF IsLayout
    <3>. HIDE DEF axis
    <3>. QED  BY <1>1, <3>2, <3>3
  <2>3. start(k) = p - base - pad /\ end(k - 1) = q - base - pad + w
    BY DEF Offset
  <2>4. w \in Int /\ gap \in Int
    BY <1>2, <1>3, <2>1
  <2>5. Within(0, start(k) - end(k - 1), gap)
    BY <1>4
  <2>. HIDE DEF p, q, base, pad, w, gap, start, end
  <2>6. start(k) - end(k - 1) = p - q - w
    BY <2>2, <2>3, <2>4
  <2>7. Within(0, p - q - w, gap)
    BY <2>5, <2>6
  <2>8. Near(p - q - w, gap)
    BY <2>2, <2>4, <2>7 DEF Near, Within
  <2>. QED  BY <2>8 DEF p, q, w, gap
<1>7. ~OriginFails(o, plan, flow)
  <2>1. ASSUME Even(plan)  PROVE Fits(line, o, axis, "space-between", 0)
    <3>. DEFINE sizes == [k \in DOMAIN line |-> size(k)]
                b == SizesBefore(sizes)
    <3>1. sizes \in Seq(Int) /\ Len(sizes) = n /\ \A k \in 1..n : sizes[k] = size(k)
      <4>1. sizes = [k \in 1..n |-> size(k)]
        BY <1>3
      <4>. HIDE DEF sizes, size, n
      <4>. QED  BY <1>3, <4>1
    <3>2. \A k \in 1..n : Within(n - 1,
              (n - 1) * (start(k) - Total([j \in 1..(k - 1) |-> size(j)])),
              (k - 1) * (inner - Total([j \in 1..((n + 1) - 1) |-> size(j)])))
      BY <2>1 DEF Even, EvenlySpread
    <3>3. ASSUME NEW k \in 1..(n + 1)
          PROVE  Total([j \in 1..(k - 1) |-> size(j)]) = b[k] /\ b[k] \in Int
      <4>1. \A j \in 1..(k - 1) : size(j) = sizes[j]
        BY <1>3, <3>1
      <4>. HIDE DEF sizes, size, n
      <4>2. [j \in 1..(k - 1) |-> size(j)] = [j \in 1..(k - 1) |-> sizes[j]]
        BY <4>1
      <4>3. Total([j \in 1..(k - 1) |-> sizes[j]]) = b[k]
        BY <3>1, SumOfABeginning
      <4>. QED  BY <3>1, <4>2, <4>3, SumsFacts
    <3>. HIDE DEF b, sizes
    <3>4. ASSUME NEW k \in 1..n
          PROVE  Near(LineOffsets("space-between", sizes, 0, inner)[k], start(k))
      <4>. HIDE DEF size, n, inner
      <4>0. k \in 1..(n + 1) /\ n + 1 \in 1..(n + 1) /\ k \in Int
        BY <1>3
      <4>1. b[k] \in Int /\ b[n + 1] \in Int
            /\ Total([j \in 1..(k - 1) |-> size(j)]) = b[k]
            /\ Total([j \in 1..((n + 1) - 1) |-> size(j)]) = b[n + 1]
        BY <3>3, <4>0
      <4>2. Within(n - 1, (n - 1) * (start(k) - b[k]), (k - 1) * (inner - b[n + 1]))
        BY <3>2, <4>1
      <4>3. start(k) \in Int /\ inner \in Int
        BY <1>3
      <4>. HIDE DEF start
      <4>. DEFINE at(gap) == LineOffsets("space-between", sizes, gap, inner)[k]
      <4>6. /\ n = 1 => at(0) = b[k] + (k - 1) * 0
            /\ n > 1 => at(0) = Rounded(b[k] * (n - 1) + (k - 1) * (inner - b[n + 1]), n - 1)
        <5>. DEFINE gap == 0
        <5>1. gap \in Int /\ k \in 1..Len(sizes) /\ Len(sizes) = n /\ sizes \in Seq(Int)
          BY <3>1
        <5>. HIDE DEF gap
        <5>2. LET m == Len(sizes)
                  c == SizesBefore(sizes)
                  here == c[k] + (k - 1) * gap
                  spare == inner - (c[m + 1] + (m - 1) * gap)
              IN /\ LineOffsets("start", sizes, gap, inner)[k] = here
                 /\ LineOffsets("end", sizes, gap, inner)[k] = here + spare
                 /\ LineOffsets("center", sizes, gap, inner)[k] = Rounded(2 * here + spare, 2)
                 /\ m = 1 => at(gap) = here
                 /\ m > 1 => at(gap) = Rounded(c[k] * (m - 1) + (k - 1) * (inner - c[m + 1]), m - 1)
          BY <4>3, <5>1, OffsetsFacts
        <5>3. /\ n = 1 => at(gap) = b[k] + (k - 1) * gap
              /\ n > 1 => at(gap) = Rounded(b[k] * (n - 1) + (k - 1) * (inner - b[n + 1]), n - 1)
          <6>. HIDE DEF at
          <6>. QED  BY <5>1, <5>2 DEF b
        <5>. QED  BY <5>3 DEF gap
      <4>4. CASE n = 1
        <5>1. at(0) = b[k] + (k - 1) * 0
          BY <4>4, <4>6
        <5>2. k = 1
          BY <4>4
        <5>3. b[1] = 0
          BY <3>1, SumsFacts DEF b
        <5>4. Within(0, start(1), 0)
          BY <1>4, <2>1
        <5>. QED  BY <4>3, <5>1, <5>2, <5>3, <5>4 DEF Near, Within
      <4>5. CASE n # 1
        <5>. DEFINE d == n - 1
                    m == (k - 1) * (inner - b[n + 1])
        <5>1. d \in Nat \ {0} /\ n > 1
          BY <1>3, <4>5
        <5>2. at(0) = Rounded(b[k] * d + m, d)
          BY <4>6, <5>1
        <5>3. m \in Int
          <6>. DEFINE u == k - 1
                      w == inner - b[n + 1]
          <6>1. u \in Int /\ w \in Int
            BY <4>0, <4>1, <4>3
          <6>. HIDE DEF u, w
          <6>2. u * w \in Int
            BY <6>1
          <6>. QED  BY <6>2 DEF u, w
        <5>4. Within(d, d * (start(k) - b[k]), m)
          BY <4>2
        <5>. HIDE DEF d, m
        <5>5. Near(Rounded(b[k] * d + m, d), start(k))
          BY <4>1, <4>3, <5>1, <5>3, <5>4, ShareIsNear
        <5>. QED  BY <5>2, <5>5
      <4>. QED  BY <4>4, <4>5
    <3>5. LineOffsets("space-between", sizes, 0, inner)
            = LineOffsets("space-between", [k \in DOMAIN line |-> Size(line[k], axis)], 0, Inner(o, axis))
      BY DEF sizes
    <3>6. \A k \in DOMAIN line : Near(LineOffsets("space-between", sizes, 0, inner)[k], Offset(line[k], o, axis))
      BY <1>3, <3>4
    <3>. HIDE DEF line, axis, inner
    <3>. QED  BY <3>5, <3>6 DEF Fits
  <2>2. ASSUME ~Even(plan), plan.mainAlign.known  PROVE SpanHolds(line, o, axis, plan.mainAlign.value)
    <3>. DEFINE d == plan.mainAlign.value
                a == start(1)
                z == start(n)
                w == size(n)
                span == z + w - a
    <3>1. plan.mainAlign = Known(d) /\ d \in {"start", "center", "end"}
      <4>1. plan.mainAlign \in [known : {TRUE}, value : Spreads]
        BY <2>2 DEF FlexPlan, AlignClaim, NotKnown
      <4>2. plan.mainAlign = Known(d) /\ d \in Spreads
        BY <4>1 DEF Known
      <4>3. d # "space-between"
        BY <2>2, <4>2 DEF Even
      <4>. QED  BY <4>2, <4>3 DEF Spreads
    <3>2. a \in Int /\ z \in Int /\ w \in Int /\ inner \in Int /\ end(n) = z + w
      BY <1>3, <1>5
    <3>3. /\ d = "start" => Within(0, a, 0)
          /\ d = "end" => Within(0, inner - (z + w), 0)
          /\ d = "center" => Within(2 * 0 + 1, a, inner - (z + w))
      BY <1>4, <3>1
    <3>4. SpanHolds(line, o, axis, d) <=> Near(Origin(d, span, inner), a)
      BY DEF SpanHolds
    <3>. HIDE DEF a, z, w, inner, d, start, size, end
    <3>5. CASE d = "start"
      <4>1. Origin(d, span, inner) = 0
        BY <3>5 DEF Origin
      <4>2. Within(0, a, 0)
        BY <3>3, <3>5
      <4>3. Near(0, a)
        <5>1. a - 0 \in -0..0 /\ a \in Int
          BY <3>2, <4>2 DEF Within
        <5>2. a = 0
          BY <5>1
        <5>. QED  BY <5>2 DEF Near
      <4>. QED  BY <3>4, <4>1, <4>3 DEF d
    <3>6. CASE d = "end"
      <4>1. Origin(d, span, inner) = inner - span
        BY <3>6 DEF Origin
      <4>2. Within(0, inner - (z + w), 0)
        BY <3>3, <3>6
      <4>3. Near(inner - span, a)
        BY <3>2, <4>2 DEF Near, Within
      <4>. QED  BY <3>4, <4>1, <4>3 DEF d
    <3>7. CASE d = "center"
      <4>. DEFINE free == inner - span
                  half == Rounded(free, 2)
      <4>1. Origin(d, span, inner) = half
        BY <3>7 DEF Origin
      <4>2. Within(2 * 0 + 1, a, inner - (z + w))
        BY <3>3, <3>7
      <4>3. free \in Int /\ -1 <= 2 * a - free /\ 2 * a - free <= 1
        BY <3>2, <4>2 DEF Within
      <4>4. half \in Int /\ -1 <= 2 * half - free /\ 2 * half - free <= 1
        <5>. HIDE DEF free
        <5>. QED  BY <4>3, HalfFacts
      <4>. HIDE DEF half, free
      <4>5. Near(half, a)
        BY <3>2, <4>3, <4>4 DEF Near
      <4>. QED  BY <3>4, <4>1, <4>5 DEF d
    <3>. QED  BY <3>1, <3>5, <3>6, <3>7 DEF d
  <2>. QED  BY <2>1, <2>2 DEF OriginFails
<1>8. ~CrossFails(o, plan, flow)
  <2>. DEFINE across == Across(axis)
              d == plan.crossAlign.value
  <2>. SUFFICES ASSUME plan.crossAlign.known  PROVE CrossHolds(line, o, across, d)
    BY DEF CrossFails
  <2>1. plan.crossAlign = Known(d) /\ d \in {"start", "center", "end"}
    <3>1. plan.crossAlign \in [known : {TRUE}, value : Spreads]
      BY DEF FlexPlan, AlignClaim, NotKnown
    <3>2. plan.crossAlign = Known(d) /\ d \in Spreads
      BY <3>1 DEF Known
    <3>. QED  BY <3>2 DEF Spreads
  <2>2. ASSUME NEW k \in DOMAIN line, doc.layout[line[k]].sizing[across] # "FILL"
        PROVE  Near(Offset(line[k], o, across), Origin(d, Size(line[k], across), Inner(o, across)))
    <3>. DEFINE child == line[k]
                x == Offset(child, o, across)
                s == Size(child, across)
                free == Inner(o, across) - x - s
                in == Inner(o, across)
    <3>1. child \in InFlow(o) /\ child \in doc.nodes /\ doc.box[child] # None /\ doc.box[o] # None
      BY <1>3, <2>2
    <3>2. x \in Int /\ s \in Nat /\ in \in Int
      <4>. HIDE DEF across, child
      <4>. QED  BY <1>1, <3>1, PlaceTypes DEF across
    <3>3. /\ plan.crossAlign = Known("start") => Within(0, x, 0)
          /\ plan.crossAlign = Known("end") => Within(0, in - x - s, 0)
          /\ plan.crossAlign = Known("center") => Within(2 * 0 + 1, x, in - x - s)
      <4>1. Aligned(o, child, plan, 0)
        BY <3>1
      <4>. HIDE DEF child
      <4>2. doc.layout[child].sizing[across] # "FILL"
        BY <2>2 DEF child
      <4>. QED  BY <4>1, <4>2 DEF Aligned
    <3>. HIDE DEF x, s, in, d
    <3>4. CASE d = "start"
      <4>1. Origin(d, s, in) = 0
        BY <3>4 DEF Origin
      <4>2. Near(x, 0)
        BY <2>1, <3>2, <3>3, <3>4 DEF Near, Within
      <4>. QED  BY <4>1, <4>2 DEF x, s, in
    <3>5. CASE d = "end"
      <4>1. Origin(d, s, in) = in - s
        BY <3>5 DEF Origin
      <4>2. Near(x, in - s)
        BY <2>1, <3>2, <3>3, <3>5 DEF Near, Within
      <4>. QED  BY <4>1, <4>2 DEF x, s, in
    <3>6. CASE d = "center"
      <4>. DEFINE rest == in - s
                  half == Rounded(rest, 2)
      <4>1. Origin(d, s, in) = half
        BY <3>6 DEF Origin
      <4>2. Within(2 * 0 + 1, x, in - x - s)
        BY <2>1, <3>3, <3>6
      <4>3. rest \in Int /\ -1 <= 2 * x - rest /\ 2 * x - rest <= 1
        BY <3>2, <4>2 DEF Within
      <4>4. half \in Int /\ -1 <= 2 * half - rest /\ 2 * half - rest <= 1
        <5>. HIDE DEF rest
        <5>. QED  BY <4>3, HalfFacts
      <4>. HIDE DEF half, rest
      <4>5. Near(x, half)
        BY <3>2, <4>3, <4>4 DEF Near
      <4>. QED  BY <4>1, <4>5 DEF x, s, in
    <3>. QED  BY <2>1, <3>4, <3>5, <3>6
  <2>. QED  BY <2>2 DEF CrossHolds
<1>. QED  BY <1>6, <1>7, <1>8, StackReview

-----------------------------------------------------------------------------
(* Children that sit where they are declared: rows.                        *)

LEMMA QuotientIs ==
    ASSUME NEW a \in Int, NEW b \in Nat \ {0}, NEW q \in Int, NEW r \in Int,
           a = b * q + r, 0 <= r, r <= b - 1
    PROVE  a \div b = q /\ a % b = r
<1>. DEFINE u == a \div b
            w == a % b
            up == u + 1
            qp == q + 1
<1>1. u \in Int /\ w \in Int /\ a = b * u + w /\ 0 <= w /\ w <= b - 1
  BY QuotientFacts
<1>. HIDE DEF u, w
<1>2. up \in Int /\ qp \in Int /\ b * up = b * u + b /\ b * qp = b * q + b
  BY <1>1
<1>3. b * q \in Int /\ b * u \in Int
  BY <1>1
<1>4. b * q < b * up /\ b * u < b * qp
  BY <1>1, <1>2, <1>3
<1>. HIDE DEF up, qp
<1>5. q < up /\ u < qp
  BY <1>1, <1>2, <1>4, Divided
<1>6. q = u
  BY <1>1, <1>5 DEF up, qp
<1>7. w = r
  BY <1>1, <1>3, <1>6
<1>. QED  BY <1>6, <1>7 DEF u, w

(* The rows that the first k of the list s make up, a row for every cap.   *)
RowsSoFar(rows, s, k, cap, pitch) ==
    LET q == (k - 1) \div cap
        r == (k - 1) % cap
    IN /\ Len(rows) = q + 1
       /\ \A i \in 1..(q + 1) :
            /\ rows[i].y = (i - 1) * pitch
            /\ Len(rows[i].items) = IF i = q + 1 THEN r + 1 ELSE cap
            /\ \A j \in 1..Len(rows[i].items) : rows[i].items[j] = s[(i - 1) * cap + j]

LEMMA FirstRow ==
    ASSUME NEW o, NEW s, NEW c, s[1] = c, Offset(c, o, "v") = 0,
           NEW cap \in Nat \ {0}, NEW pitch \in Nat
    PROVE  RowsSoFar(AddToRows(<<>>, c, o), s, 1, cap, pitch)
<1>. DEFINE row == [y |-> 0, items |-> <<c>>]
<1>1. AddToRows(<<>>, c, o) = <<row>>
  BY DEF AddToRows
<1>2. (1 - 1) \div cap = 0 /\ (1 - 1) % cap = 0
  <2>. DEFINE z == 0
  <2>1. z \in Int /\ z = cap * z + z /\ 0 <= z /\ z <= cap - 1
    OBVIOUS
  <2>. HIDE DEF z
  <2>2. z \div cap = z /\ z % cap = z
    BY <2>1, QuotientIs
  <2>. QED  BY <2>2 DEF z
<1>3. row.y = 0 /\ row.items = <<c>> /\ Len(<<c>>) = 1 /\ <<c>>[1] = c
  OBVIOUS
<1>. HIDE DEF row
<1>4. Len(<<row>>) = 1 /\ <<row>>[1] = row
  OBVIOUS
<1>5. (1 - 1) * pitch = 0 /\ (1 - 1) * cap + 1 = 1
  OBVIOUS
<1>. DEFINE rows == <<row>>
            q == (1 - 1) \div cap
            r == (1 - 1) % cap
<1>6. q = 0 /\ r = 0 /\ Len(rows) = 1 /\ rows[1].y = 0 /\ rows[1].items = <<c>>
  BY <1>2, <1>3, <1>4
<1>. HIDE DEF rows, q, r
<1>7. ASSUME NEW i \in 1..(q + 1)
      PROVE  /\ rows[i].y = (i - 1) * pitch
             /\ Len(rows[i].items) = IF i = q + 1 THEN r + 1 ELSE cap
             /\ \A j \in 1..Len(rows[i].items) : rows[i].items[j] = s[(i - 1) * cap + j]
  <2>1. i = 1 /\ i = q + 1
    BY <1>6
  <2>2. rows[i].y = (i - 1) * pitch /\ Len(rows[i].items) = r + 1
    BY <1>3, <1>5, <1>6, <2>1
  <2>3. ASSUME NEW j \in 1..Len(rows[i].items)  PROVE rows[i].items[j] = s[(i - 1) * cap + j]
    <3>. DEFINE items == rows[i].items
    <3>1. items = <<c>>
      BY <1>6, <2>1
    <3>. HIDE DEF items
    <3>2. Len(items) = 1 /\ items[1] = c
      BY <3>1
    <3>3. j = 1
      BY <3>2 DEF items
    <3>. QED  BY <1>5, <2>1, <3>2, <3>3 DEF items
  <2>. QED  BY <2>1, <2>2, <2>3
<1>8. Len(rows) = q + 1
  BY <1>6
<1>9. RowsSoFar(rows, s, 1, cap, pitch)
  BY <1>7, <1>8 DEF RowsSoFar, q, r
<1>. QED  BY <1>1, <1>9 DEF rows

(* Heights that are whole pitches apart are near only if they are equal.   *)
LEMMA PitchesApart ==
    ASSUME NEW pitch \in Nat, pitch > 2, NEW a \in Int, NEW b \in Int
    PROVE  Near(a * pitch, b * pitch) <=> a = b
<1>. DEFINE e == a - b
            ep == pitch * e
<1>1. e \in Int /\ ep \in Int /\ a * pitch - b * pitch = ep /\ a * pitch \in Int /\ b * pitch \in Int
  OBVIOUS
<1>2. ep = 0 <=> e = 0
  <2>. HIDE DEF e
  <2>. QED  BY <1>1
<1>3. ASSUME -2 <= ep, ep <= 2  PROVE e = 0
  <2>. DEFINE u == 1
              w == -1
  <2>1. u \in Int /\ w \in Int /\ pitch * u = pitch /\ pitch * w = -pitch
    OBVIOUS
  <2>. HIDE DEF u, w, e
  <2>2. pitch * e < pitch * u /\ pitch * w < pitch * e
    BY <1>1, <1>3, <2>1
  <2>3. pitch \in Nat \ {0}
    OBVIOUS
  <2>4. e < u /\ w < e
    BY <1>1, <2>1, <2>2, <2>3, Divided
  <2>. QED  BY <1>1, <2>4 DEF u, w
<1>. HIDE DEF e, ep
<1>4. Near(a * pitch, b * pitch) <=> -2 <= ep /\ ep <= 2
  BY <1>1 DEF Near
<1>5. e = 0 <=> a = b
  BY DEF e
<1>. QED  BY <1>1, <1>2, <1>3, <1>4, <1>5

(* The next of the list begins a row, or joins the last.                   *)
LEMMA NextInRow ==
    ASSUME NEW o, NEW S, NEW rows \in RowLists(o, S), NEW s, NEW k \in Nat \ {0},
           NEW cap \in Nat \ {0}, NEW pitch \in Nat, pitch > 2,
           RowsSoFar(rows, s, k, cap, pitch),
           NEW c \in S, s[k + 1] = c, Offset(c, o, "v") = (k \div cap) * pitch
    PROVE  RowsSoFar(AddToRows(rows, c, o), s, k + 1, cap, pitch)
<1>. DEFINE q == (k - 1) \div cap
            r == (k - 1) % cap
            y == Offset(c, o, "v")
            near == {i \in DOMAIN rows : Near(rows[i].y, y)}
            added == AddToRows(rows, c, o)
            p == k \div cap
            t == k % cap
            full == r + 1 = cap
            qc == cap * q
            pc == cap * p
<1>1. q \in Int /\ r \in Int /\ k - 1 = qc + r /\ 0 <= r /\ r <= cap - 1 /\ qc \in Int
  <2>. DEFINE a == k - 1
  <2>1. a \in Int
    OBVIOUS
  <2>. HIDE DEF a
  <2>2. a \div cap \in Int /\ a % cap \in Int /\ a = cap * (a \div cap) + (a % cap)
        /\ 0 <= a % cap /\ a % cap <= cap - 1
    BY <2>1, QuotientFacts
  <2>. QED  BY <2>2 DEF a
<1>2. q \in Nat
  <2>. DEFINE u == -1
  <2>1. u \in Int /\ cap * u = -cap
    OBVIOUS
  <2>2. cap * u < cap * q
    BY <1>1, <2>1
  <2>. HIDE DEF u, q
  <2>3. u < q
    BY <1>1, <2>1, <2>2, Divided
  <2>. QED  BY <1>1, <2>3 DEF u
<1>3. /\ full => p = q + 1 /\ t = 0
      /\ ~full => p = q /\ t = r + 1
  <2>. DEFINE a == IF full THEN q + 1 ELSE q
              b == IF full THEN 0 ELSE r + 1
  <2>. HIDE DEF q, r, p, t
  <2>1. a \in Int /\ b \in Int /\ 0 <= b /\ b <= cap - 1
    BY <1>1
  <2>2. k = cap * a + b
    <3>1. cap * (q + 1) = qc + cap
      BY <1>1
    <3>. QED  BY <1>1, <3>1
  <2>. HIDE DEF a, b
  <2>3. p = a /\ t = b
    <3>1. k \in Int
      OBVIOUS
    <3>2. k \div cap = a /\ k % cap = b
      BY <2>1, <2>2, <3>1, QuotientIs
    <3>. QED  BY <3>2 DEF p, t
  <2>. QED  BY <2>3 DEF a, b
<1>4. (k + 1) - 1 = k
  OBVIOUS
<1>5. Len(rows) = q + 1 /\ \A i \in 1..(q + 1) :
        /\ rows[i].y = (i - 1) * pitch
        /\ Len(rows[i].items) = IF i = q + 1 THEN r + 1 ELSE cap
        /\ \A j \in 1..Len(rows[i].items) : rows[i].items[j] = s[(i - 1) * cap + j]
  BY DEF RowsSoFar
<1>6. rows \in Seq(RowType(S)) /\ DOMAIN rows = 1..(q + 1)
      /\ \A i \in 1..(q + 1) : rows[i] \in RowType(S)
  <2>1. rows \in Seq(RowType(S))
    BY DEF RowLists
  <2>. HIDE DEF q
  <2>. QED  BY <1>5, <2>1
<1>7. y = p * pitch
  OBVIOUS
<1>. HIDE DEF q, r, y, p, t, added
<1>. SUFFICES /\ Len(added) = p + 1
              /\ \A i \in 1..(p + 1) :
                   /\ added[i].y = (i - 1) * pitch
                   /\ Len(added[i].items) = IF i = p + 1 THEN t + 1 ELSE cap
                   /\ \A j \in 1..Len(added[i].items) : added[i].items[j] = s[(i - 1) * cap + j]
  BY <1>4 DEF RowsSoFar, added, p, t
<1>8. \A i \in 1..(q + 1) : i \in near <=> i - 1 = p
  <2>. SUFFICES ASSUME NEW i \in 1..(q + 1)  PROVE i \in near <=> i - 1 = p
    OBVIOUS
  <2>. DEFINE a == i - 1
  <2>1. a \in Int /\ p \in Int
    BY <1>1, <1>3
  <2>. HIDE DEF a
  <2>2. Near(a * pitch, p * pitch) <=> a = p
    BY <2>1, PitchesApart
  <2>3. rows[i].y = a * pitch
    BY <1>5 DEF a
  <2>4. i \in DOMAIN rows
    BY <1>6
  <2>. QED  BY <1>7, <2>2, <2>3, <2>4 DEF a
<1>9. CASE full
  <2>. DEFINE row == [y |-> y, items |-> <<c>>]
  <2>1. p = q + 1 /\ t = 0
    BY <1>3, <1>9
  <2>2. near = {}
    <3>1. \A i \in 1..(q + 1) : i - 1 # p
      BY <1>2, <2>1
    <3>2. near \subseteq 1..(q + 1)
      BY <1>6
    <3>. HIDE DEF near
    <3>. QED  BY <1>8, <3>1, <3>2
  <2>3. added = Append(rows, row)
    BY <2>2 DEF AddToRows, added, y
  <2>4. row.y = y /\ row.items = <<c>> /\ row \in RowType(S)
    <3>1. y \in Int /\ <<c>> \in Seq(S)
      BY <1>3, <1>7
    <3>. QED  BY <3>1 DEF RowType
  <2>. HIDE DEF row
  <2>5. /\ Len(added) = q + 2 /\ added[q + 2] = row
        /\ \A i \in 1..(q + 1) : added[i] = rows[i]
    <3>1. Len(rows) = q + 1 /\ Len(rows) \in Nat
      BY <1>2, <1>5
    <3>2. /\ Len(Append(rows, row)) = Len(rows) + 1
          /\ \A i \in DOMAIN rows : Append(rows, row)[i] = rows[i]
          /\ Append(rows, row)[Len(rows) + 1] = row
      <4>. DEFINE T == RowType(S)
      <4>1. rows \in Seq(T) /\ row \in T
        BY <1>6, <2>4
      <4>. HIDE DEF T
      <4>. QED  BY <4>1, AppendFacts
    <3>3. Len(rows) + 1 = q + 2
      BY <1>2, <3>1
    <3>. QED  BY <1>6, <2>3, <3>2, <3>3
  <2>6. Len(added) = p + 1
    BY <1>2, <2>1, <2>5
  <2>7. ASSUME NEW i \in 1..(p + 1)
        PROVE  /\ added[i].y = (i - 1) * pitch
               /\ Len(added[i].items) = IF i = p + 1 THEN t + 1 ELSE cap
               /\ \A j \in 1..Len(added[i].items) : added[i].items[j] = s[(i - 1) * cap + j]
    <3>1. CASE i = p + 1
      <4>1. added[i] = row /\ i = q + 2 /\ i - 1 = p
        BY <1>2, <2>1, <2>5, <3>1
      <4>2. added[i].y = (i - 1) * pitch
        BY <1>7, <2>4, <4>1
      <4>3. added[i].items = <<c>>
        BY <2>4, <4>1
      <4>. DEFINE items == added[i].items
      <4>. HIDE DEF items
      <4>4. items = <<c>> /\ Len(items) = 1
        BY <4>3 DEF items
      <4>5. (i - 1) * cap + 1 = k + 1
        <5>1. p * cap = qc + cap
          BY <1>1, <2>1
        <5>. QED  BY <1>1, <1>9, <4>1, <5>1
      <4>6. \A j \in 1..Len(items) : items[j] = s[(i - 1) * cap + j]
        <5>1. \A j \in 1..Len(items) : j = 1
          BY <4>4
        <5>. QED  BY <4>4, <4>5, <5>1
      <4>. QED  BY <2>1, <3>1, <4>2, <4>4, <4>6 DEF items
    <3>2. CASE i # p + 1
      <4>1. i \in 1..(q + 1) /\ added[i] = rows[i]
        BY <1>2, <2>1, <2>5, <3>2
      <4>2. Len(rows[i].items) = cap
        BY <1>5, <1>9, <4>1
      <4>. QED  BY <1>5, <3>2, <4>1, <4>2
    <3>. QED  BY <3>1, <3>2
  <2>. QED  BY <2>6, <2>7
<1>10. CASE ~full
  <2>. DEFINE m == q + 1
              row == [rows[m] EXCEPT !.items = Append(@, c)]
              old == rows[m].items
  <2>1. p = q /\ t = r + 1 /\ m \in 1..(q + 1) /\ m = p + 1
    BY <1>2, <1>3, <1>10
  <2>2. near = {m}
    <3>1. \A i \in 1..(q + 1) : i - 1 = p <=> i = m
      BY <1>2, <2>1
    <3>2. near \subseteq 1..(q + 1)
      BY <1>6
    <3>. HIDE DEF near, m
    <3>. QED  BY <1>8, <2>1, <3>1, <3>2
  <2>3. Min(near) = m
    <3>. HIDE DEF near, m
    <3>1. m <= m
      BY <1>2 DEF m
    <3>. QED  BY <2>2, <3>1 DEF Min
  <2>4. added = [rows EXCEPT ![m] = row]
    <3>1. near # {}
      BY <2>2
    <3>2. added = [rows EXCEPT ![Min(near)].items = Append(@, c)]
      BY <3>1 DEF AddToRows, added, y
    <3>. HIDE DEF near, m
    <3>. QED  BY <2>3, <3>2
  <2>5. rows[m] \in RowType(S)
    BY <1>6, <2>1
  <2>6. row.y = rows[m].y /\ row.items = Append(old, c) /\ old \in Seq(S)
    <3>. HIDE DEF m
    <3>. QED  BY <2>5, SMTT(30) DEF RowType
  <2>7. /\ Len(added) = q + 1
        /\ \A i \in 1..(q + 1) : added[i] = IF i = m THEN row ELSE rows[i]
    <3>. HIDE DEF row, m
    <3>1. DOMAIN added = 1..(q + 1) /\ \A i \in 1..(q + 1) : added[i] = IF i = m THEN row ELSE rows[i]
      BY <1>6, <2>4
    <3>2. q + 1 \in Nat
      BY <1>2
    <3>3. added \in Seq(RowType(S))
      <4>1. Offset(c, o, "v") \in Int
        BY <1>1, <1>3, <1>7 DEF y
      <4>. QED  BY <4>1, RowsGrow DEF RowLists, added
    <3>4. Len(added) = q + 1
      BY <3>1, <3>2, <3>3
    <3>. QED  BY <3>1, <3>4
  <2>. HIDE DEF row, m, old
  <2>8. ASSUME NEW i \in 1..(p + 1)
        PROVE  /\ added[i].y = (i - 1) * pitch
               /\ Len(added[i].items) = IF i = p + 1 THEN t + 1 ELSE cap
               /\ \A j \in 1..Len(added[i].items) : added[i].items[j] = s[(i - 1) * cap + j]
    <3>1. CASE i = m
      <4>1. added[i] = row /\ i = p + 1 /\ i \in 1..(q + 1) /\ i = q + 1
        BY <2>1, <2>7, <3>1 DEF m
      <4>2. added[i].y = (i - 1) * pitch
        BY <1>5, <2>1, <2>6, <3>1, <4>1
      <4>. DEFINE items == added[i].items
      <4>3. items = Append(old, c)
        BY <2>6, <4>1
      <4>4. Len(old) = r + 1 /\ \A j \in 1..Len(old) : old[j] = s[(i - 1) * cap + j]
        BY <1>5, <3>1, <4>1 DEF old
      <4>. HIDE DEF items
      <4>5. Len(items) = t + 1 /\ items[t + 1] = c /\ \A j \in 1..t : items[j] = old[j]
        BY <2>1, <2>6, <4>3, <4>4, AppendFacts
      <4>6. (i - 1) * cap + (t + 1) = k + 1
        <5>1. i - 1 = q /\ q * cap = qc
          BY <1>1, <4>1
        <5>2. (i - 1) * cap = qc
          BY <5>1
        <5>. QED  BY <1>1, <2>1, <5>2
      <4>7. ASSUME NEW j \in 1..Len(items)  PROVE items[j] = s[(i - 1) * cap + j]
        <5>1. CASE j = t + 1
          BY <4>5, <4>6, <5>1
        <5>2. CASE j # t + 1
          <6>1. j \in 1..t /\ j \in 1..Len(old)
            BY <1>1, <2>1, <4>4, <4>5, <5>2
          <6>. QED  BY <4>4, <4>5, <6>1
        <5>. QED  BY <5>1, <5>2
      <4>. QED  BY <4>1, <4>2, <4>5, <4>7 DEF items
    <3>2. CASE i # m
      <4>1. i \in 1..(q + 1) /\ added[i] = rows[i] /\ i # q + 1 /\ i # p + 1
        BY <1>2, <2>1, <2>7, <3>2 DEF m
      <4>. QED  BY <1>5, <4>1
    <3>. QED  BY <3>1, <3>2
  <2>. QED  BY <2>1, <2>7, <2>8
<1>. QED  BY <1>9, <1>10

(* Children at heights whole pitches apart, a pitch for every cap of them. *)
LEMMA RowsRepeat ==
    ASSUME NEW o, NEW S, NEW s \in Seq(S), Len(s) # 0, \A c \in S : Offset(c, o, "v") \in Int,
           NEW cap \in Nat \ {0}, NEW pitch \in Nat, pitch > 2,
           \A k \in 1..Len(s) : Offset(s[k], o, "v") = ((k - 1) \div cap) * pitch
    PROVE  RowsSoFar(ObservedRows(o, s), s, Len(s), cap, pitch)
<1>. DEFINE n == Len(s)
            row(k) == (k - 1) \div cap
<1>1. n \in Nat \ {0} /\ \A k \in 1..n : s[k] \in S
  OBVIOUS
<1>2. PICK f : /\ f[0] = <<>> /\ \A k \in 1..n : f[k] = AddToRows(f[k - 1], s[k], o)
               /\ \A k \in 0..n : f[k] \in RowLists(o, S)
               /\ ObservedRows(o, s) = f[n]
  BY ObservedSteps
<1>3. \A k \in 1..n : Offset(s[k], o, "v") = row(k) * pitch
  OBVIOUS
<1>. HIDE DEF n, row
<1>. DEFINE holds(k) == RowsSoFar(f[k], s, k, cap, pitch)
            T == {k \in 1..n : ~holds(k)}
<1>. SUFFICES ASSUME T # {}  PROVE FALSE
  <2>1. n \in 1..n
    BY <1>1
  <2>2. holds(n) => RowsSoFar(ObservedRows(o, s), s, Len(s), cap, pitch)
    BY <1>2 DEF n
  <2>. QED  BY <2>1, <2>2
<1>4. PICK m \in T : \A k \in T : m <= k
  <2>1. T \subseteq Nat
    BY <1>1
  <2>. HIDE DEF T
  <2>. QED  BY <2>1, LeastNatural
<1>5. m \in 1..n /\ ~holds(m)
  BY <1>4
<1>6. CASE m = 1
  <2>1. f[1] = AddToRows(f[1 - 1], s[1], o)
    BY <1>2, <1>5, <1>6
  <2>2. f[1] = AddToRows(<<>>, s[1], o)
    BY <1>2, <2>1
  <2>3. row(1) = 0
    <3>. DEFINE z == 0
    <3>1. z \in Int /\ z = cap * z + z /\ 0 <= z /\ z <= cap - 1 /\ 1 - 1 = z
      OBVIOUS
    <3>. HIDE DEF z
    <3>2. z \div cap = z
      BY <3>1, QuotientIs
    <3>. QED  BY <3>1, <3>2 DEF z, row
  <2>4. Offset(s[1], o, "v") = 0
    <3>1. Offset(s[1], o, "v") = 0 * pitch
      BY <1>3, <1>5, <1>6, <2>3
    <3>. QED  BY <3>1
  <2>5. holds(1)
    BY <2>2, <2>4, FirstRow
  <2>. QED  BY <1>5, <1>6, <2>5
<1>7. CASE m # 1
  <2>. DEFINE k == m - 1
  <2>1. k \in Nat \ {0} /\ k \in 1..n /\ k \in 0..n /\ k + 1 = m /\ ~(m <= k)
    BY <1>1, <1>5, <1>7
  <2>2. holds(k) /\ f[k] \in RowLists(o, S)
    BY <1>2, <1>4, <2>1
  <2>3. f[m] = AddToRows(f[k], s[m], o) /\ s[m] \in S
    BY <1>1, <1>2, <1>5
  <2>4. Offset(s[m], o, "v") = (k \div cap) * pitch
    <3>1. Offset(s[m], o, "v") = row(m) * pitch
      BY <1>3, <1>5
    <3>. QED  BY <3>1 DEF row
  <2>. HIDE DEF k
  <2>5. RowsSoFar(AddToRows(f[k], s[m], o), s, k + 1, cap, pitch)
    BY <2>1, <2>2, <2>3, <2>4, NextInRow
  <2>6. holds(m)
    BY <2>1, <2>3, <2>5
  <2>. QED  BY <1>5, <2>6
<1>. QED  BY <1>6, <1>7

(* The j-th child in the row i of those that are predicted.                *)
Spot(cap, i, j) == (i - 1) * cap + j

LEMMA Tiles ==
    ASSUME NEW S, NEW s \in Seq(S), Len(s) # 0, NEW cap \in Nat \ {0}, NEW i \in 1..RowCount(s, cap)
    PROVE  /\ DOMAIN PredictedRows(s, cap) = 1..RowCount(s, cap)
           /\ Len(PredictedRows(s, cap)) = RowCount(s, cap)
           /\ PredictedRows(s, cap)[i] \in Seq(S)
           /\ Len(PredictedRows(s, cap)[i]) = Taken(s, cap, i)
           /\ Taken(s, cap, i) \in 1..cap
           /\ (Taken(s, cap, i) < cap => i = RowCount(s, cap))
           /\ \A j \in 1..Taken(s, cap, i) :
                /\ Spot(cap, i, j) \in 1..Len(s)
                /\ (Spot(cap, i, j) - 1) \div cap = i - 1
                /\ (Spot(cap, i, j) - 1) % cap = j - 1
                /\ PredictedRows(s, cap)[i][j] = s[Spot(cap, i, j)]
<1>. DEFINE n == Len(s)
            rows == PredictedRows(s, cap)
            a == (n + cap) - 1
            m == (n + cap - 1) \div cap
            taken == Min({cap, n - (i - 1) * cap})
            p == i - 1
            pc == cap * p
            first == pc + 1
<1>1. n \in Nat \ {0}
  OBVIOUS
<1>2. a \in Int /\ n + cap - 1 = a
  OBVIOUS
<1>. HIDE DEF n
<1>3. m \in Int /\ cap * m <= a
  <2>. HIDE DEF a
  <2>1. /\ a \div cap \in Int /\ a % cap \in Int /\ a = cap * (a \div cap) + (a % cap)
        /\ 0 <= a % cap
    BY <1>2, QuotientFacts
  <2>. DEFINE d == a \div cap
  <2>2. m = d
    BY <1>2
  <2>. HIDE DEF d, m
  <2>3. cap * d \in Int
    BY <2>1 DEF d
  <2>4. cap * m <= a
    BY <1>2, <2>1, <2>2, <2>3 DEF d
  <2>. QED  BY <2>1, <2>2, <2>4 DEF d
<1>4. i \in 1..m
  BY DEF n, RowCount
<1>. HIDE DEF m
<1>5. p \in Nat /\ p + 1 = i /\ p + 1 <= m
  BY <1>3, <1>4
<1>. HIDE DEF p
<1>6. pc \in Nat /\ pc + cap <= a
  <2>. DEFINE t == p + 1
  <2>1. t \in Int /\ cap * t = pc + cap /\ t <= m
    BY <1>5
  <2>. HIDE DEF t
  <2>2. cap * t <= cap * m
    <3>. DEFINE e == m - t
    <3>1. e \in Nat /\ m = t + e
      BY <1>3, <2>1
    <3>. HIDE DEF e
    <3>2. cap * e \in Nat /\ cap * m = cap * t + cap * e /\ cap * t \in Int
      BY <2>1, <3>1
    <3>. QED  BY <3>2
  <2>3. pc \in Nat
    BY <1>5
  <2>4. cap * m \in Int /\ cap * t \in Int
    BY <1>3, <2>1
  <2>. HIDE DEF pc
  <2>. QED  BY <1>2, <1>3, <2>1, <2>2, <2>3, <2>4
<1>7. (i - 1) * cap = pc /\ p * cap = pc
  BY <1>5 DEF p
<1>8. ASSUME NEW j \in 1..cap, pc + j <= n
      PROVE  LET k == pc + j IN k \in 1..n /\ (k - 1) \div cap = p /\ (k - 1) % cap = j - 1
  <2>. DEFINE b == (pc + j) - 1
              r == j - 1
  <2>1. b \in Int /\ r \in Int /\ b = cap * p + r /\ 0 <= r /\ r <= cap - 1
    BY <1>6
  <2>. HIDE DEF b, r, taken, pc, a, rows
  <2>2. b \div cap = p /\ b % cap = r
    <3>1. p \in Int
      BY <1>5
    <3>. QED  BY <2>1, <3>1, QuotientIs
  <2>3. pc + j \in 1..n
    BY <1>1, <1>6, <1>8
  <2>. QED  BY <2>2, <2>3 DEF b, r
<1>9. first \in 1..n /\ 1 \in 1..cap
  BY <1>1, <1>2, <1>6
<1>10. (first - 1) \div cap = p
  BY <1>8, <1>9
<1>11. /\ taken \in 1..cap /\ pc + taken <= n
       /\ (taken < cap => i = m)
  <2>1. n - (i - 1) * cap = n - p * cap
    BY <1>7
  <2>2. taken = Min({cap, n - p * cap})
    BY <2>1
  <2>. DEFINE q == (first - 1) \div cap
              t == Min({cap, n - q * cap})
              c == (n + cap - 1) \div cap
  <2>. HIDE DEF first
  <2>3. t \in 1..cap /\ q * cap + t <= n /\ (t < cap => q + 1 = c)
    BY <1>1, <1>9, GridFacts
  <2>4. q = p /\ t = taken /\ c = m
    BY <1>10, <2>2 DEF m
  <2>. HIDE DEF q, t, c
  <2>. QED  BY <1>5, <1>7, <2>3, <2>4
<1>12. ASSUME NEW j \in 1..taken
       PROVE  LET k == pc + j IN
              /\ k \in 1..n /\ (k - 1) \div cap = p /\ (k - 1) % cap = j - 1
              /\ DOMAIN rows = 1..m /\ Len(rows) = m /\ rows[i] \in Seq(S)
              /\ Len(rows[i]) = taken /\ rows[i][j] = s[k]
  <2>. DEFINE k == pc + j
  <2>. HIDE DEF taken
  <2>1. j \in 1..cap /\ k <= n
    BY <1>1, <1>6, <1>11
  <2>2. k \in 1..n /\ (k - 1) \div cap = p /\ (k - 1) % cap = j - 1
    BY <1>8, <2>1
  <2>. HIDE DEF k
  <2>3. k \in 1..Len(s) /\ RowOf(cap, k) = i /\ ColumnOf(cap, k) = j
    <3>1. j \in Int
      BY <2>1
    <3>2. (j - 1) + 1 = j /\ p + 1 = i
      BY <1>5, <3>1
    <3>. QED  BY <2>2, <3>2 DEF n, RowOf, ColumnOf
  <2>4. m = RowCount(s, cap) /\ taken = Taken(s, cap, i)
    BY DEF m, n, taken, RowCount, Taken
  <2>5. /\ DOMAIN rows = 1..RowCount(s, cap) /\ Len(rows) = RowCount(s, cap)
        /\ rows[RowOf(cap, k)] \in Seq(S)
        /\ Len(rows[RowOf(cap, k)]) = Taken(s, cap, RowOf(cap, k))
        /\ rows[RowOf(cap, k)][ColumnOf(cap, k)] = s[k]
    BY <2>3, PredictedFacts
  <2>. HIDE DEF k, rows
  <2>6. /\ DOMAIN rows = 1..m /\ Len(rows) = m /\ rows[i] \in Seq(S)
        /\ Len(rows[i]) = taken /\ rows[i][j] = s[k]
    BY <2>3, <2>4, <2>5
  <2>. QED  BY <2>2, <2>6 DEF k
<1>. HIDE DEF taken, rows
<1>13. DOMAIN rows = 1..m /\ Len(rows) = m /\ rows[i] \in Seq(S) /\ Len(rows[i]) = taken
  <2>1. 1 \in 1..taken
    BY <1>11
  <2>. QED  BY <1>12, <2>1
<1>14. \A j \in 1..taken :
         /\ Spot(cap, i, j) \in 1..n
         /\ (Spot(cap, i, j) - 1) \div cap = i - 1
         /\ (Spot(cap, i, j) - 1) % cap = j - 1
         /\ rows[i][j] = s[Spot(cap, i, j)]
  BY <1>7, <1>12 DEF p, Spot
<1>15. m = RowCount(s, cap) /\ taken = Taken(s, cap, i)
  BY DEF m, taken, RowCount, Taken, n
<1>. HIDE DEF a
<1>16. /\ DOMAIN rows = 1..RowCount(s, cap) /\ Len(rows) = RowCount(s, cap) /\ rows[i] \in Seq(S)
       /\ Len(rows[i]) = Taken(s, cap, i) /\ Taken(s, cap, i) \in 1..cap
       /\ (Taken(s, cap, i) < cap => i = RowCount(s, cap))
       /\ \A j \in 1..Taken(s, cap, i) :
            /\ Spot(cap, i, j) \in 1..n
            /\ (Spot(cap, i, j) - 1) \div cap = i - 1
            /\ (Spot(cap, i, j) - 1) % cap = j - 1
            /\ rows[i][j] = s[Spot(cap, i, j)]
  BY <1>11, <1>13, <1>14, <1>15
<1>. QED  BY <1>16 DEF rows, n

(* Rows that were observed so are the rows that are predicted.             *)
LEMMA RowsAsPredicted ==
    ASSUME NEW S, NEW s \in Seq(S), Len(s) # 0, NEW cap \in Nat \ {0}, NEW pitch, NEW o,
           NEW rows \in RowLists(o, S), RowsSoFar(rows, s, Len(s), cap, pitch)
    PROVE  /\ [i \in DOMAIN rows |-> rows[i].items] = PredictedRows(s, cap)
           /\ \A i \in DOMAIN rows : rows[i].y = (i - 1) * pitch
<1>. DEFINE n == Len(s)
            m == RowCount(s, cap)
            q == (n - 1) \div cap
            r == (n - 1) % cap
            lines == [i \in DOMAIN rows |-> rows[i].items]
            predicted == PredictedRows(s, cap)
            taken(i) == Taken(s, cap, i)
<1>1. n \in Nat \ {0}
  OBVIOUS
<1>2. q \in Int /\ r \in Int /\ n - 1 = cap * q + r /\ 0 <= r /\ r <= cap - 1 /\ cap * q \in Int
  <2>. DEFINE b == n - 1
  <2>1. b \in Int
    BY <1>1
  <2>. HIDE DEF b
  <2>2. b \div cap \in Int /\ b % cap \in Int /\ b = cap * (b \div cap) + (b % cap)
        /\ 0 <= b % cap /\ b % cap <= cap - 1
    BY <2>1, QuotientFacts
  <2>. QED  BY <2>2 DEF b
<1>3. /\ Len(rows) = q + 1
      /\ \A i \in 1..(q + 1) :
           /\ rows[i].y = (i - 1) * pitch
           /\ Len(rows[i].items) = IF i = q + 1 THEN r + 1 ELSE cap
           /\ \A j \in 1..Len(rows[i].items) : rows[i].items[j] = s[(i - 1) * cap + j]
  BY DEF RowsSoFar
<1>4. rows \in Seq(RowType(S)) /\ DOMAIN rows = 1..(q + 1)
      /\ \A i \in 1..(q + 1) : rows[i] \in RowType(S)
  <2>1. rows \in Seq(RowType(S))
    BY DEF RowLists
  <2>. HIDE DEF q
  <2>. QED  BY <1>3, <2>1
<1>. HIDE DEF q, r, n
<1>5. m = q + 1
  <2>. DEFINE b == n + cap - 1
              u == q + 1
  <2>1. b \in Int /\ u \in Int /\ cap * u = cap * q + cap
    BY <1>1, <1>2
  <2>2. b = cap * u + r
    BY <1>1, <1>2, <2>1
  <2>. HIDE DEF b, u
  <2>3. b \div cap = u
    BY <1>2, <2>1, <2>2, QuotientIs
  <2>. QED  BY <2>3 DEF b, u, RowCount, n
<1>. HIDE DEF m
<1>6. ASSUME NEW i \in 1..(q + 1)
      PROVE  /\ DOMAIN predicted = 1..m /\ predicted[i] \in Seq(S) /\ Len(predicted[i]) = taken(i)
             /\ taken(i) \in 1..cap /\ (taken(i) < cap => i = m)
             /\ \A j \in 1..taken(i) : predicted[i][j] = s[(i - 1) * cap + j]
  <2>1. i \in 1..RowCount(s, cap)
    BY <1>5 DEF m
  <2>2. \A j \in 1..Taken(s, cap, i) : Spot(cap, i, j) = (i - 1) * cap + j
    BY DEF Spot
  <2>3. /\ DOMAIN PredictedRows(s, cap) = 1..RowCount(s, cap)
        /\ PredictedRows(s, cap)[i] \in Seq(S)
        /\ Len(PredictedRows(s, cap)[i]) = Taken(s, cap, i)
        /\ Taken(s, cap, i) \in 1..cap
        /\ (Taken(s, cap, i) < cap => i = RowCount(s, cap))
        /\ \A j \in 1..Taken(s, cap, i) : PredictedRows(s, cap)[i][j] = s[Spot(cap, i, j)]
    BY <2>1, Tiles
  <2>. QED  BY <2>2, <2>3 DEF m
<1>7. ASSUME NEW i \in 1..(q + 1)  PROVE taken(i) = IF i = q + 1 THEN r + 1 ELSE cap
  <2>1. CASE i # q + 1
    <3>. HIDE DEF taken
    <3>. QED  BY <1>5, <1>6, <2>1
  <2>2. CASE i = q + 1
    <3>1. n - (i - 1) * cap = r + 1
      <4>1. i - 1 = q /\ q * cap = cap * q
        BY <1>2, <2>2
      <4>2. (i - 1) * cap = cap * q
        BY <4>1
      <4>. QED  BY <1>1, <1>2, <4>2
    <3>. DEFINE e == r + 1
    <3>2. e \in Int /\ e <= cap
      BY <1>2
    <3>4. taken(i) = Min({cap, e})
      BY <3>1 DEF Taken, n
    <3>. HIDE DEF e, taken
    <3>3. Min({cap, e}) = IF cap <= e THEN cap ELSE e
      BY <3>2, PairFacts
    <3>5. taken(i) = e
      BY <3>2, <3>3, <3>4
    <3>. QED  BY <2>2, <3>5 DEF e
  <2>. QED  BY <2>1, <2>2
<1>. HIDE DEF predicted, taken
<1>8. ASSUME NEW i \in 1..(q + 1)  PROVE lines[i] = predicted[i]
  <2>. DEFINE items == rows[i].items
              cut == predicted[i]
  <2>1. lines[i] = items
    BY <1>4
  <2>2. items \in Seq(S)
    BY <1>4 DEF RowType
  <2>3. /\ Len(items) = taken(i)
        /\ \A j \in 1..taken(i) : items[j] = s[(i - 1) * cap + j]
    BY <1>3, <1>7
  <2>4. /\ cut \in Seq(S) /\ Len(cut) = taken(i)
        /\ \A j \in 1..taken(i) : cut[j] = s[(i - 1) * cap + j]
    BY <1>6
  <2>. HIDE DEF items, cut
  <2>5. items = cut
    <3>1. /\ DOMAIN items = 1..taken(i) /\ DOMAIN cut = 1..taken(i)
          /\ \A j \in 1..taken(i) : items[j] = cut[j]
      BY <2>2, <2>3, <2>4
    <3>2. items = [j \in 1..taken(i) |-> items[j]] /\ cut = [j \in 1..taken(i) |-> cut[j]]
      BY <2>2, <2>4, <3>1
    <3>. QED  BY <3>1, <3>2
  <2>. QED  BY <2>1, <2>5 DEF cut
<1>9. lines = predicted
  <2>1. DOMAIN lines = 1..(q + 1)
    BY <1>4
  <2>2. DOMAIN predicted = 1..(q + 1)
    <3>1. 1 \in 1..(q + 1)
      <4>1. q \in Nat
        <5>. DEFINE u == -1
        <5>1. u \in Int /\ cap * u = -cap
          OBVIOUS
        <5>2. cap * u < cap * q
          BY <1>1, <1>2, <5>1
        <5>. HIDE DEF u
        <5>3. u < q
          BY <1>2, <5>1, <5>2, Divided
        <5>. QED  BY <1>2, <5>3 DEF u
      <4>. QED  BY <4>1
    <3>. QED  BY <1>5, <1>6, <3>1
  <2>3. predicted = [i \in DOMAIN predicted |-> predicted[i]]
    BY DEF predicted, PredictedRows
  <2>. QED  BY <1>8, <2>1, <2>2, <2>3
<1>10. \A i \in DOMAIN rows : rows[i].y = (i - 1) * pitch
  BY <1>3, <1>4
<1>. QED  BY <1>9, <1>10 DEF predicted

LEMMA NearThere ==
    ASSUME NEW a \in Int, NEW x \in Int, NEW y \in Int, 0 <= a - y, a - y <= 1, Within(1, x, y)
    PROVE  Near(a, x)
  BY DEF Near, Within

(* Where the rule puts what has col others before it in a row of n.        *)
ColumnAt(d, col, n, inner, pitch, gap) ==
    LET spare == inner - n * pitch + gap
    IN col * pitch + CASE d = "start"  -> 0
                       [] d = "end"    -> spare
                       [] d = "center" -> spare \div 2
                       [] OTHER -> (col * spare) \div Max({1, n - 1})

(* A row on the columns that a distribution predicts is explained by it.   *)
LEMMA PlacedSits ==
    ASSUME NEW o, NEW row, NEW n \in Nat \ {0}, DOMAIN row = 1..n, NEW width \in Int, NEW gap \in Int,
           Inner(o, "h") \in Int, NEW d \in Spreads,
           \A j \in 1..n :
             /\ Offset(row[j], o, "h") \in Int
             /\ Within(1, Offset(row[j], o, "h"), ColumnAt(d, j - 1, n, Inner(o, "h"), width + gap, gap))
    PROVE  Sits(row, o, width, d, gap)
<1>. DEFINE inner == Inner(o, "h")
            predicted == LineOffsets(d, EqualSizes(n, width), gap, inner)
<1>1. [k \in DOMAIN row |-> width] = EqualSizes(n, width)
  BY DEF EqualSizes
<1>2. ASSUME NEW j \in 1..n  PROVE Near(predicted[j], Offset(row[j], o, "h"))
  <2>. DEFINE col == j - 1
              pitch == width + gap
              spare == inner - n * pitch + gap
              half == spare \div 2
              even == (col * spare) \div Max({1, n - 1})
              cp == col * pitch
              at == LineOffsets(d, EqualSizes(n, width), gap, inner)[j]
              x == Offset(row[j], o, "h")
              shift == CASE d = "start"  -> 0
                         [] d = "end"    -> spare
                         [] d = "center" -> half
                         [] OTHER        -> even
  <2>1. x \in Int /\ Within(1, x, cp + shift)
    <3>1. x \in Int /\ Within(1, x, ColumnAt(d, col, n, inner, pitch, gap))
      OBVIOUS
    <3>2. ColumnAt(d, col, n, inner, pitch, gap) = cp + shift
      BY DEF ColumnAt
    <3>. QED  BY <3>1, <3>2
  <2>2. inner \in Int
    OBVIOUS
  <2>3. /\ d = "start" => at = cp
        /\ d = "end" => at = cp + spare
        /\ d = "center" => 0 <= at - (cp + half) /\ at - (cp + half) <= 1
        /\ d = "space-between" => 0 <= at - (cp + even) /\ at - (cp + even) <= 1
        /\ cp \in Int /\ spare \in Int /\ half \in Int /\ even \in Int
        /\ d \in {"center", "space-between"} => at \in Int
    <3>. DEFINE put(e) == LineOffsets(e, EqualSizes(n, width), gap, inner)[j]
    <3>1. /\ put("start") = cp
          /\ put("end") = cp + spare
          /\ 0 <= put("center") - (cp + half) /\ put("center") - (cp + half) <= 1
          /\ 0 <= put("space-between") - (cp + even) /\ put("space-between") - (cp + even) <= 1
          /\ cp \in Int /\ spare \in Int /\ half \in Int /\ even \in Int
          /\ put("center") \in Int /\ put("space-between") \in Int
      <4>. HIDE DEF inner
      <4>. QED  BY <2>2, Columns
    <3>2. at = put(d)
      OBVIOUS
    <3>. HIDE DEF put, at, cp, spare, half, even
    <3>. QED  BY <3>1, <3>2
  <2>4. /\ d = "start" => shift = 0
        /\ d = "end" => shift = spare
        /\ d = "center" => shift = half
        /\ d = "space-between" => shift = even
    <3>. HIDE DEF spare, half, even
    <3>. QED  OBVIOUS
  <2>. HIDE DEF at, x, shift, cp, spare, half, even
  <2>5. d \in {"start", "center", "end", "space-between"}
    BY DEF Spreads
  <2>6. at \in Int
    BY <2>3, <2>5
  <2>7. shift \in Int /\ 0 <= at - (cp + shift) /\ at - (cp + shift) <= 1
    BY <2>3, <2>4, <2>5, <2>6
  <2>. DEFINE y == cp + shift
  <2>8. y \in Int /\ 0 <= at - y /\ at - y <= 1 /\ Within(1, x, y)
    BY <2>1, <2>3, <2>7
  <2>. HIDE DEF y
  <2>10. Near(at, x)
    BY <2>1, <2>6, <2>8, NearThere
  <2>. QED  BY <2>10 DEF at, x
<1>. QED  BY <1>1, <1>2 DEF Sits
LEMMA ZeroApart ==
    ASSUME NEW a \in Int, NEW b \in Int, Within(2 * 0, a, b)
    PROVE  a = b
<1>. DEFINE z == 2 * 0
<1>1. z \in Nat /\ z = 0 /\ Within(z, a, b)
  OBVIOUS
<1>. HIDE DEF z
<1>2. -z <= a - b /\ a - b <= z
  BY <1>1, WithinFacts
<1>. QED  BY <1>1, <1>2

(* A row that wraps and repeats as declared breaks none of its rule.       *)
LEMMA WrapIsQuiet ==
    ASSUME doc \in Docs, NEW o \in doc.nodes, NEW flow \in Seq(doc.nodes), Elements(flow) = InFlow(o),
           NEW plan \in FlexPlan, WrapEligible(o, plan, flow),
           \A claim \in {plan.mainAlign, plan.crossAlign, plan.mainGap, plan.crossGap} : claim # Contradicted,
           Size(flow[1], "v") + LineGap(doc.layout[o]) > 2,
           NEW d \in Spreads, plan.mainAlign = Known("space-between") \/ plan.mainAlign = Known(d),
           NEW rule, rule.track = Known([h |-> Width(flow), v |-> Size(flow[1], "v")]),
           rule.packingGap = Known(Gap(o)), rule.full = plan.mainAlign, rule.partial = Known(d),
           rule.lineGap = Known(LineGap(doc.layout[o])), Repeats(o, Reading(flow), rule, 0)
    PROVE  Ruled(o, plan, flow).broken = {}
<1>. DEFINE full == plan.mainAlign.value
            s == Reading(flow)
            n == Len(s)
            width == Width(flow)
            height == Size(flow[1], "v")
            gap == Gap(o)
            lineGap == LineGap(doc.layout[o])
            tall == height + lineGap
            cap == RowCapacity(o, flow)
            lines == WrapLines(o, flow)
            rows == Rows(o, flow)
            inner == Inner(o, "h")
            S == InFlow(o)
<1>1. /\ flow # <<>> /\ doc.box[o] # None /\ plan.mainAlign.known
      /\ \A k \in DOMAIN flow : Measurable(flow[k])
      /\ width > 0 /\ gap >= 0 /\ lineGap >= 0
  BY DEF WrapEligible, Width, Gap
<1>2. IsLayout(doc.layout[o]) /\ gap \in Int /\ lineGap \in Int /\ "h" \in Axes /\ "v" \in Axes
  BY PlaceTypes, DeclaredType DEF Gap, Axes
<1>3. 1 \in DOMAIN flow /\ flow[1] \in doc.nodes /\ \A k \in DOMAIN flow : doc.box[flow[k]] # None
  BY <1>1 DEF Measurable
<1>4. width \in Nat \ {0} /\ height \in Nat /\ inner \in Int /\ gap \in Nat /\ tall \in Nat /\ tall > 2
  <2>1. Size(flow[1], "h") \in Nat /\ Size(flow[1], "v") \in Nat
    BY <1>2, <1>3, PlaceTypes
  <2>2. inner \in Int
    BY <1>1, <1>2, PlaceTypes
  <2>. QED  BY <1>1, <1>2, <2>1, <2>2 DEF Width
<1>5. full \in Spreads /\ plan.mainAlign = Known(full) /\ (full = "space-between" \/ full = d)
  <2>1. "space-between" \in Spreads
    BY DEF Spreads
  <2>. QED  BY <2>1, ClaimFacts
<1>6. cap \in Nat \ {0} /\ cap = Capacity(o, width, gap)
  BY <1>4, CapacityFacts DEF RowCapacity
<1>7. s \in Seq(S) /\ n \in Nat \ {0} /\ \A k \in 1..n : s[k] \in S
  <2>1. InFlow(o) # {}
    BY <1>3 DEF Elements
  <2>. QED  BY <1>3, <2>1, ReadingArranges
<1>8. \A a \in S : Offset(a, o, "v") \in Int /\ Offset(a, o, "h") \in Int
  <2>. SUFFICES ASSUME NEW a \in S  PROVE Offset(a, o, "v") \in Int /\ Offset(a, o, "h") \in Int
    OBVIOUS
  <2>1. a \in doc.nodes /\ doc.box[a] # None
    <3>1. a \in Elements(flow)
      OBVIOUS
    <3>. QED  BY <1>3, <3>1 DEF Elements
  <2>. QED  BY <1>1, <1>2, <2>1, PlaceTypes
<1>9. /\ rule.track.value.h = width /\ rule.track.value.v = height
      /\ rule.packingGap.value = gap /\ rule.lineGap.value = lineGap
      /\ rule.full = Known(full) /\ rule.partial = Known(d)
  <2>. HIDE DEF width, height, gap, lineGap, full
  <2>1. rule.track.value = [h |-> width, v |-> height]
    BY ClaimFacts DEF width, height
  <2>. QED  BY <1>5, <2>1, ClaimFacts DEF gap, lineGap
<1>. DEFINE inRow(k) == Min({cap, n - ((k - 1) \div cap) * cap})
            claim(k) == IF inRow(k) = cap THEN rule.full ELSE rule.partial
<1>10. ASSUME NEW k \in 1..n
       PROVE  /\ claim(k).known =>
                    Within(0 + 1, Offset(s[k], o, "h"),
                           ColumnAt(claim(k).value, (k - 1) % cap, inRow(k), inner, width + gap, gap))
              /\ Within(2 * 0, Offset(s[k], o, "v"), ((k - 1) \div cap) * tall)
  <2>1. Capacity(o, rule.track.value.h, rule.packingGap.value) = cap
    BY <1>6, <1>9
  <2>2. Repeats(o, s, rule, 0)
    OBVIOUS
  <2>. HIDE DEF s, width, height, gap, lineGap, cap, inner
  <2>. QED  BY <1>9, <2>1, <2>2 DEF Repeats, ColumnAt, inner, n
<1>. HIDE DEF full, s, n, width, height, gap, lineGap, cap, lines, rows, inner, S
<1>11. \A k \in 1..n : Offset(s[k], o, "v") = ((k - 1) \div cap) * tall
  <2>. SUFFICES ASSUME NEW k \in 1..n  PROVE Offset(s[k], o, "v") = ((k - 1) \div cap) * tall
    OBVIOUS
  <2>. DEFINE q == (k - 1) \div cap
              down == Offset(s[k], o, "v")
              line == q * tall
  <2>1. q \in Int
    <3>. DEFINE b == k - 1
    <3>1. b \in Int
      BY <1>7
    <3>. HIDE DEF b
    <3>2. b \div cap \in Int
      BY <1>6, <3>1, QuotientFacts
    <3>. QED  BY <3>2 DEF b
  <2>2. Within(2 * 0, down, line)
    BY <1>10
  <2>. HIDE DEF q, tall
  <2>3. line \in Int /\ down \in Int
    BY <1>4, <1>7, <1>8, <2>1
  <2>. HIDE DEF line, down
  <2>4. down = line
    BY <2>2, <2>3, ZeroApart
  <2>. QED  BY <2>4 DEF q, down, line
<1>. HIDE DEF tall
<1>12. rows \in RowLists(o, S) /\ RowsSoFar(rows, s, n, cap, tall)
  <2>1. rows = ObservedRows(o, s)
    BY DEF rows, Rows, s
  <2>2. ObservedRows(o, s) \in RowLists(o, S)
    BY <1>7, <1>8, ObservedFacts
  <2>3. RowsSoFar(ObservedRows(o, s), s, Len(s), cap, tall)
    <3>1. \A k \in 1..Len(s) : Offset(s[k], o, "v") = ((k - 1) \div cap) * tall
      BY <1>11 DEF n
    <3>2. Len(s) # 0
      BY <1>7 DEF n
    <3>. QED  BY <1>4, <1>6, <1>7, <1>8, <3>1, <3>2, RowsRepeat
  <2>. QED  BY <2>1, <2>2, <2>3 DEF n
<1>13. /\ [i \in DOMAIN rows |-> rows[i].items] = PredictedRows(s, cap)
       /\ \A i \in DOMAIN rows : rows[i].y = (i - 1) * tall
  <2>1. Len(s) # 0 /\ RowsSoFar(rows, s, Len(s), cap, tall)
    BY <1>7, <1>12 DEF n
  <2>. QED  BY <1>6, <1>7, <1>12, <2>1, RowsAsPredicted
<1>14. lines = PredictedRows(s, cap)
  BY <1>13 DEF lines, WrapLines, rows
<1>15. Members(o, flow)
  BY <1>14 DEF Members, lines, s, cap
<1>16. LinesHold(o, flow)
  <2>. SUFFICES ASSUME NEW i \in DOMAIN rows  PROVE Near(rows[i].y, (i - 1) * tall)
    BY DEF LinesHold, rows, tall, height, lineGap
  <2>1. rows[i].y = (i - 1) * tall
    BY <1>13
  <2>2. rows[i].y \in Int
    <3>1. rows \in Seq(RowType(S))
      BY <1>12 DEF RowLists
    <3>2. rows[i] \in RowType(S)
      BY <3>1
    <3>. QED  BY <3>2 DEF RowType
  <2>3. Near(rows[i].y, rows[i].y)
    <3>. DEFINE y == rows[i].y
    <3>1. y \in Int
      BY <2>2
    <3>. HIDE DEF y
    <3>2. y - y \in -2..2
      BY <3>1
    <3>. QED  BY <3>2 DEF Near, y
  <2>. QED  BY <2>1, <2>3
<1>17. ASSUME NEW i \in 1..RowCount(s, cap)
       PROVE  /\ DOMAIN lines = 1..RowCount(s, cap) /\ Len(lines) = RowCount(s, cap)
              /\ Len(lines[i]) \in 1..cap /\ (Len(lines[i]) < cap => i = RowCount(s, cap))
              /\ Sits(lines[i], o, width, IF Len(lines[i]) = cap THEN full ELSE d, gap)
  <2>. DEFINE taken == Taken(s, cap, i)
              e == IF taken = cap THEN full ELSE d
  <2>1. /\ DOMAIN lines = 1..RowCount(s, cap) /\ Len(lines) = RowCount(s, cap)
        /\ lines[i] \in Seq(S) /\ Len(lines[i]) = taken /\ taken \in 1..cap
        /\ (taken < cap => i = RowCount(s, cap))
        /\ \A j \in 1..taken :
             /\ Spot(cap, i, j) \in 1..Len(s)
             /\ (Spot(cap, i, j) - 1) \div cap = i - 1
             /\ (Spot(cap, i, j) - 1) % cap = j - 1
             /\ lines[i][j] = s[Spot(cap, i, j)]
    <3>1. Len(s) # 0
      BY <1>7 DEF n
    <3>. DEFINE cut == PredictedRows(s, cap)
    <3>2. /\ DOMAIN cut = 1..RowCount(s, cap) /\ Len(cut) = RowCount(s, cap)
          /\ cut[i] \in Seq(S) /\ Len(cut[i]) = Taken(s, cap, i) /\ Taken(s, cap, i) \in 1..cap
          /\ (Taken(s, cap, i) < cap => i = RowCount(s, cap))
      BY <1>6, <1>7, <3>1, Tiles
    <3>4. \A j \in 1..Taken(s, cap, i) :
               /\ Spot(cap, i, j) \in 1..Len(s)
               /\ (Spot(cap, i, j) - 1) \div cap = i - 1
               /\ (Spot(cap, i, j) - 1) % cap = j - 1
               /\ cut[i][j] = s[Spot(cap, i, j)]
      BY <1>6, <1>7, <3>1, Tiles
    <3>3. lines = cut
      BY <1>14
    <3>. HIDE DEF cut
    <3>. QED  BY <3>2, <3>3, <3>4, Zenon
  <2>2. e \in Spreads
    BY <1>5
  <2>3. ASSUME NEW j \in 1..taken
        PROVE  /\ Offset(lines[i][j], o, "h") \in Int
               /\ Within(1, Offset(lines[i][j], o, "h"), ColumnAt(e, j - 1, taken, Inner(o, "h"), width + gap, gap))
    <3>. DEFINE k == Spot(cap, i, j)
    <3>1. k \in 1..n /\ (k - 1) \div cap = i - 1 /\ (k - 1) % cap = j - 1 /\ lines[i][j] = s[k]
      BY <2>1 DEF n
    <3>2. Offset(s[k], o, "h") \in Int
      BY <1>7, <1>8, <3>1
    <3>. HIDE DEF k
    <3>3. inRow(k) = taken
      BY <3>1 DEF Taken, n
    <3>. HIDE DEF inRow, taken
    <3>4. claim(k).known /\ claim(k).value = e
      <4>1. claim(k) = IF taken = cap THEN Known(full) ELSE Known(d)
        BY <1>9, <3>3
      <4>. HIDE DEF claim
      <4>. QED  BY <4>1, ClaimFacts
    <3>. HIDE DEF claim, e
    <3>5. Within(0 + 1, Offset(s[k], o, "h"), ColumnAt(e, j - 1, taken, inner, width + gap, gap))
      BY <1>10, <3>1, <3>3, <3>4
    <3>6. 0 + 1 = 1
      OBVIOUS
    <3>. QED  BY <3>1, <3>2, <3>5, <3>6 DEF inner
  <2>. HIDE DEF taken
  <2>4. Sits(lines[i], o, width, e, gap)
    <3>1. taken \in Nat \ {0} /\ DOMAIN lines[i] = 1..taken
      BY <1>6, <2>1
    <3>2. width \in Int /\ gap \in Int /\ Inner(o, "h") \in Int
      BY <1>4 DEF inner
    <3>. HIDE DEF e
    <3>. QED  BY <2>2, <2>3, <3>1, <3>2, PlacedSits
  <2>. QED  BY <2>1, <2>4
<1>18. InlineHolds(o, flow, full)
  <2>. DEFINE open == Open(o, flow, full)
              left == LastSurvivors(o, flow)
              m == Len(lines)
  <2>. SUFFICES ASSUME NEW i \in DOMAIN lines
                PROVE  IF open /\ i = m THEN left # {} ELSE Sits(lines[i], o, width, full, gap)
    BY DEF InlineHolds, Inline, lines, width, gap
  <2>1. lines = PredictedRows(s, cap) /\ DOMAIN lines = 1..RowCount(s, cap)
    BY <1>14 DEF PredictedRows, RowCount
  <2>2. /\ i \in 1..RowCount(s, cap) /\ m = RowCount(s, cap)
        /\ Len(lines[i]) \in 1..cap /\ (Len(lines[i]) < cap => i = m)
        /\ Sits(lines[i], o, width, IF Len(lines[i]) = cap THEN full ELSE d, gap)
    BY <1>17, <2>1
  <2>3. i = m => LastRow(o, flow) = lines[i]
    BY DEF LastRow, lines
  <2>4. open <=> full = "space-between" /\ Len(LastRow(o, flow)) < cap
    BY DEF Open, cap
  <2>5. left = {e \in {"start", "center", "end", "space-between"} : Sits(LastRow(o, flow), o, width, e, gap)}
    BY DEF LastSurvivors, Survivors, width, gap
  <2>6. CASE Len(lines[i]) = cap
    <3>1. ~(open /\ i = m)
      <4>1. cap \in Int
        BY <1>6
      <4>. QED  BY <2>3, <2>4, <2>6, <4>1
    <3>. QED  BY <2>2, <2>6, <3>1
  <2>7. CASE Len(lines[i]) # cap
    <3>1. i = m /\ Len(lines[i]) < cap /\ Sits(lines[i], o, width, d, gap)
      BY <1>6, <2>2, <2>7
    <3>2. CASE full = "space-between"
      <4>1. open
        BY <2>3, <2>4, <3>1, <3>2
      <4>2. d \in left
        BY <2>3, <2>5, <3>1 DEF Spreads
      <4>. QED  BY <3>1, <4>1, <4>2
    <3>3. CASE full # "space-between"
      <4>1. ~open /\ full = d
        BY <1>5, <2>4, <3>3
      <4>. QED  BY <3>1, <4>1
    <3>. QED  BY <3>2, <3>3
  <2>. QED  BY <2>6, <2>7
<1>19. Ruled(o, plan, flow).broken # {} <=> ~(Members(o, flow) /\ InlineHolds(o, flow, full) /\ LinesHold(o, flow))
  BY <1>1, <1>2, WrapReview DEF full
<1>. QED  BY <1>15, <1>16, <1>18, <1>19

-----------------------------------------------------------------------------
(* What is not contradicted: every container that is placed as declared.   *)

LEMMA ReviewIsQuiet ==
    ASSUME doc \in Docs, NEW o \in doc.nodes, Flow(o) \in Seq(doc.nodes),
           o \notin Incomplete => Elements(Flow(o)) = InFlow(o),
           PlacedAsDeclared(o, Reading(Flow(o)))
    PROVE  ContainerReview(o, ContainerOf(doc.layout[o]), Flow(o)).broken = {}
<1>. DEFINE c == ContainerOf(doc.layout[o])
            flow == Flow(o)
            s == Reading(flow)
            tile == flow[1]
            rule(partial) ==
              [ track |-> Known([h |-> Size(tile, "h"), v |-> Size(tile, "v")]), packingGap |-> c.mainGap,
                full |-> c.mainAlign, partial |-> Known(partial),
                lineGap |-> Known(LineGap(doc.layout[o])) ]
            r == ContainerReview(o, c, flow)
<1>1. IsLayout(doc.layout[o])
  BY PlaceTypes
<1>2. /\ c.kind = "flex" /\ o \notin Incomplete /\ doc.box[o] # None
      /\ flow # <<>> /\ \A child \in InFlow(o) : Measurable(child)
      /\ c.wrap => /\ WrapEligible(o, c, flow)
                   /\ Size(tile, "v") + LineGap(doc.layout[o]) > 2
                   /\ \E d \in Spreads :
                        /\ c.mainAlign = Known("space-between") \/ c.mainAlign = Known(d)
                        /\ Repeats(o, s, rule(d), 0)
      /\ ~c.wrap => /\ Stacked(o, s, c, 0)
                    /\ c.mainAlign = Known("space-between") => EvenlySpread(o, s, c.axis)
                    /\ \A child \in InFlow(o) : Aligned(o, child, c, 0)
  BY DEF PlacedAsDeclared, Spreads
<1>3. /\ c \in FlexPlan
      /\ \A claim \in {c.mainAlign, c.crossAlign, c.mainGap, c.crossGap} : claim # Contradicted
      /\ c.mainGap = Known(Gap(o)) /\ c.crossAlign # Known("space-between")
  BY <1>1, <1>2, ContainerOfFacts DEF Gap
<1>4. flow \in Seq(doc.nodes) /\ Elements(flow) = InFlow(o)
  BY <1>2
<1>. HIDE DEF c, flow, s
<1>5. CASE c.wrap
  <2>1. r = Ruled(o, c, flow)
    BY <1>2, <1>5 DEF ContainerReview, Ruled
  <2>2. PICK d \in Spreads : /\ c.mainAlign = Known("space-between") \/ c.mainAlign = Known(d)
                             /\ Repeats(o, s, rule(d), 0)
    BY <1>2, <1>5
  <2>. DEFINE told == rule(d)
  <2>3. /\ told.track = Known([h |-> Width(flow), v |-> Size(flow[1], "v")])
        /\ told.packingGap = Known(Gap(o)) /\ told.full = c.mainAlign /\ told.partial = Known(d)
        /\ told.lineGap = Known(LineGap(doc.layout[o]))
    BY <1>3 DEF Width
  <2>4. Repeats(o, Reading(flow), told, 0)
    BY <2>2 DEF s
  <2>. HIDE DEF told, rule
  <2>5. Ruled(o, c, flow).broken = {}
    BY <1>2, <1>3, <1>4, <1>5, <2>2, <2>3, <2>4, WrapIsQuiet
  <2>. QED  BY <2>1, <2>5 DEF c, flow
<1>6. CASE ~c.wrap
  <2>1. r = ReviewStack(o, c, flow)
    BY <1>2, <1>6 DEF ContainerReview
  <2>2. InFlow(o) # {} /\ Compared(o, flow)
    <3>1. 1 \in DOMAIN flow
      BY <1>2, <1>4
    <3>2. \A k \in DOMAIN flow : flow[k] \in InFlow(o)
      BY <1>4 DEF Elements
    <3>. QED  BY <1>2, <3>1, <3>2 DEF Compared
  <2>3. c.mainGap.known
    BY <1>3, ClaimFacts
  <2>4. ReviewStack(o, c, flow).broken = {}
    BY <1>2, <1>3, <1>4, <1>6, <2>2, <2>3, StackIsQuiet DEF s
  <2>. QED  BY <2>1, <2>4 DEF c, flow
<1>. QED  BY <1>5, <1>6

(* ExactLayoutIsQuiet, of one plan.                                        *)
Exact(p) == PlacedAsDeclared(p.at, Reading(Flow(p.at))) => ContradictsNothing(p)
AllExact == \A p \in Projected : Exact(p)

LEMMA AllExactIsExactLayoutIsQuiet == AllExact <=> ExactLayoutIsQuiet
  BY DEF AllExact, Projected, Exact, ExactLayoutIsQuiet

LEMMA PlanIsExact ==
    ASSUME ProjectionInv, Faithful, phase = "done", NEW k \in DOMAIN nodes
    PROVE  Exact(PlanOf(nodes[k]))
<1>. DEFINE v == nodes[k]
            o == v.at
            p == PlanOf(v)
            r == ReviewOf(v)
<1>1. TypeInv /\ doc \in Docs /\ o \in doc.nodes
  BY LayoutTypes DEF ProjectionInv, Partition, TypeInv
<1>2. Flow(o) \in Seq(doc.nodes)
  BY <1>1, FlowFacts
<1>3. o \notin Incomplete => Elements(Flow(o)) = InFlow(o)
  <2>1. o \in Shown
    BY DEF Shown
  <2>. HIDE DEF o
  <2>. QED  BY <2>1, FlowIsWhole
<1>4. p.at = o /\ p.broken = r.broken
  BY PlanUnfolded
<1>5. r = ContainerReview(o, ContainerOf(doc.layout[o]), Flow(o))
  BY DEF ReviewOf
<1>. HIDE DEF p, r, o
<1>6. PlacedAsDeclared(o, Reading(Flow(o))) => r.broken = {}
  BY <1>1, <1>2, <1>3, <1>5, ReviewIsQuiet
<1>7. Exact(p)
  BY <1>4, <1>6 DEF Exact, ContradictsNothing
<1>. QED  BY <1>7 DEF p

LEMMA ExactStays ==
    ASSUME NEW CONSTANT p, UNCHANGED vars
    PROVE  Exact(p)' <=> Exact(p)
<1>1. doc' = doc /\ nodes' = nodes /\ omitted' = omitted
  BY DEF vars
<1>2. \A a, b, axis : /\ Size(a, axis)' = Size(a, axis) /\ Offset(a, b, axis)' = Offset(a, b, axis)
                      /\ Inner(b, axis)' = Inner(b, axis)
  BY <1>1 DEF Size, Offset, Inner
<1>3. \A o : InFlow(o)' = InFlow(o)
  BY <1>1 DEF InFlow
<1>4. \A c : Measurable(c)' <=> Measurable(c)
  BY <1>1 DEF Measurable
<1>5. Incomplete' = Incomplete
  BY <1>1 DEF Incomplete
<1>6. \A o, s, c : Stacked(o, s, c, 0)' <=> Stacked(o, s, c, 0)
  BY <1>2 DEF Stacked
<1>7. \A o, child, c : Aligned(o, child, c, 0)' <=> Aligned(o, child, c, 0)
  BY <1>1, <1>2 DEF Aligned
<1>8. \A o, s, rule : Repeats(o, s, rule, 0)' <=> Repeats(o, s, rule, 0)
  BY RepeatsStays
<1>9. \A o, s, axis : EvenlySpread(o, s, axis)' <=> EvenlySpread(o, s, axis)
  <2>. SUFFICES ASSUME NEW CONSTANT o, NEW CONSTANT s, NEW CONSTANT axis
                PROVE  EvenlySpread(o, s, axis)' <=> EvenlySpread(o, s, axis)
    OBVIOUS
  <2>. DEFINE sizes(k) == [j \in 1..(k - 1) |-> Size(s[j], axis)]
  <2>1. \A k : sizes(k)' = sizes(k)
    BY <1>2
  <2>2. EvenlySpread(o, s, axis) <=>
          \A k \in 1..Len(s) : Within(Len(s) - 1, (Len(s) - 1) * (Offset(s[k], o, axis) - Total(sizes(k))),
                                      (k - 1) * (Inner(o, axis) - Total(sizes(Len(s) + 1))))
    BY DEF EvenlySpread
  <2>3. EvenlySpread(o, s, axis)' <=>
          \A k \in 1..Len(s) : Within(Len(s) - 1, (Len(s) - 1) * (Offset(s[k], o, axis)' - Total(sizes(k)')),
                                      (k - 1) * (Inner(o, axis)' - Total(sizes(Len(s) + 1)')))
    BY DEF EvenlySpread
  <2>. HIDE DEF sizes
  <2>. QED  BY <1>2, <2>1, <2>2, <2>3
<1>10. \A o, c, flow : WrapEligible(o, c, flow)' <=> WrapEligible(o, c, flow)
  BY <1>1, <1>2, <1>4 DEF WrapEligible
<1>11. \A o : Flow(o)' = Flow(o) /\ Reading(Flow(o))' = Reading(Flow(o))
  BY FlowStays
<1>12. ASSUME NEW CONSTANT o, NEW CONSTANT s  PROVE PlacedAsDeclared(o, s)' <=> PlacedAsDeclared(o, s)
  BY <1>1, <1>2, <1>3, <1>4, <1>5, <1>6, <1>7, <1>8, <1>9, <1>10, <1>11 DEF PlacedAsDeclared
<1>. DEFINE order == Reading(Flow(p.at))
<1>13. order' = order
  BY <1>11
<1>14. PlacedAsDeclared(p.at, order)' <=> PlacedAsDeclared(p.at, order)
  BY <1>12, <1>13
<1>. QED  BY <1>14 DEF Exact, ContradictsNothing

(* No false alarm: a container whose children sit where its declaration    *)
(* puts them, in the order in which they are read from the top, is not     *)
(* contradicted by projectWeb.                                             *)
THEOREM ExactLayoutsAreQuiet == ProjectionSpec => []ExactLayoutIsQuiet
<1>1. ProjectionInit => AllExact
  BY DEF ProjectionInit, AllExact, Projected
<1>2. ASSUME ProjectionInv, Faithful, AllExact, [ProjectionNext]_<<vars, projectionVars>>
      PROVE  AllExact'
  <2>1. CASE Cut
    <3>1. projected' = <<>>
      <4>1. phase # "done"
        BY <2>1 DEF Cut, Next, Refuse, Begin, OmitHidden, OmitOverBudget, IncludeAtLimit,
                    IncludeAndDescend, Finish
      <4>. QED  BY <1>2, <2>1, <4>1 DEF Cut, projectionVars, ProjectionInv, PlansFollow
    <3>. QED  BY <3>1 DEF AllExact, Projected
  <2>2. CASE ProjectNode
    <3>. DEFINE n == Len(projected)
                plan == PlanOf(nodes[n + 1])
    <3>1. /\ phase = "done" /\ n < Len(nodes) /\ UNCHANGED vars
          /\ projected' = Append(projected, plan)
      BY <2>2 DEF ProjectNode, Project
    <3>2. IsList(projected) /\ n \in Nat /\ DOMAIN nodes = 1..Len(nodes) /\ Len(nodes) \in Nat
      BY <1>2, ListGrows DEF ProjectionInv, PlansFollow, Partition, TypeInv
    <3>3. Exact(plan)
      BY <1>2, <3>1, <3>2, PlanIsExact
    <3>4. Projected' = Projected \cup {plan}
      <4>. HIDE DEF plan
      <4>. QED  BY <3>1, <3>2, ListGrows DEF Projected
    <3>5. ASSUME NEW CONSTANT p \in Projected'  PROVE Exact(p)'
      <4>1. Exact(p)
        BY <1>2, <3>3, <3>4 DEF AllExact
      <4>. QED  BY <3>1, <4>1, ExactStays
    <3>. QED  BY <3>5 DEF AllExact
  <2>3. CASE UNCHANGED <<vars, projectionVars>>
    <3>1. UNCHANGED vars /\ Projected' = Projected
      BY <2>3 DEF projectionVars, Projected
    <3>2. ASSUME NEW CONSTANT p \in Projected'  PROVE Exact(p)'
      BY <1>2, <3>1, ExactStays DEF AllExact
    <3>. QED  BY <3>2 DEF AllExact
  <2>. QED  BY <1>2, <2>1, <2>2, <2>3 DEF ProjectionNext
<1>3. ProjectionSpec => []AllExact
  BY <1>1, <1>2, ProjectionIsFaithful, PTL DEF ProjectionSpec
<1>4. AllExact => ExactLayoutIsQuiet
  BY AllExactIsExactLayoutIsQuiet
<1>. QED  BY <1>3, <1>4, PTL

=============================================================================
