-------------------------------- MODULE Rules --------------------------------
(***************************************************************************)
(* loadRuleset and runRules: a project's checks, loaded all or none and    *)
(* then evaluated over the facts of a document (the command diagnostics).  *)
(*                                                                         *)
(* A ruleset is a sequence of [use, severity, wellFormed, params].  What a *)
(* finding says is left out: it is [rule, severity, target, ids].          *)
(***************************************************************************)
EXTENDS Facts

ASSUME RulesetsAssumption ==
    \A i \in Inputs : i.ruleset \in Seq({i.ruleset[k] : k \in DOMAIN i.ruleset})

VARIABLES
    loaded,   \* entries that have been loaded
    applied,  \* entries that have been evaluated
    findings

rulesVars == <<loaded, applied, findings>>
vars == <<canonicalVars, factsVars, rulesVars>>

DefaultSeverity ==
    [ textStyleName     |-> "error",   fontConsistency |-> "error",
      artboardWidth     |-> "error",   groupCompleteness |-> "warning",
      itemCount         |-> "warning", contentRoot     |-> "warning" ]

Ruleset == input.ruleset

Target(kind, about) == <<kind, about>>

-----------------------------------------------------------------------------
(***************************************************************************)
(* The built-in rules: what each one finds, as [target, ids].              *)
(***************************************************************************)
Found(target, ids) == [target |-> target, ids |-> ids]

(* parseStyleName: what the declared grammar makes of a style's name.      *)
Parsed(style) ==
    LET name == Snap.catalog[style] styles == input.config.styleNames
    IN IF styles = None \/ name \notin DOMAIN styles.parsed THEN None ELSE styles.parsed[name]

TextStyleName(params) ==
    { Found(Target("textStyle", s), Texts(s)) :
      s \in {t \in TextStyles : Snap.catalog[t] \notin params.exempt /\ Parsed(t) = None} }

ExemptFont(params, style) ==
    /\ params.exemptBy # None
    /\ Parsed(style) # None
    /\ Parsed(style)[params.exemptBy.segment] \in params.exemptBy.values

FontConsistency(params) ==
    { Found(Target("textStyle", s), Texts(s)) :
      s \in {t \in TextStyles :
               /\ ~ExemptFont(params, t)
               /\ \E e, f \in Fonts(t) : \E field \in params.requireSame : e[field] # f[field]} }

ArtboardWidth(params) ==
    { Found(Target("artboard", Snap.id[e.root]), {Snap.id[e.root]}) :
      e \in {m \in members :
               /\ m.breakpoint \in DOMAIN params.expected
               /\ nodes[m.root].box # None
               /\ nodes[m.root].box.width # params.expected[m.breakpoint]} }

GroupCompleteness(params) ==
    { Found(Target("responsiveGroup", g.section), {Snap.id[e.root] : e \in g.members}) :
      g \in {h \in groups : ~(params.breakpoints \subseteq {e.breakpoint : e \in h.members})} }

(* Whether the last of the names down to a node is among these; the facts  *)
(* of a root have no names.                                                *)
Leaf(i, names) ==
    LET path == facts[i].namePath IN path # <<>> /\ path[Len(path)] \in names

(* Slip: hidden items count too.                                           *)
CountAll(o, items) ==
    Cardinality({i \in DOMAIN facts : facts[i].parent = Snap.id[o] /\ Leaf(i, items)})

(* countItems: among the facts, by their parent's id.                      *)
CountItems(o, items) ==
    Cardinality({i \in DOMAIN facts :
        facts[i].parent = Snap.id[o] /\ facts[i].rendered /\ Leaf(i, items)})

(* Slip: a target that leaves out where the slot is.                       *)
SlotTargetByName(g, s) == Target("slot", <<g.section, <<s.path[Len(s.path)]>>>>)

SlotTarget(g, s) == Target("slot", <<g.section, s.path>>)

(* A slot that is hidden at one breakpoint is not compared at any.         *)
ItemCount(params) ==
    UNION {
      { Found(SlotTarget(g, s), {Snap.id[s.by[b]] : b \in DOMAIN s.by}) :
        s \in {t \in g.slots :
                 /\ t.path[Len(t.path)] \in params.containers
                 /\ \A b \in DOMAIN t.by : nodes[t.by[b]].visible
                 /\ \E b, d \in DOMAIN t.by :
                      CountItems(t.by[b], params.items) # CountItems(t.by[d], params.items)} } :
      g \in {h \in groups : h.section \notin params.exemptSections} }

ContentRoot(params) ==
    UNION {
      { Found(Target("node", i), {i}) :
        i \in {Snap.id[c] : c \in {d \in RenderedBelow(r) :
                 LET f == facts[Snap.id[d]] IN
                 f.rendered /\ Leaf(Snap.id[d], params.names) /\ nodes[f.at].layout.mode = "NONE"}} } :
      r \in {DocumentRoots[k] : k \in DOMAIN DocumentRoots} }

Evaluate(entry) ==
    CASE entry.use = "textStyleName"     -> TextStyleName(entry.params)
      [] entry.use = "fontConsistency"   -> FontConsistency(entry.params)
      [] entry.use = "artboardWidth"     -> ArtboardWidth(entry.params)
      [] entry.use = "groupCompleteness" -> GroupCompleteness(entry.params)
      [] entry.use = "itemCount"         -> ItemCount(entry.params)
      [] entry.use = "contentRoot"       -> ContentRoot(entry.params)

(* requireDeclared: the convention that a rule reads.                      *)
Undeclared(entry) ==
    \/ entry.use = "textStyleName" /\ input.config.styleNames = None
    \/ entry.use \in {"artboardWidth", "groupCompleteness", "itemCount"} /\ Responsive = None
    \/ /\ entry.use = "fontConsistency" /\ entry.params.exemptBy # None
       /\ input.config.styleNames # None
             => entry.params.exemptBy.segment \notin input.config.styleNames.segments

-----------------------------------------------------------------------------
RulesInit ==
    /\ FactsInit
    /\ loaded = <<>>
    /\ applied = <<>>
    /\ findings = {}

Derive ==
    /\ DeriveFacts
    /\ UNCHANGED rulesVars

(* Slip: the second entry of a rule is taken as well.                      *)
AcceptableAlone(k) ==
    LET entry == Ruleset[k] IN
    /\ entry.use \in DOMAIN DefaultSeverity
    /\ entry.severity \in {None, "error", "warning", "info"}
    /\ entry.wellFormed

(* loadRuleset: a rule that exists, configured once, with one of the three *)
(* severities and parameters that parse.                                   *)
Acceptable(k) ==
    LET entry == Ruleset[k] IN
    /\ entry.use \in DOMAIN DefaultSeverity
    /\ \A j \in 1..(k - 1) : Ruleset[j].use # entry.use
    /\ entry.severity \in {None, "error", "warning", "info"}
    /\ entry.wellFormed

(* The default severity is taken where none is given.                      *)
LoadedEntry(entry) ==
    [ use      |-> entry.use,
      severity |-> IF entry.severity = None THEN DefaultSeverity[entry.use] ELSE entry.severity,
      params   |-> entry.params ]

LoadEntry ==
    LET k == Len(loaded) + 1 IN
    /\ phase = "derived"
    /\ k <= Len(Ruleset) /\ Acceptable(k)
    /\ loaded' = Append(loaded, LoadedEntry(Ruleset[k]))
    /\ UNCHANGED <<canonicalVars, factsVars, applied, findings>>

RefuseRuleset ==
    LET k == Len(loaded) + 1 IN
    /\ phase = "derived"
    /\ k <= Len(Ruleset) /\ ~Acceptable(k)
    /\ phase' = "refused"
    /\ UNCHANGED <<input, todo, nodes, rejections, factsVars, rulesVars>>

FinishLoading ==
    /\ phase = "derived"
    /\ Len(loaded) = Len(Ruleset)
    /\ phase' = "loaded"
    /\ UNCHANGED <<input, todo, nodes, rejections, factsVars, rulesVars>>

EvaluateRule ==
    LET entry == loaded[Len(applied) + 1] IN
    /\ phase = "loaded" /\ Len(applied) < Len(loaded)
    /\ ~Undeclared(entry)
    /\ findings' = findings \cup
         { [rule |-> entry.use, severity |-> entry.severity, target |-> f.target, ids |-> f.ids] :
           f \in Evaluate(entry) }
    /\ applied' = Append(applied, entry)
    /\ UNCHANGED <<canonicalVars, factsVars, loaded>>

(* A rule that misses its convention ends the run: nothing is reported.    *)
RefuseRun ==
    /\ phase = "loaded" /\ Len(applied) < Len(loaded)
    /\ Undeclared(loaded[Len(applied) + 1])
    /\ phase' = "refused"
    /\ findings' = {}
    /\ UNCHANGED <<input, todo, nodes, rejections, factsVars, loaded, applied>>

FinishRun ==
    /\ phase = "loaded" /\ Len(applied) = Len(loaded)
    /\ phase' = "reported"
    /\ UNCHANGED <<input, todo, nodes, rejections, factsVars, rulesVars>>

Next ==
    \/ Derive
    \/ LoadEntry \/ RefuseRuleset \/ FinishLoading
    \/ EvaluateRule \/ RefuseRun \/ FinishRun

Spec == RulesInit /\ [][Next]_vars

-----------------------------------------------------------------------------
(***************************************************************************)
(* Properties                                                              *)
(***************************************************************************)
Applied(use) == {applied[k] : k \in {j \in DOMAIN applied : applied[j].use = use}}

(* "A ruleset that half-loaded would check less than the project believes  *)
(* it checks" (run.ts) and "nothing checked must not read as passed"       *)
(* (run.test.ts): a report has evaluated every entry of the ruleset, each  *)
(* rule once, and found the conventions declared that its rules read; a    *)
(* run that is refused reports no finding.                                 *)
AllOrNothing ==
    /\ phase = "refused" => findings = {}
    /\ phase = "reported" =>
         /\ [k \in DOMAIN applied |-> applied[k].use] = [k \in DOMAIN Ruleset |-> Ruleset[k].use]
         /\ \A j, k \in DOMAIN applied : applied[j].use = applied[k].use => j = k
         /\ Applied("textStyleName") # {} => input.config.styleNames # None
         /\ Applied("itemCount") \cup Applied("artboardWidth") \cup Applied("groupCompleteness") # {}
               => Responsive # None

(* types.ts: the identity of a finding, its rule and target, is "the unit  *)
(* a waiver names": no two findings of a run share it.                     *)
WaiverHitsOneFinding ==
    \A f, g \in findings : f.rule = g.rule /\ f.target = g.target => f = g

(* Both together: a report covers the whole ruleset, and each of its       *)
(* findings can be waived by itself.                                       *)
ReportIsWhole == AllOrNothing /\ WaiverHitsOneFinding

NoNestedRoots ==
    \A o, p \in DOMAIN nodes : Snap.id[o] = Snap.id[p] => o = p

(* The items of a list as they are drawn: read off the raw children.       *)
DrawnItems(o, items) ==
    Cardinality({c \in DOMAIN nodes : Snap.parent[c] = o /\ nodes[c].visible /\ Snap.name[c] \in items})

(* itemCount: "A repeated list should have the same number of items at     *)
(* every breakpoint".  If the rule was applied, in a run that is not       *)
(* refused, and says nothing of a group that no two artboards claim one    *)
(* breakpoint of, then of a list that is shown in all of its artboards,    *)
(* under one name path that is found once in each, all of them draw the    *)
(* same number of items.                                                   *)
QuietListsAgree ==
    phase # "refused" =>
    \A g \in groups : \A rule \in Applied("itemCount") :
      LET list(e, path) == {o \in DOMAIN nodes \ {e.root} : e.root \in Chain[o] /\ NamePath[o] = path}
          paths == {NamePath[o] : o \in {q \in DOMAIN nodes : Snap.name[q] \in rule.params.containers /\ ~IsRoot(q)}}
      IN \A path \in paths :
           /\ NoNestedRoots
           /\ g.section \notin rule.params.exemptSections
           /\ \A d, e \in g.members : d.breakpoint = e.breakpoint => d = e
           /\ \A e \in g.members : Cardinality(list(e, path)) = 1 /\ \A o \in list(e, path) : nodes[o].visible
           /\ ~\E f \in findings : f.rule = "itemCount" /\ f.target = Target("slot", <<g.section, path>>)
           => \A d, e \in g.members : \A o \in list(d, path) : \A p \in list(e, path) :
                DrawnItems(o, rule.params.items) = DrawnItems(p, rule.params.items)
=============================================================================
