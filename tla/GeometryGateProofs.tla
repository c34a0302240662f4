------------------------- MODULE GeometryGateProofs -------------------------
(***************************************************************************)
(* What a verdict of the geometry gate means, for every slice, every file  *)
(* of measurements and every tolerance.                                    *)
(*                                                                         *)
(* The report is a record of everything that was looked at so far          *)
(* (Recorded), what is excused was confirmed (Confirmed), and a match is a *)
(* report without any of the failing entries.                              *)
(*                                                                         *)
(* The last part is about diff-geometry, where the slice is one that was   *)
(* just cut: what the gate concludes of the slice is so in the document.   *)
(***************************************************************************)
EXTENDS DiffGeometry, SliceCutProofs

InputOK == IsSlice(slice) /\ IsFile(file) /\ IsSetting(setting)

(* Past decoding, the file is one that can be compared; before, no claim   *)
(* was looked at.                                                          *)
Decoded ==
    /\ stage \notin {"decode", "refused"} => Decodable /\ Comparable
    /\ stage = "decode" => at = 1
    /\ stage \in {"decode", "refused"} => excused = {}

(* What the report holds of an entry once it was looked at.                *)
Noted(e) ==
    /\ e.id \notin slice.nodes => e.id \in unknown
    /\ e.id \in slice.nodes /\ ~HasBox(e.id) => e.id \in boxless
    /\ e.id \in slice.nodes /\ HasBox(e.id) =>
         /\ \A s \in Missed(e) : <<e.id, s>> \in mismatches
         /\ Flipped(e) => e.id \in flips
         /\ e.element # None => <<e.element, e.id>> \in holders
         /\ e.element = None => e.id \in unlabelled

LookedAt(k) == stage \in {"exclude", "done"} \/ (stage = "compare" /\ k < at)

Recorded == \A k \in DOMAIN file.entries : LookedAt(k) => Noted(file.entries[k])

Confirmed ==
    \A n \in excused : \E x \in Items(file.exclusions) : x.id = n /\ Upheld(x)

Concluded == verdict = "match" => stage = "done" /\ ~Fails

GateInvariant == GateTypeOK /\ InputOK /\ Decoded /\ Recorded /\ Confirmed /\ Concluded

-----------------------------------------------------------------------------
(* A height that the budget passes, and that is not a line jump, moved by  *)
(* at most half a line.                                                    *)
LEMMA HalfALine ==
    ASSUME NEW d \in Int, NEW h \in Nat, h > 0, NEW bound \in Int,
           LET q == (2 * d + h) \div (2 * h)
           IN ~(q # 0 /\ Abs(d - q * h) <= bound),
           Abs(d) <= bound
    PROVE  2 * Abs(d) <= h
<1> DEFINE q == (2 * d + h) \div (2 * h)
           p == q * h
<1>1. /\ q \in Int /\ p \in Int
      /\ 2 * p <= 2 * d + h /\ 2 * d + h < 2 * p + 2 * h
  <2>1. 2 * h \in Nat /\ 2 * h > 0 /\ 2 * d + h \in Int
    OBVIOUS
  <2>2. q \in Int /\ q * (2 * h) <= 2 * d + h /\ 2 * d + h < q * (2 * h) + 2 * h
    BY <2>1, Z3
  <2>3. q * (2 * h) = 2 * (q * h) /\ q * h \in Int
    BY <2>2, Z3
  <2> QED BY <2>2, <2>3
<1>2. CASE q = 0
  <2>1. p = 0
    BY <1>2
  <2> HIDE DEF p, q
  <2> QED BY <1>1, <2>1 DEF Abs
<1>3. CASE q # 0
  <2>1. ~(Abs(d - p) <= bound)
    BY <1>3
  <2>2. q >= 1 => p >= h
    BY <1>1, Z3
  <2>3. q <= -1 => p <= -h
    BY <1>1, Z3
  <2>4. p >= h \/ p <= -h
    BY <1>1, <1>3, <2>2, <2>3
  <2> HIDE DEF p, q
  <2> QED BY <1>1, <2>1, <2>4 DEF Abs
<1> QED BY <1>2, <1>3

LEMMA StartEstablishes == InputOK /\ Start => GateInvariant
  BY DEF Start, Blank, GateInvariant, GateTypeOK, InputOK, Decoded, Recorded, LookedAt, Confirmed,
         Concluded

LEMMA StartLater == (InputOK /\ Start => GateInvariant)'
  BY StartEstablishes, PTL

LEMMA InitEstablishes == GateInit => GateInvariant
  BY StartEstablishes, SlicesAssumption, SettingsAssumption DEF GateInit, InputOK

(* What is expected of a measurement depends on the input only.            *)
LEMMA SameInput ==
    ASSUME UNCHANGED input
    PROVE  /\ slice' = slice /\ file' = file /\ setting' = setting
           /\ \A n : Look(n)' = Look(n) /\ HasBox(n)' = HasBox(n)
           /\ \A e : Missed(e)' = Missed(e) /\ Flipped(e)' = Flipped(e)
<1>1. slice' = slice /\ file' = file /\ setting' = setting
  BY DEF input
<1>2. \A n : Look(n)' = Look(n)
  BY <1>1 DEF Look
<1>3. \A n : HasBox(n)' = HasBox(n)
  BY <1>2 DEF HasBox
<1>4. \A n, s : Expected(n, s)' = Expected(n, s)
  BY <1>1, <1>2 DEF Expected, RootBox, Look
<1>5. \A e, s : Delta(e, s)' = Delta(e, s)
  BY <1>4 DEF Delta
<1>6. \A n, s : Budgeted(n, s)' = Budgeted(n, s)
  BY <1>2 DEF Budgeted, BudgetEligible
<1>7. \A n : TextBound(n)' = TextBound(n)
  BY <1>1, <1>2 DEF TextBound, EstimatedLines
<1>8. \A n, d : LineDelta(n, d)' = LineDelta(n, d)
  BY <1>2 DEF LineDelta
<1>9. \A d : WithinStrict(d)' = WithinStrict(d)
  BY <1>1 DEF WithinStrict
<1>10. \A n, s, d : IsWrapFlip(n, s, d)' = IsWrapFlip(n, s, d)
  BY <1>2, <1>6, <1>7, <1>8, <1>9 DEF IsWrapFlip
<1>11. \A n, s, d : WithinBudget(n, s, d)' = WithinBudget(n, s, d)
  BY <1>6, <1>7, <1>9, <1>10 DEF WithinBudget
<1>12. \A e : Missed(e)' = Missed(e)
  BY <1>5, <1>9, <1>10, <1>11 DEF Missed, Misses
<1>13. \A e : Flipped(e)' = Flipped(e)
  BY <1>5, <1>10 DEF Flipped
<1> QED BY <1>1, <1>2, <1>3, <1>12, <1>13

(* The file and what may be claimed of it depend on the input only.        *)
LEMMA SameClaims ==
    ASSUME UNCHANGED input
    PROVE  /\ MeasuredIds' = MeasuredIds
           /\ Decodable' = Decodable /\ Comparable' = Comparable
           /\ \A x : Upheld(x)' = Upheld(x)
<1>1. slice' = slice /\ file' = file /\ setting' = setting
  BY DEF input
<1>2. MeasuredIds' = MeasuredIds
  BY <1>1 DEF MeasuredIds
<1>3. \A n : Look(n)' = Look(n) /\ HasBox(n)' = HasBox(n)
  BY SameInput
<1>4. Decodable' = Decodable /\ Comparable' = Comparable
  BY <1>1, <1>2, <1>3 DEF Decodable, Comparable
<1>5. \A n : Parent(n)' = Parent(n)
  BY <1>1 DEF Parent
<1>6. \A n : RenderedChildren(n)' = RenderedChildren(n)
  BY <1>1, <1>5 DEF RenderedChildren
<1>7. Above' = Above /\ AssetLike' = AssetLike
  BY <1>1 DEF Above, AssetLike, Parent, Look, RenderedChildren
<1>8. \A n : InsideAsset(n)' = InsideAsset(n)
  BY <1>1, <1>2, <1>7 DEF InsideAsset, IsNearestMeasured
<1>9. \A n : Derivable(n)' = Derivable(n)
  BY <1>1, <1>2, <1>3, <1>6 DEF Derivable, Derived, DesignBox, Look, RenderedChildren, Parent, HasBox
<1>10. \A n, c : InsideControl(n, c)' = InsideControl(n, c)
  BY <1>1, <1>3, <1>7 DEF InsideControl
<1>11. \A n, t : Collapsed(n, t)' = Collapsed(n, t)
  BY <1>1, <1>2, <1>3, <1>5, <1>6 DEF Collapsed, Collapsible
<1>12. \A x : Upheld(x)' = Upheld(x)
  BY <1>1, <1>8, <1>9, <1>10, <1>11 DEF Upheld
<1> QED BY <1>2, <1>4, <1>12

(* Steps that look at an entry.                                            *)
LEMMA EntryStep ==
    ASSUME GateInvariant, SkipUnknown \/ SkipBoxless \/ Compare
    PROVE  GateInvariant'
<1> USE DEF GateInvariant
<1>1. /\ stage = "compare" /\ stage' = stage /\ at \in DOMAIN file.entries /\ at' = at + 1
      /\ input' = input /\ claimsReport' = claimsReport /\ verdict' = verdict
  BY DEF SkipUnknown, SkipBoxless, Compare, Advance
<1>2. slice' = slice /\ file' = file /\ setting' = setting /\ excused' = excused /\ invalid' = invalid
  BY <1>1 DEF input, claimsReport
<1>3. /\ unknown \subseteq unknown' /\ boxless \subseteq boxless' /\ holders \subseteq holders'
      /\ unlabelled \subseteq unlabelled' /\ mismatches \subseteq mismatches' /\ flips \subseteq flips'
  BY DEF SkipUnknown, SkipBoxless, Compare
<1>4. \A e : Missed(e)' = Missed(e) /\ Flipped(e)' = Flipped(e) /\ HasBox(e.id)' = HasBox(e.id)
  BY <1>1, SameInput
<1>5. \A e : Noted(e) => Noted(e)'
  BY <1>2, <1>3, <1>4 DEF Noted
<1>6. ASSUME NEW e, e = file.entries[at] PROVE Noted(e)'
  <2>0. Entry = e
    BY <1>6 DEF Entry
  <2>1. CASE SkipUnknown
    BY <1>2, <2>0, <2>1 DEF SkipUnknown, Noted
  <2>2. CASE SkipBoxless
    BY <1>2, <1>4, <2>0, <2>2 DEF SkipBoxless, Noted
  <2>3. CASE Compare
    <3>1. \A s \in Missed(e) : <<e.id, s>> \in mismatches'
      BY <2>0, <2>3 DEF Compare
    <3>2. /\ Flipped(e) => e.id \in flips'
          /\ e.element # None => <<e.element, e.id>> \in holders'
          /\ e.element = None => e.id \in unlabelled'
      BY <2>0, <2>3 DEF Compare
    <3>3. e.id \in slice.nodes /\ HasBox(e.id)
      BY <2>0, <2>3 DEF Compare
    <3> QED BY <1>2, <1>4, <3>1, <3>2, <3>3 DEF Noted
  <2> QED BY <2>1, <2>2, <2>3
<1>7. Recorded'
  <2> SUFFICES ASSUME NEW k \in DOMAIN file.entries, LookedAt(k)' PROVE Noted(file.entries[k])'
    BY <1>2 DEF Recorded
  <2>1. file.entries[k]' = file.entries[k]
    BY <1>2
  <2>2. PICK e : e = file.entries[k]
    OBVIOUS
  <2>3. k \in Nat /\ at \in Nat
    BY DEF GateTypeOK, InputOK, IsFile
  <2>4. CASE k = at
    BY <1>2, <1>6, <2>2, <2>4
  <2>5. CASE k < at
    BY <1>1, <1>2, <1>5, <2>2, <2>5 DEF Recorded, LookedAt
  <2> QED BY <1>1, <2>3, <2>4, <2>5 DEF LookedAt
<1>8. GateTypeOK'
  <2> USE <1>1, <1>2 DEF GateTypeOK
  <2>1. CASE SkipUnknown
    BY <2>1 DEF SkipUnknown
  <2>2. CASE SkipBoxless
    BY <2>2 DEF SkipBoxless
  <2>3. CASE Compare
    <3>1. Entry.id \in slice.nodes
      BY <2>3 DEF Compare
    <3>2. mismatches' \subseteq slice.nodes \X Slots
      BY <2>3, <3>1 DEF Compare, Missed
    <3>3. /\ unlabelled' \cup flips' \subseteq slice.nodes
          /\ \A h \in holders' : h[2] \in slice.nodes
      BY <2>3, <3>1 DEF Compare
    <3>4. compared' \in Nat /\ matched' \in 0..compared'
      BY <2>3 DEF Compare
    <3>5. boxless' = boxless /\ unknown' = unknown
      BY <2>3 DEF Compare
    <3> QED BY <3>2, <3>3, <3>4, <3>5
  <2> QED BY <2>1, <2>2, <2>3
<1>9. InputOK'
  BY <1>2 DEF InputOK
<1>10. Decoded'
  BY <1>1, SameClaims DEF Decoded
<1>11. Confirmed'
  BY <1>1, <1>2, SameClaims DEF Confirmed
<1>12. Concluded'
  BY <1>1 DEF Concluded
<1> QED BY <1>7, <1>8, <1>9, <1>10, <1>11, <1>12

(* Steps that leave the report on the entries alone.                       *)
LEMMA OtherStep ==
    ASSUME GateInvariant,
           RefuseFile \/ Decode \/ FinishEntries \/ Accept \/ Reject \/ Conclude \/ UNCHANGED gateVars
    PROVE  GateInvariant'
<1> USE DEF GateInvariant
<1>1. input' = input /\ entriesReport' = entriesReport
  BY DEF RefuseFile, Decode, FinishEntries, Accept, Reject, Conclude, gateVars, input, entriesReport, claimsReport
<1>2. /\ slice' = slice /\ file' = file /\ setting' = setting
      /\ unknown' = unknown /\ boxless' = boxless /\ holders' = holders /\ unlabelled' = unlabelled
      /\ mismatches' = mismatches /\ flips' = flips /\ compared' = compared /\ matched' = matched
  BY <1>1 DEF input, entriesReport
<1>3. \A e : Noted(e)' = Noted(e)
  BY <1>1, <1>2, SameInput DEF Noted
<1>4. /\ stage' \in {"decode", "compare", "exclude", "done", "refused"}
      /\ at' \in Nat \ {0}
      /\ verdict' \in {"none", "match", "mismatch"}
  BY DEF GateTypeOK, RefuseFile, Decode, FinishEntries, Accept, Reject, Conclude, gateVars
<1>5. GateTypeOK'
  BY <1>2, <1>4 DEF GateTypeOK
<1>6. InputOK'
  BY <1>2 DEF InputOK
<1>7. Decoded'
  <2>1. stage' \in {"decode", "refused"} => stage \in {"decode", "refused"} /\ excused' = excused
    BY DEF RefuseFile, Decode, FinishEntries, Accept, Reject, Conclude, gateVars, claimsReport
  <2>2. stage' = "decode" => at' = 1
    BY DEF Decoded, RefuseFile, Decode, FinishEntries, Accept, Reject, Conclude, gateVars
  <2>3. stage' \notin {"decode", "refused"} => Decodable' /\ Comparable'
    BY <1>1, SameClaims DEF Decoded, RefuseFile, Decode, FinishEntries, Accept, Reject, Conclude, gateVars
  <2> QED BY <2>1, <2>2, <2>3 DEF Decoded
<1>8. ASSUME NEW k \in DOMAIN file.entries, LookedAt(k)' PROVE LookedAt(k)
  <2>1. k \in Nat \ {0} /\ at \in Nat /\ (at \notin DOMAIN file.entries => k < at)
    BY DEF GateTypeOK, InputOK, IsFile
  <2>2. stage = "decode" => at' = 1 /\ stage' \in {"decode", "compare", "refused"}
    BY DEF Decoded, RefuseFile, Decode, FinishEntries, Accept, Reject, Conclude, gateVars
  <2>3. stage # "decode"
    BY <1>8, <2>1, <2>2 DEF LookedAt
  <2> QED BY <1>8, <2>1, <2>3 DEF LookedAt, RefuseFile, Decode, FinishEntries, Accept, Reject, Conclude, gateVars
<1>9. Recorded'
  <2> SUFFICES ASSUME NEW k \in DOMAIN file.entries, LookedAt(k)' PROVE Noted(file.entries[k])'
    BY <1>2 DEF Recorded
  <2>1. PICK e : e = file.entries[k]
    OBVIOUS
  <2>2. Noted(e)
    BY <1>8, <2>1 DEF Recorded
  <2> QED BY <1>2, <1>3, <2>1, <2>2
<1>10. Confirmed'
  <2> SUFFICES ASSUME NEW n \in excused' PROVE \E x \in Items(file.exclusions) : x.id = n /\ Upheld(x)
    BY <1>1, <1>2, SameClaims DEF Confirmed
  <2>1. CASE n \in excused
    BY <2>1 DEF Confirmed
  <2>2. CASE n \notin excused
    <3>1. Accept
      BY <2>2 DEF RefuseFile, Decode, FinishEntries, Accept, Reject, Conclude, gateVars, claimsReport
    <3>2. Claim \in Items(file.exclusions) /\ n = Claim.id /\ Upheld(Claim)
      BY <2>2, <3>1 DEF Accept, Claim, Items
    <3> QED BY <3>2
  <2> QED BY <2>1, <2>2
<1>11. Concluded'
  <2>1. CASE Conclude
    <3>1. Fails' = Fails
      <4>1. UnmeasuredRendered' = UnmeasuredRendered
        BY <1>1, <1>2, <2>1, SameInput, SameClaims DEF UnmeasuredRendered, Boxed, Conclude, claimsReport
      <4>2. SharedElements' = SharedElements
        BY <1>2 DEF SharedElements
      <4> QED BY <1>2, <2>1, <4>1, <4>2 DEF Fails, Conclude, claimsReport
    <3> QED BY <2>1, <3>1 DEF Conclude, Concluded
  <2>2. CASE UNCHANGED gateVars
    <3>1. Fails' = Fails
      <4>1. UnmeasuredRendered' = UnmeasuredRendered
        BY <1>1, <1>2, <2>2, SameInput, SameClaims DEF UnmeasuredRendered, Boxed, gateVars, claimsReport
      <4>2. SharedElements' = SharedElements
        BY <1>2 DEF SharedElements
      <4> QED BY <1>2, <2>2, <4>1, <4>2 DEF Fails, gateVars, claimsReport
    <3> QED BY <2>2, <3>1 DEF Concluded, gateVars
  <2>3. CASE ~Conclude /\ ~(UNCHANGED gateVars)
    <3>1. stage # "done" /\ verdict' = verdict
      BY <2>3 DEF RefuseFile, Decode, FinishEntries, Accept, Reject
    <3> QED BY <3>1 DEF Concluded
  <2> QED BY <2>1, <2>2, <2>3
<1> QED BY <1>5, <1>6, <1>7, <1>9, <1>10, <1>11

LEMMA GateStep == GateInvariant /\ [GateNext]_gateVars => GateInvariant'
  BY EntryStep, OtherStep DEF GateNext

LEMMA Invariance ==
    GateSpec => []GateInvariant
  BY InitEstablishes, GateStep, PTL DEF GateSpec

-----------------------------------------------------------------------------
(* Every variable keeps its type, for every slice, file and tolerances.    *)
THEOREM GateTypeCorrect == GateSpec => []GateTypeOK
<1>1. GateInvariant => GateTypeOK
  BY DEF GateInvariant
<1> QED BY Invariance, <1>1, PTL

(* A match has noted every entry, and none of them among the failures.     *)
LEMMA MatchNotesEverything ==
    ASSUME GateInvariant, verdict = "match", NEW e \in Items(file.entries)
    PROVE  /\ e.id \in slice.nodes /\ HasBox(e.id)
           /\ Missed(e) = {} /\ ~Flipped(e)
           /\ e.element # None => <<e.element, e.id>> \in holders
           /\ setting.requireElements => e.element # None
<1>1. stage = "done" /\ ~Fails
  BY DEF GateInvariant, Concluded
<1>2. Noted(e)
  BY <1>1 DEF GateInvariant, Recorded, LookedAt, Items
<1> QED BY <1>1, <1>2 DEF Noted, Fails

(* The lengths that are compared are integers.                             *)
LEMMA Lengths ==
    ASSUME GateInvariant, stage = "done", NEW e \in Items(file.entries),
           e.id \in slice.nodes, HasBox(e.id), NEW s \in Slots
    PROVE  /\ Delta(e, s) \in Int
           /\ Look(e.id).lineHeight \in Nat
           /\ BudgetEligible(e.id) => TextBound(e.id) \in Int
<1>1. IsSlice(slice) /\ IsFile(file) /\ IsSetting(setting) /\ Comparable
  BY DEF GateInvariant, InputOK, Decoded
<1>2. Look(e.id) \in Looks /\ Look(e.id).box \in Boxes
  BY <1>1 DEF IsSlice, Look, HasBox, Looks
<1>3. Look(e.id).lineHeight \in Nat
  BY <1>2 DEF Looks
<1>4. RootBox \in Boxes
  BY <1>1 DEF IsSlice, Look, HasBox, Looks, RootBox, Comparable
<1>5. e.at \in Boxes
  BY <1>1 DEF IsFile, Items
<1>6. /\ e.at[s] \in Int /\ Look(e.id).box[s] \in Int
      /\ s \in {"x", "y"} => RootBox[s] \in Int
  BY <1>2, <1>4, <1>5 DEF Boxes
<1>7. Delta(e, s) \in Int
  BY <1>6 DEF Delta, Expected
<1>8. BudgetEligible(e.id) => TextBound(e.id) \in Int
  <2> SUFFICES ASSUME BudgetEligible(e.id) PROVE TextBound(e.id) \in Int
    OBVIOUS
  <2>1. Look(e.id).box.height \in Int
    BY <1>2 DEF Boxes, Slots
  <2>2. Look(e.id).lineHeight \in Nat /\ Look(e.id).lineHeight > 0
    BY <1>3 DEF BudgetEligible
  <2>3. EstimatedLines(e.id) \in Int
    BY <2>1, <2>2 DEF EstimatedLines
  <2>4. setting.textTolerance \in Int /\ setting.perLine \in Int
    BY <1>1 DEF IsSetting
  <2> QED BY <2>3, <2>4, Z3 DEF TextBound
<1> QED BY <1>3, <1>7, <1>8

(* "Wrong mappings always fail", and so do jumps by whole lines, under any *)
(* text budget: of a match every entry is a node of the slice, where the   *)
(* design has it.                                                          *)
THEOREM GateMatchIsFaithful == GateSpec => []MatchIsFaithful
<1>1. GateInvariant => MatchIsFaithful
  <2> SUFFICES ASSUME GateInvariant, verdict = "match", NEW e \in Items(file.entries)
               PROVE  e.id \in slice.nodes /\ HasBox(e.id) /\ IsFaithful(e)
    BY DEF MatchIsFaithful
  <2>1. e.id \in slice.nodes /\ HasBox(e.id) /\ Missed(e) = {} /\ ~Flipped(e)
    BY MatchNotesEverything
  <2>2. stage = "done"
    BY DEF GateInvariant, Concluded
  <2>3. ASSUME NEW s \in Slots, ~WithinStrict(Delta(e, s))
        PROVE  /\ Budgeted(e.id, s)
               /\ Abs(Delta(e, s)) <= TextBound(e.id)
               /\ s = "height" => 2 * Abs(Delta(e, s)) <= Look(e.id).lineHeight
    <3> DEFINE d == Delta(e, s)
               h == Look(e.id).lineHeight
               bound == TextBound(e.id)
    <3>1. ~Misses(e.id, s, d)
      BY <2>1 DEF Missed
    <3>2. ~IsWrapFlip(e.id, s, d)
      BY <2>1 DEF Flipped, IsWrapFlip
    <3>3. Budgeted(e.id, s) /\ Abs(d) <= bound
      BY <2>3, <3>1, <3>2 DEF Misses, WithinBudget
    <3>4. d \in Int /\ h \in Nat /\ h > 0 /\ bound \in Int
      BY <2>1, <2>2, <3>3, Lengths DEF Budgeted, BudgetEligible
    <3>5. ASSUME s = "height" PROVE 2 * Abs(d) <= h
      <4>1. ~(LineDelta(e.id, d) # 0 /\ Abs(d - LineDelta(e.id, d) * h) <= bound)
        BY <2>3, <3>2, <3>3, <3>5 DEF IsWrapFlip
      <4>2. LineDelta(e.id, d) = (2 * d + h) \div (2 * h)
        BY DEF LineDelta
      <4> HIDE DEF d, h, bound
      <4> QED BY <3>3, <3>4, <4>1, <4>2, HalfALine
    <3> QED BY <3>3, <3>5
  <2> QED BY <2>1, <2>3 DEF IsFaithful
<1> QED BY Invariance, <1>1, PTL

(* The claims that excuse a node from coverage relate it to a measured     *)
(* node in one step.                                                       *)
LEMMA UpheldIsAnswered ==
    ASSUME NEW x, Upheld(x)
    PROVE  IsAnswered(x.id)
<1>1. CASE InsideAsset(x.id)
  BY <1>1 DEF InsideAsset, IsNearestMeasured, IsAnswered
<1>2. CASE Derivable(x.id)
  BY <1>2 DEF Derivable, IsAnswered
<1>3. CASE InsideControl(x.id, x.target)
  <2>1. x.target \in Above[x.id] \cap MeasuredIds
    BY <1>3 DEF InsideControl, MeasuredIds
  <2> QED BY <1>3, <2>1 DEF IsAnswered
<1>4. CASE Collapsed(x.id, x.target)
  BY <1>4 DEF Collapsed, IsAnswered
<1> QED BY <1>1, <1>2, <1>3, <1>4 DEF Upheld

LEMMA MatchIsAnswered == GateInvariant => EveryNodeAnswered
<1> SUFFICES ASSUME GateInvariant, verdict = "match", setting.requireCoverage, NEW n \in Boxed
             PROVE  IsAnswered(n)
  BY DEF EveryNodeAnswered
<1>1. UnmeasuredRendered = {}
  BY DEF GateInvariant, Concluded, Fails
<1>2. n \in MeasuredIds \/ n \in excused
  BY <1>1 DEF UnmeasuredRendered
<1>3. CASE n \in MeasuredIds
  BY <1>3 DEF IsAnswered
<1>4. CASE n \in excused
  BY <1>4, UpheldIsAnswered DEF GateInvariant, Confirmed
<1> QED BY <1>2, <1>3, <1>4

(* "Zero mismatches is achievable by measuring nothing": with coverage     *)
(* required it is not, for any slice and any claims, however they refer to *)
(* each other.                                                             *)
THEOREM GateAnswersEveryNode == GateSpec => []EveryNodeAnswered
  BY Invariance, MatchIsAnswered, PTL

(* One element never answers for two nodes in a match.                     *)
THEOREM GateSharesNoElement == GateSpec => []OneElementEach
<1>1. GateInvariant => OneElementEach
  <2> SUFFICES ASSUME GateInvariant, verdict = "match",
                      NEW d \in Items(file.entries), NEW e \in Items(file.entries)
               PROVE  /\ d.element = e.element /\ d.element # None => d = e
                      /\ setting.requireElements => e.element # None
    BY DEF OneElementEach
  <2>1. setting.requireElements => e.element # None
    BY MatchNotesEverything
  <2>2. ASSUME d.element = e.element, d.element # None PROVE d = e
    <3>1. <<d.element, d.id>> \in holders /\ <<d.element, e.id>> \in holders
      BY <2>2, MatchNotesEverything
    <3>2. SharedElements = {} /\ Decodable
      BY DEF GateInvariant, Concluded, Fails, Decoded
    <3>3. d.id = e.id
      <4> SUFFICES ASSUME d.id # e.id PROVE FALSE
        OBVIOUS
      <4>1. <<d.element, d.id>>[1] \in SharedElements
        BY <3>1 DEF SharedElements
      <4> QED BY <3>2, <4>1
    <3> QED BY <3>2, <3>3 DEF Decodable, Items
  <2> QED BY <2>1, <2>2
<1> QED BY Invariance, <1>1, PTL

(* Both together: in a match every node has an answer and every answer an  *)
(* element of its own.                                                     *)
THEOREM GateAnswersAreTheirOwn == GateSpec => []EveryAnswerIsItsOwn
  BY GateAnswersEveryNode, GateSharesNoElement, PTL DEF EveryAnswerIsItsOwn

-----------------------------------------------------------------------------
(* The greatest and the least of a finite set of numbers.                  *)
LEMMA ExtremesExist ==
    ASSUME NEW S, S \subseteq Int, IsFiniteSet(S), S # {}
    PROVE  /\ Max(S) \in S /\ \A k \in S : k <= Max(S)
           /\ Min(S) \in S /\ \A k \in S : Min(S) <= k
<1>1. PICK m \in S : \A k \in S : k <= m
  BY GreatestInteger
<1>2. Max(S) \in S /\ \A k \in S : Max(S) >= k
  <2>1. \A k \in S : m >= k
    BY <1>1
  <2> QED BY <2>1 DEF Max
<1>3. PICK l \in S : \A k \in S : l <= k
  <2> DEFINE f == [k \in S |-> -k]
             T == {f[k] : k \in S}
  <2>1. T \subseteq Int /\ T # {}
    OBVIOUS
  <2>2. IsFiniteSet(T)
    <3>1. (\A k \in S : f[k] \in T) /\ \A t \in T : \E k \in S : t = f[k]
      OBVIOUS
    <3> HIDE DEF f, T
    <3> QED BY <3>1, FiniteImage
  <2>3. PICK t \in T : \A u \in T : u <= t
    BY <2>1, <2>2, GreatestInteger
  <2>4. PICK l \in S : t = -l
    OBVIOUS
  <2>5. \A k \in S : -k <= -l
    BY <2>3, <2>4
  <2>6. ASSUME NEW k \in S PROVE l <= k
    <3>1. k \in Int /\ l \in Int /\ -k <= -l
      BY <2>5
    <3> QED BY <3>1
  <2> QED BY <2>6
<1>4. Min(S) \in S /\ \A k \in S : Min(S) <= k
  BY <1>3 DEF Min
<1>5. \A k \in S : k <= Max(S)
  BY <1>2
<1> QED BY <1>2, <1>4, <1>5

(* If every number moves by at most d, so do the greatest and the least.   *)
LEMMA ExtremesStayClose ==
    ASSUME NEW C, IsFiniteSet(C), C # {}, NEW f \in [C -> Int], NEW g \in [C -> Int],
           NEW d \in Int, \A c \in C : Abs(f[c] - g[c]) <= d
    PROVE  /\ Max({f[c] : c \in C}) \in Int /\ Max({g[c] : c \in C}) \in Int
           /\ Min({f[c] : c \in C}) \in Int /\ Min({g[c] : c \in C}) \in Int
           /\ Abs(Max({f[c] : c \in C}) - Max({g[c] : c \in C})) <= d
           /\ Abs(Min({f[c] : c \in C}) - Min({g[c] : c \in C})) <= d
<1> DEFINE F == {f[c] : c \in C}
           G == {g[c] : c \in C}
<1>1. F \subseteq Int /\ F # {} /\ G \subseteq Int /\ G # {}
  OBVIOUS
<1>2. IsFiniteSet(F) /\ IsFiniteSet(G)
  <2>1. /\ \A c \in C : f[c] \in F /\ g[c] \in G
        /\ \A t \in F : \E c \in C : t = f[c]
        /\ \A t \in G : \E c \in C : t = g[c]
    OBVIOUS
  <2> HIDE DEF F, G
  <2> QED BY <2>1, FiniteImage
<1>3. \A c \in C : f[c] \in F /\ g[c] \in G
  OBVIOUS
<1>4. /\ Max(F) \in F /\ \A k \in F : k <= Max(F)
      /\ Min(F) \in F /\ \A k \in F : Min(F) <= k
  BY <1>1, <1>2, ExtremesExist
<1>5. /\ Max(G) \in G /\ \A k \in G : k <= Max(G)
      /\ Min(G) \in G /\ \A k \in G : Min(G) <= k
  BY <1>1, <1>2, ExtremesExist
<1>6. PICK a \in C, b \in C, p \in C, q \in C :
        Max(F) = f[a] /\ Max(G) = g[b] /\ Min(F) = f[p] /\ Min(G) = g[q]
  BY <1>4, <1>5
<1>7. f[b] <= Max(F) /\ g[a] <= Max(G) /\ Min(F) <= f[q] /\ Min(G) <= g[p]
  BY <1>3, <1>4, <1>5
<1> HIDE DEF F, G
<1>8. /\ f[a] \in Int /\ f[b] \in Int /\ f[p] \in Int /\ f[q] \in Int
      /\ g[a] \in Int /\ g[b] \in Int /\ g[p] \in Int /\ g[q] \in Int
  OBVIOUS
<1>9. Abs(f[a] - g[a]) <= d /\ Abs(f[b] - g[b]) <= d /\ Abs(f[p] - g[p]) <= d /\ Abs(f[q] - g[q]) <= d
  OBVIOUS
<1>10. Abs(Max(F) - Max(G)) <= d
  BY <1>6, <1>7, <1>8, <1>9 DEF Abs
<1>11. Abs(Min(F) - Min(G)) <= d
  BY <1>6, <1>7, <1>8, <1>9 DEF Abs
<1> QED BY <1>6, <1>8, <1>10, <1>11 DEF F, G

(* A slot that no budget applies to is within the tolerance in a match.    *)
LEMMA StrictInAMatch ==
    ASSUME GateInvariant, verdict = "match", NEW e \in Items(file.entries), NEW s \in {"x", "width"}
    PROVE  Abs(Delta(e, s)) <= setting.tolerance
<1>1. Missed(e) = {}
  BY MatchNotesEverything
<1>2. ~Misses(e.id, s, Delta(e, s))
  BY <1>1 DEF Missed, Slots
<1>3. ~Budgeted(e.id, s)
  BY DEF Budgeted
<1> QED BY <1>2, <1>3 DEF Misses, IsWrapFlip, WithinBudget, WithinStrict

(* The measured ids are finitely many.                                     *)
LEMMA MeasuredIsFinite == IsFile(file) => IsFiniteSet(MeasuredIds)
<1> SUFFICES ASSUME IsFile(file) PROVE IsFiniteSet(MeasuredIds)
  OBVIOUS
<1> DEFINE E == file.entries
           f == [k \in DOMAIN E |-> E[k].id]
<1>1. E \in Seq(Items(E)) /\ DOMAIN E = 1..Len(E) /\ Len(E) \in Nat
  BY DEF IsFile
<1>2. IsFiniteSet(DOMAIN E)
  BY <1>1, FS_Interval
<1>3. (\A k \in DOMAIN E : f[k] \in MeasuredIds) /\ \A i \in MeasuredIds : \E k \in DOMAIN E : i = f[k]
  BY DEF MeasuredIds, Items
<1> HIDE DEF E, f
<1> QED BY <1>2, <1>3, FiniteImage

(* The box that was measured for a node, on the page.                      *)
LEMMA MeasuredBoxIsClose ==
    ASSUME GateInvariant, verdict = "match", NEW c \in MeasuredIds
    PROVE  /\ MeasuredBox(c).x \in Int /\ MeasuredBox(c).width \in Int
           /\ Look(c).box.x \in Int /\ Look(c).box.width \in Int
           /\ Abs(MeasuredBox(c).x - Look(c).box.x) <= setting.tolerance
           /\ Abs(MeasuredBox(c).width - Look(c).box.width) <= setting.tolerance
<1> DEFINE e == CHOOSE d \in Items(file.entries) : d.id = c
<1>1. e \in Items(file.entries) /\ e.id = c
  BY DEF MeasuredIds
<1>2. MeasuredBox(c) = [e.at EXCEPT !.x = @ + RootBox.x, !.y = @ + RootBox.y]
  BY DEF MeasuredBox
<1> HIDE DEF e
<1>3. IsSlice(slice) /\ IsFile(file) /\ Comparable /\ stage = "done"
  BY DEF GateInvariant, InputOK, Decoded, Concluded
<1>4. e.id \in slice.nodes /\ HasBox(e.id)
  BY <1>1, MatchNotesEverything
<1>5. e.at \in Boxes
  BY <1>1, <1>3 DEF IsFile, Items
<1>6. RootBox \in Boxes /\ Look(c).box \in Boxes
  BY <1>1, <1>3, <1>4 DEF IsSlice, Look, HasBox, Looks, RootBox, Comparable
<1>7. /\ e.at.x \in Int /\ e.at.width \in Int /\ RootBox.x \in Int
      /\ Look(c).box.x \in Int /\ Look(c).box.width \in Int
  BY <1>5, <1>6 DEF Boxes, Slots
<1>8. MeasuredBox(c).x = e.at.x + RootBox.x /\ MeasuredBox(c).width = e.at.width
  BY <1>2, <1>5 DEF Boxes, Slots
<1>9. Delta(e, "x") = e.at.x - (Look(c).box.x - RootBox.x) /\ Delta(e, "width") = e.at.width - Look(c).box.width
  BY <1>1, <1>7 DEF Delta, Expected
<1>10. Abs(Delta(e, "x")) <= setting.tolerance /\ Abs(Delta(e, "width")) <= setting.tolerance
  BY <1>1, StrictInAMatch
<1>11. /\ MeasuredBox(c).x - Look(c).box.x = Delta(e, "x")
       /\ MeasuredBox(c).width - Look(c).box.width = Delta(e, "width")
  BY <1>7, <1>8, <1>9
<1> QED BY <1>7, <1>8, <1>10, <1>11

(* A frame that is derived from its children in a match was found to be    *)
(* its children and padding, all of them measured: ids of exclusions are   *)
(* unique, so the claim that was confirmed is the claim in question.       *)
LEMMA DerivedFramesAreDerivable ==
    ASSUME GateInvariant, verdict = "match", NEW n \in DerivedFrames
    PROVE  n \in slice.nodes /\ Derivable(n)
<1>1. PICK x \in Items(file.exclusions) : x.id = n /\ x.kind = "derived-from-children"
  BY DEF DerivedFrames
<1>2. PICK y \in Items(file.exclusions) : y.id = n /\ Upheld(y)
  BY DEF GateInvariant, Confirmed, DerivedFrames
<1>3. Decodable
  BY DEF GateInvariant, Decoded, Concluded
<1>4. x = y
  <2>1. PICK j \in DOMAIN file.exclusions, k \in DOMAIN file.exclusions :
          x = file.exclusions[j] /\ y = file.exclusions[k]
    BY DEF Items
  <2>2. j = k
    BY <1>1, <1>2, <1>3, <2>1 DEF Decodable
  <2> QED BY <2>1, <2>2
<1> QED BY <1>1, <1>2, <1>4 DEF Upheld

(* Distances add up.                                                       *)
LEMMA DistancesAddUp ==
    ASSUME NEW a \in Int, NEW b \in Int, NEW c \in Int, NEW d \in Int, NEW k \in Int,
           Abs(a - b) <= d, Abs(b - c) <= k
    PROVE  Abs(a - c) <= d + k
  BY DEF Abs

LEMMA SumsStayClose ==
    ASSUME NEW a \in Int, NEW b \in Int, NEW c \in Int, NEW d \in Int, NEW k \in Int, NEW l \in Int,
           Abs(a - b) <= k, Abs(c - d) <= l
    PROVE  Abs((a + c) - (b + d)) <= k + l /\ Abs((a - c) - (b - d)) <= k + l
  BY DEF Abs

(* "Once the children are individually verified within the browser         *)
(* tolerance and the design box is exactly their union plus padding, the   *)
(* measured union follows" (geometry.ts): its start within the tolerance,  *)
(* its width within three, for any number of children.                     *)
THEOREM DerivedFramesStayClose == GateSpec => []DerivedFrameStaysClose
<1>1. GateInvariant => DerivedFrameStaysClose
  <2> SUFFICES ASSUME GateInvariant, verdict = "match", NEW n \in DerivedFrames
               PROVE  UnionWithin(n, "x", setting.tolerance) /\ UnionWithin(n, "width", 3 * setting.tolerance)
    BY DEF DerivedFrameStaysClose
  <2> DEFINE C == RenderedChildren(n)
             tol == setting.tolerance
             pad == Look(n).padding
             mx == [c \in C |-> MeasuredBox(c).x]
             dx == [c \in C |-> Look(c).box.x]
             mr == [c \in C |-> MeasuredBox(c).x + MeasuredBox(c).width]
             dr == [c \in C |-> Look(c).box.x + Look(c).box.width]
  <2>1. n \in slice.nodes /\ Derivable(n)
    BY DerivedFramesAreDerivable
  <2>2. /\ IsSlice(slice) /\ IsFile(file) /\ tol \in Int
    BY DEF GateInvariant, InputOK, IsSetting
  <2>3. C # {} /\ C \subseteq MeasuredIds /\ IsFiniteSet(C)
    <3>1. C # {} /\ C \subseteq MeasuredIds
      BY <2>1 DEF Derivable
    <3> HIDE DEF C
    <3> QED BY <2>2, <3>1, MeasuredIsFinite, FS_Subset
  <2>4. pad.left \in Int /\ pad.right \in Int /\ Look(n).box.x \in Int /\ Look(n).box.width \in Int
    <3>1. Look(n) \in Looks /\ Look(n).box # None
      BY <2>1, <2>2 DEF IsSlice, Look, Derivable, HasBox
    <3>2. Look(n).padding \in [{"top", "right", "bottom", "left"} -> Int] /\ Look(n).box \in Boxes
      BY <3>1 DEF Looks
    <3> QED BY <3>2 DEF Boxes, Slots
  <2>5. \A c \in C :
          /\ MeasuredBox(c).x \in Int /\ MeasuredBox(c).width \in Int
          /\ Look(c).box.x \in Int /\ Look(c).box.width \in Int
          /\ Abs(MeasuredBox(c).x - Look(c).box.x) <= tol
          /\ Abs(MeasuredBox(c).width - Look(c).box.width) <= tol
    BY <2>3, MeasuredBoxIsClose
  <2>6. \A s \in Slots : Near(Derived(n, DesignBox)[s], Look(n).box[s])
    BY <2>1 DEF Derivable
  <2>7. /\ Derived(n, MeasuredBox)["x"] = Min({mx[c] : c \in C}) - pad.left
        /\ Derived(n, MeasuredBox)["width"] = Max({mr[c] : c \in C}) - Min({mx[c] : c \in C}) + pad.left + pad.right
    <3>1. {mx[c] : c \in C} = {MeasuredBox(c).x : c \in C}
      OBVIOUS
    <3>2. {mr[c] : c \in C} = {MeasuredBox(c).x + MeasuredBox(c).width : c \in C}
      OBVIOUS
    <3> HIDE DEF mx, mr
    <3> QED BY <3>1, <3>2 DEF Derived
  <2>8. /\ Derived(n, DesignBox)["x"] = Min({dx[c] : c \in C}) - pad.left
        /\ Derived(n, DesignBox)["width"] = Max({dr[c] : c \in C}) - Min({dx[c] : c \in C}) + pad.left + pad.right
    <3>1. {dx[c] : c \in C} = {DesignBox(c).x : c \in C}
      BY DEF DesignBox
    <3>2. {dr[c] : c \in C} = {DesignBox(c).x + DesignBox(c).width : c \in C}
      BY DEF DesignBox
    <3> HIDE DEF dx, dr
    <3> QED BY <3>1, <3>2 DEF Derived
  <2>9. mx \in [C -> Int] /\ dx \in [C -> Int] /\ mr \in [C -> Int] /\ dr \in [C -> Int]
    BY <2>5
  <2>10. \A c \in C : Abs(mx[c] - dx[c]) <= tol /\ Abs(mr[c] - dr[c]) <= tol + tol
    <3> SUFFICES ASSUME NEW c \in C PROVE Abs(mx[c] - dx[c]) <= tol /\ Abs(mr[c] - dr[c]) <= tol + tol
      OBVIOUS
    <3>1. Abs(mx[c] - dx[c]) <= tol
      BY <2>5
    <3>2. Abs((MeasuredBox(c).x + MeasuredBox(c).width) - (Look(c).box.x + Look(c).box.width)) <= tol + tol
      <4> HIDE DEF tol, C
      <4> QED BY <2>2, <2>5, SumsStayClose
    <3> QED BY <3>1, <3>2
  <2> HIDE DEF mx, dx, mr, dr, C, tol
  <2> DEFINE ml == Min({mx[c] : c \in C})
             dl == Min({dx[c] : c \in C})
             me == Max({mr[c] : c \in C})
             de == Max({dr[c] : c \in C})
  <2>11. ml \in Int /\ dl \in Int /\ Abs(ml - dl) <= tol
    <3>1. \A c \in C : Abs(mx[c] - dx[c]) <= tol
      BY <2>10
    <3>2. tol \in Int /\ IsFiniteSet(C) /\ C # {} /\ mx \in [C -> Int] /\ dx \in [C -> Int]
      BY <2>2, <2>3, <2>9
    <3> QED BY <3>1, <3>2, ExtremesStayClose, ZenonT(60)
  <2>12. me \in Int /\ de \in Int /\ Abs(me - de) <= tol + tol
    <3>1. \A c \in C : Abs(mr[c] - dr[c]) <= tol + tol
      BY <2>10
    <3>2. tol + tol \in Int /\ IsFiniteSet(C) /\ C # {} /\ mr \in [C -> Int] /\ dr \in [C -> Int]
      BY <2>2, <2>3, <2>9
    <3> QED BY <3>1, <3>2, ExtremesStayClose, ZenonT(60)
  <2>13. /\ Abs((dl - pad.left) - Look(n).box.x) <= 2
         /\ Abs((de - dl + pad.left + pad.right) - Look(n).box.width) <= 2
    BY <2>6, <2>8 DEF Slots, Near, StructuralTolerance
  <2> HIDE DEF ml, dl, me, de
  <2> DEFINE pl == pad.left
             pr == pad.right
             bx == Look(n).box.x
             bw == Look(n).box.width
  <2>14. pl \in Int /\ pr \in Int /\ bx \in Int /\ bw \in Int
    BY <2>4
  <2>15. Abs((dl - pl) - bx) <= 2 /\ Abs((de - dl + pl + pr) - bw) <= 2
    BY <2>13
  <2> HIDE DEF pl, pr, bx, bw
  <2>16. Abs((ml - pl) - bx) <= tol + 2
    BY <2>2, <2>11, <2>14, <2>15 DEF Abs
  <2>17. Abs((me - ml + pl + pr) - bw) <= 3 * tol + 2
    <3>1. Abs((me - ml) - (de - dl)) <= (tol + tol) + tol
      <4>1. tol + tol \in Int
        BY <2>2
      <4> QED BY <2>2, <2>11, <2>12, <4>1, SumsStayClose
    <3>2. me - ml \in Int /\ de - dl \in Int
      BY <2>11, <2>12
    <3> DEFINE u == me - ml
               v == de - dl
    <3> HIDE DEF u, v
    <3>3. u \in Int /\ v \in Int /\ Abs(u - v) <= 3 * tol /\ Abs((v + pl + pr) - bw) <= 2
      BY <2>2, <2>15, <3>1, <3>2 DEF u, v
    <3>4. Abs((u + pl + pr) - bw) <= 3 * tol + 2
      BY <2>2, <2>14, <3>3 DEF Abs
    <3> QED BY <3>4 DEF u
  <2>18. RenderedChildren(n) \subseteq MeasuredIds
    BY <2>3 DEF C
  <2>19. UnionWithin(n, "x", tol)
    BY <2>7, <2>16, <2>18 DEF UnionWithin, StructuralTolerance, pl, bx, ml
  <2>20. UnionWithin(n, "width", 3 * tol)
    BY <2>7, <2>17, <2>18 DEF UnionWithin, StructuralTolerance, pl, pr, bw, ml, me
  <2> QED BY <2>19, <2>20 DEF tol
<1> QED BY Invariance, <1>1, PTL

-----------------------------------------------------------------------------
(* Above and AssetLike are defined by recursion.  Each has a solution that *)
(* can be given: what is in every set that is closed upwards, and what is  *)
(* in some set of which every member is an asset if its children are.      *)
LEMMA AboveSolves ==
    ASSUME IsSlice(slice), NEW n \in slice.nodes
    PROVE  Above[n] = IF Parent(n) = None THEN {} ELSE {Parent(n)} \cup Above[Parent(n)]
<1> DEFINE N == slice.nodes
           Closed(T) == \A m \in T : Parent(m) # None => Parent(m) \in T
           From(m) == {T \in SUBSET N : Closed(T) /\ (Parent(m) # None => Parent(m) \in T)}
           reach(m) == {a \in N : \A T \in From(m) : a \in T}
           up(f) == [m \in N |-> IF Parent(m) = None THEN {} ELSE {Parent(m)} \cup f[Parent(m)]]
           whole == [m \in N |-> reach(m)]
<1>1. \A m \in N : Parent(m) # None => Parent(m) \in N
  BY DEF IsSlice, Parent
<1>2. ASSUME NEW m \in N, Parent(m) = None PROVE reach(m) = {}
  <2>1. {} \in From(m)
    BY <1>2
  <2> QED BY <2>1
<1>3. ASSUME NEW m \in N, NEW b \in reach(m), Parent(b) # None PROVE Parent(b) \in reach(m)
  <2>1. \A T \in From(m) : Parent(b) \in T
    BY <1>3
  <2>2. Parent(b) \in N
    BY <1>1, <1>3
  <2> HIDE DEF From
  <2> QED BY <2>1, <2>2
<1>4. ASSUME NEW m \in N, Parent(m) # None PROVE Parent(m) \in reach(m)
  BY <1>1, <1>4
<1>5. ASSUME NEW m \in N, Parent(m) # None PROVE reach(m) = {Parent(m)} \cup reach(Parent(m))
  <2> DEFINE p == Parent(m)
             U == {p} \cup reach(p)
  <2>1. p \in N
    BY <1>1, <1>5
  <2>2. U \in From(m)
    <3>1. Closed(U)
      <4> SUFFICES ASSUME NEW b \in U, Parent(b) # None PROVE Parent(b) \in U
        OBVIOUS
      <4>1. CASE b = p
        BY <1>4, <2>1, <4>1
      <4>2. CASE b \in reach(p)
        BY <1>3, <2>1, <4>2
      <4> HIDE DEF reach
      <4> QED BY <4>1, <4>2
    <3>2. U \in SUBSET N /\ p \in U
      BY <2>1
    <3> HIDE DEF U, reach
    <3> QED BY <3>1, <3>2
  <2>3. reach(m) \subseteq U
    BY <2>2
  <2>4. From(m) \subseteq From(p)
    BY <1>5, <2>1
  <2>5. reach(p) \subseteq reach(m)
    <3> HIDE DEF From
    <3> QED BY <2>4
  <2>6. p \in reach(m)
    BY <1>4, <1>5
  <2> HIDE DEF reach
  <2> QED BY <2>3, <2>5, <2>6
<1>6. whole = up(whole)
  <2>1. \A m \in N : whole[m] = reach(m)
    OBVIOUS
  <2> HIDE DEF reach
  <2>2. \A m \in N : whole[m] = IF Parent(m) = None THEN {} ELSE {Parent(m)} \cup whole[Parent(m)]
    BY <1>1, <1>2, <1>5, <2>1
  <2> QED BY <2>2
<1>7. Above = CHOOSE f : f = up(f)
  BY DEF Above
<1> HIDE DEF whole, reach
<1>8. Above = up(Above)
  <2> HIDE DEF up
  <2> QED BY <1>6, <1>7
<1> QED BY <1>8

LEMMA AssetLikeSolves ==
    ASSUME IsSlice(slice), NEW n \in slice.nodes
    PROVE  AssetLike[n] = ( /\ ~Look(n).text
                            /\ n \notin slice.cutShort
                            /\ IF RenderedChildren(n) = {} THEN Look(n).drawn
                               ELSE \A c \in RenderedChildren(n) : AssetLike[c] )
<1> DEFINE N == slice.nodes
           Plain(m) == ~Look(m).text /\ m \notin slice.cutShort
           Good(m, T) == /\ Plain(m)
                         /\ IF RenderedChildren(m) = {} THEN Look(m).drawn
                            ELSE \A c \in RenderedChildren(m) : c \in T
           like(m) == \E T \in SUBSET N : m \in T /\ \A k \in T : Good(k, T)
           down(f) == [m \in N |-> /\ ~Look(m).text
                                   /\ m \notin slice.cutShort
                                   /\ IF RenderedChildren(m) = {} THEN Look(m).drawn
                                      ELSE \A c \in RenderedChildren(m) : f[c]]
           whole == [m \in N |-> like(m)]
           L == {m \in N : like(m)}
<1>1. \A m : RenderedChildren(m) \subseteq N
  BY DEF IsSlice, RenderedChildren
<1>2. \A m \in N : Look(m).drawn \in BOOLEAN /\ Look(m).text \in BOOLEAN
  BY DEF IsSlice, Look, Looks
<1>3. ASSUME NEW m \in L PROVE Good(m, L)
  <2>1. PICK T \in SUBSET N : m \in T /\ \A k \in T : Good(k, T)
    OBVIOUS
  <2>2. T \subseteq L
    BY <2>1
  <2> HIDE DEF L, like
  <2> QED BY <2>1, <2>2
<1>4. ASSUME NEW m \in N, Good(m, L) PROVE like(m)
  <2> DEFINE T == L \cup {m}
  <2>1. T \in SUBSET N /\ m \in T
    OBVIOUS
  <2>2. \A k \in T : Good(k, L)
    BY <1>3, <1>4
  <2>3. L \subseteq T
    OBVIOUS
  <2>4. \A k \in T : Good(k, T)
    <3> HIDE DEF T, L
    <3> QED BY <2>2, <2>3
  <2> HIDE DEF T, L
  <2> QED BY <2>1, <2>4
<1>5. \A m \in N : like(m) \in BOOLEAN /\ (like(m) <=> Good(m, L)) /\ (m \in L <=> like(m))
  <2>1. \A m \in N : m \in L <=> like(m)
    OBVIOUS
  <2>2. \A m \in N : like(m) \in BOOLEAN
    OBVIOUS
  <2> HIDE DEF L, like, Good
  <2> QED BY <1>3, <1>4, <2>1, <2>2
<1>6. whole = down(whole)
  <2>1. \A m \in N : whole[m] = like(m)
    OBVIOUS
  <2> HIDE DEF like, L
  <2>2. ASSUME NEW m \in N
        PROVE  like(m) = ( /\ ~Look(m).text
                           /\ m \notin slice.cutShort
                           /\ IF RenderedChildren(m) = {} THEN Look(m).drawn
                              ELSE \A c \in RenderedChildren(m) : whole[c] )
    <3>1. \A c \in RenderedChildren(m) : c \in N /\ whole[c] = like(c) /\ (c \in L <=> like(c))
      BY <1>1, <1>5, <2>1
    <3>2. like(m) \in BOOLEAN /\ (like(m) <=> Good(m, L))
      BY <1>5
    <3>3. Look(m).drawn \in BOOLEAN /\ Look(m).text \in BOOLEAN
      BY <1>2
    <3> HIDE DEF whole
    <3>4. CASE RenderedChildren(m) = {}
      BY <3>2, <3>3, <3>4
    <3>5. CASE RenderedChildren(m) # {}
      <4>1. (\A c \in RenderedChildren(m) : c \in L) <=> (\A c \in RenderedChildren(m) : whole[c])
        BY <3>1
      <4> QED BY <3>2, <3>3, <3>5, <4>1
    <3> QED BY <3>4, <3>5
  <2>3. DOMAIN whole = N /\ whole = [m \in N |-> whole[m]]
    OBVIOUS
  <2> HIDE DEF whole
  <2>4. \A m \in N : whole[m] = down(whole)[m]
    BY <2>1, <2>2
  <2>5. down(whole) = [m \in N |-> down(whole)[m]]
    OBVIOUS
  <2> HIDE DEF down
  <2> QED BY <2>3, <2>4, <2>5
<1>7. AssetLike = CHOOSE f : f = down(f)
  BY DEF AssetLike
<1> HIDE DEF whole, like, L
<1>8. AssetLike = down(AssetLike)
  <2> HIDE DEF down
  <2> QED BY <1>6, <1>7
<1> QED BY <1>8

(* No node above a rendered text is an asset: what holds a text is no      *)
(* asset, nor is what holds that, on all the way up.                       *)
LEMMA NoAssetAboveText ==
    ASSUME IsSlice(slice), NEW n \in slice.rendered, Look(n).text
    PROVE  \A a \in Above[n] : a \in slice.nodes /\ ~AssetLike[a]
<1> DEFINE W == {m \in slice.rendered : ~AssetLike[m]}
           S == {m \in W : ~(Above[m] \subseteq W)}
<1>1. slice.rendered \subseteq slice.nodes
  BY DEF IsSlice
<1>2. n \in W
  <2>1. n \in slice.nodes
    BY <1>1
  <2>2. ~AssetLike[n]
    BY <2>1, AssetLikeSolves
  <2> QED BY <2>2
<1>3. ASSUME NEW m \in W, Parent(m) # None PROVE Parent(m) \in W
  <2>1. Parent(m) \in slice.rendered /\ Parent(m) \in slice.nodes
    BY <1>1, <1>3 DEF IsSlice, Parent
  <2>2. m \in RenderedChildren(Parent(m)) /\ ~AssetLike[m]
    BY DEF RenderedChildren
  <2>3. ~AssetLike[Parent(m)]
    BY <2>1, <2>2, AssetLikeSolves
  <2> QED BY <2>1, <2>3
<1>4. S = {}
  <2> SUFFICES ASSUME S # {} PROVE FALSE
    OBVIOUS
  <2>1. S \in (SUBSET slice.nodes) \ {{}}
    BY <1>1
  <2>2. PICK m \in S : Parent(m) \notin S
    BY <2>1 DEF IsSlice, Parent
  <2>3. m \in slice.nodes /\ m \in W /\ ~(Above[m] \subseteq W)
    BY <2>1, <2>2
  <2>4. Above[m] = IF Parent(m) = None THEN {} ELSE {Parent(m)} \cup Above[Parent(m)]
    BY <2>3, AboveSolves
  <2>5. Parent(m) # None
    BY <2>3, <2>4
  <2>6. Parent(m) \in W
    BY <1>3, <2>3, <2>5
  <2>7. Above[Parent(m)] \subseteq W
    BY <2>2, <2>6
  <2> HIDE DEF W, S
  <2> QED BY <2>3, <2>4, <2>5, <2>6, <2>7
<1>5. Above[n] \subseteq W
  BY <1>2, <1>4
<1> QED BY <1>1, <1>5

(* "Text is never an asset", nor derived from anything: a text that was    *)
(* not measured in a match with coverage has the box of a measured parent  *)
(* or child, or lies in a measured native control, whatever is claimed.    *)
THEOREM GateSeesText == GateSpec => []TextIsSeen
<1>1. GateInvariant => TextIsSeen
  <2> DEFINE Control(n) == \E a \in Above[n] \cap MeasuredIds : InsideControl(n, a)
             Wrapped(n) == \E t \in MeasuredIds :
                             /\ t \in slice.nodes /\ Look(t).box = Look(n).box
                             /\ Parent(n) = t \/ Parent(t) = n
  <2> SUFFICES ASSUME GateInvariant, verdict = "match", setting.requireCoverage,
                      NEW n \in Boxed, Look(n).text, n \notin MeasuredIds
               PROVE  Control(n) \/ Wrapped(n)
    BY DEF TextIsSeen
  <2>1. UnmeasuredRendered = {} /\ IsSlice(slice)
    BY DEF GateInvariant, InputOK, Concluded, Fails
  <2>2. n \in excused /\ n \in slice.rendered /\ n \in slice.nodes
    BY <2>1 DEF UnmeasuredRendered, Boxed, IsSlice
  <2>3. PICK x \in Items(file.exclusions) : x.id = n /\ Upheld(x)
    BY <2>2 DEF GateInvariant, Confirmed
  <2>4. ~InsideAsset(n)
    BY <2>1, <2>2, NoAssetAboveText DEF InsideAsset, IsNearestMeasured
  <2>5. ~Derivable(n)
    BY <2>1, <2>2 DEF IsSlice, Look, Derivable
  <2>6. CASE InsideControl(n, x.target)
    <3>1. x.target \in Above[n] \cap MeasuredIds
      BY <2>6 DEF InsideControl, MeasuredIds
    <3>2. Control(n)
      BY <2>6, <3>1
    <3> QED BY <3>2
  <2>7. CASE Collapsed(n, x.target)
    <3>1. Wrapped(n)
      BY <2>7 DEF Collapsed
    <3> QED BY <3>1
  <2> HIDE DEF Control, Wrapped
  <2> QED BY <2>3, <2>4, <2>5, <2>6, <2>7 DEF Upheld
<1> QED BY Invariance, <1>1, PTL

-----------------------------------------------------------------------------
(***************************************************************************)
(* The report.  Nothing in it comes from anywhere but an entry that was    *)
(* looked at (Sourced), each of those is counted once (Counted), and every *)
(* budgeted measurement is listed (Listed).                                *)
(***************************************************************************)
Seen == {file.entries[k] : k \in {j \in DOMAIN file.entries : LookedAt(j)}}

Looked ==
    IF stage = "compare" THEN at - 1
    ELSE IF stage \in {"exclude", "done"} THEN Len(file.entries) ELSE 0

Sited(e) == e.id \in slice.nodes /\ HasBox(e.id)

InList(e, s) == [node |-> e.id, slot |-> s, class |-> Class(e.id, s, Delta(e, s))]

Sourced ==
    /\ \A i \in unknown : \E e \in Seen : e.id = i /\ i \notin slice.nodes
    /\ \A i \in boxless : \E e \in Seen : e.id = i /\ i \in slice.nodes /\ ~HasBox(i)
    /\ \A h \in holders : \E e \in Seen : h = <<e.element, e.id>>
    /\ \A i \in unlabelled : \E e \in Seen : e.id = i /\ e.element = None
    /\ \A m \in mismatches : \E e \in Seen, s \in Slots :
         Sited(e) /\ m = <<e.id, s>> /\ Misses(e.id, s, Delta(e, s))
    /\ \A i \in flips : \E e \in Seen : Sited(e) /\ e.id = i /\ Flipped(e)
    /\ \A d \in deltas : \E e \in Seen, s \in Slots : d = InList(e, s)
    /\ \A i \in invalid : \E x \in Items(file.exclusions) : x.id = i

Faulted == {m[1] : m \in mismatches} \cup flips

Counted ==
    /\ Looked <= Len(file.entries)
    /\ IsFiniteSet(unknown) /\ IsFiniteSet(boxless) /\ IsFiniteSet(Faulted)
    /\ Looked = Cardinality(unknown) + Cardinality(boxless) + compared
    /\ compared = matched + Cardinality(Faulted)

Listed ==
    \A e \in Seen, s \in Slots : Sited(e) /\ Budgeted(e.id, s) => InList(e, s) \in deltas

Mismatched == verdict = "mismatch" => stage = "done" /\ Fails

ReportInv == Sourced /\ Counted /\ Listed /\ Mismatched

LEMMA ReportStart ==
    ASSUME GateInit, GateInvariant
    PROVE  ReportInv
<1> USE DEF GateInit, Start, Blank
<1>1. Sourced
  BY DEF Sourced
<1>2. Counted
  <2>1. IsFiniteSet({}) /\ Cardinality({}) = 0
    BY FS_EmptySet
  <2>2. Faulted = {} /\ Looked = 0
    BY DEF Faulted, Looked
  <2>3. Len(file.entries) \in Nat
    BY DEF GateInvariant, InputOK, IsFile
  <2> QED BY <2>1, <2>2, <2>3 DEF Counted
<1>3. Listed
  BY DEF Listed, Seen, LookedAt
<1>4. Mismatched
  BY DEF Mismatched
<1> QED BY <1>1, <1>2, <1>3, <1>4 DEF ReportInv

(* What the report says of an entry depends on the input only.             *)
LEMMA SameReport ==
    ASSUME UNCHANGED input
    PROVE  /\ \A e : Sited(e)' = Sited(e) /\ Flipped(e)' = Flipped(e)
           /\ \A n, s : Budgeted(n, s)' = Budgeted(n, s)
           /\ \A n, s, d : Misses(n, s, d)' = Misses(n, s, d)
           /\ \A e, s : Delta(e, s)' = Delta(e, s) /\ InList(e, s)' = InList(e, s)
<1>1. slice' = slice /\ file' = file /\ setting' = setting
  BY DEF input
<1>2. \A n : Look(n)' = Look(n)
  BY <1>1 DEF Look
<1>3. \A n : HasBox(n)' = HasBox(n)
  BY <1>2 DEF HasBox
<1>4. \A e, s : Delta(e, s)' = Delta(e, s)
  BY <1>1, <1>2 DEF Delta, Expected, RootBox, Look
<1>5. \A n, s : Budgeted(n, s)' = Budgeted(n, s)
  BY <1>2 DEF Budgeted, BudgetEligible
<1>6. \A n, d : TextBound(n)' = TextBound(n) /\ LineDelta(n, d)' = LineDelta(n, d)
  BY <1>1, <1>2 DEF TextBound, EstimatedLines, LineDelta
<1>7. \A d : WithinStrict(d)' = WithinStrict(d)
  BY <1>1 DEF WithinStrict
<1>8. \A n, s, d : IsWrapFlip(n, s, d)' = IsWrapFlip(n, s, d)
  BY <1>2, <1>5, <1>6, <1>7 DEF IsWrapFlip
<1>9. \A n, s, d : WithinBudget(n, s, d)' = WithinBudget(n, s, d)
  BY <1>5, <1>6, <1>7, <1>8 DEF WithinBudget
<1>10. \A n, s, d : Misses(n, s, d)' = Misses(n, s, d)
  BY <1>7, <1>8, <1>9 DEF Misses
<1>11. \A n, s, d : Class(n, s, d)' = Class(n, s, d)
  BY <1>7, <1>8, <1>9 DEF Class
<1>12. \A e, s : InList(e, s)' = InList(e, s)
  BY <1>4, <1>11 DEF InList
<1>13. \A e : Sited(e)' = Sited(e)
  BY <1>1, <1>3 DEF Sited
<1>14. \A e : Flipped(e)' = Flipped(e)
  BY <1>4, <1>8 DEF Flipped
<1> QED BY <1>4, <1>5, <1>10, <1>12, <1>13, <1>14

(* A step that looks at an entry looks at one with an id that no entry     *)
(* before it has.                                                          *)
LEMMA SeenGrows ==
    ASSUME GateInvariant, SkipUnknown \/ SkipBoxless \/ Compare
    PROVE  /\ UNCHANGED input /\ UNCHANGED claimsReport /\ verdict' = verdict /\ stage' = stage
           /\ Seen' = Seen \cup {Entry}
           /\ \A e \in Seen : e.id # Entry.id
           /\ Looked' = Looked + 1 /\ Looked \in Nat /\ Looked' <= Len(file.entries)
<1>1. /\ stage = "compare" /\ stage' = stage /\ at \in DOMAIN file.entries /\ at' = at + 1
      /\ input' = input /\ claimsReport' = claimsReport /\ verdict' = verdict
  BY DEF SkipUnknown, SkipBoxless, Compare, Advance
<1>2. file' = file
  BY <1>1 DEF input
<1>3. file.entries \in Seq(Items(file.entries)) /\ Decodable /\ at \in Nat
  BY <1>1 DEF GateInvariant, InputOK, IsFile, Decoded, GateTypeOK
<1>4. DOMAIN file.entries = 1..Len(file.entries) /\ Len(file.entries) \in Nat
  BY <1>3
<1>5. \A k \in DOMAIN file.entries :
        /\ LookedAt(k) <=> k < at
        /\ LookedAt(k)' <=> k < at \/ k = at
  <2>1. \A k \in DOMAIN file.entries : k \in Nat /\ (k < at + 1 <=> k < at \/ k = at)
    BY <1>3, <1>4
  <2> QED BY <1>1, <2>1 DEF LookedAt
<1>6. Seen' = Seen \cup {Entry}
  <2> DEFINE J == {j \in DOMAIN file.entries : LookedAt(j)}
             K == {j \in DOMAIN file.entries : LookedAt(j)'}
  <2>1. K = J \cup {at}
    <3>1. \A k \in DOMAIN file.entries : (k \in K <=> k \in J \/ k = at)
      <4>1. \A k \in DOMAIN file.entries : LookedAt(k)' <=> LookedAt(k) \/ k = at
        BY <1>5
      <4> QED BY <4>1
    <3>2. J \subseteq DOMAIN file.entries /\ K \subseteq DOMAIN file.entries /\ at \in DOMAIN file.entries
      BY <1>1
    <3> HIDE DEF J, K
    <3> QED BY <3>1, <3>2
  <2>2. Seen = {file.entries[k] : k \in J} /\ Seen' = {file.entries[k] : k \in K}
    BY <1>2 DEF Seen
  <2> HIDE DEF J, K
  <2> QED BY <2>1, <2>2 DEF Entry
<1>7. ASSUME NEW e \in Seen PROVE e.id # Entry.id
  <2>1. PICK k \in DOMAIN file.entries : LookedAt(k) /\ e = file.entries[k]
    BY DEF Seen
  <2>2. k # at
    BY <1>3, <1>4, <1>5, <2>1
  <2> QED BY <1>1, <1>3, <2>1, <2>2 DEF Decodable, Entry
<1>8. Looked' = Looked + 1 /\ Looked \in Nat /\ Looked' <= Len(file.entries)
  <2>1. Looked = at - 1 /\ Looked' = at' - 1 /\ at' = at + 1
    <3>1. stage = "compare" /\ stage' = "compare"
      BY <1>1
    <3>2. Looked = at - 1
      BY <3>1 DEF Looked
    <3>3. Looked' = at' - 1
      BY <3>1 DEF Looked
    <3> QED BY <1>1, <3>2, <3>3
  <2>2. at >= 1 /\ at <= Len(file.entries)
    BY <1>1, <1>4
  <2> QED BY <1>3, <1>4, <2>1, <2>2
<1> QED BY <1>1, <1>6, <1>7, <1>8

(* Of a new id there was nothing in the lists before.                      *)
LEMMA NewIds ==
    ASSUME Sourced, NEW i, \A e \in Seen : e.id # i
    PROVE  i \notin unknown /\ i \notin boxless /\ i \notin Faulted
<1>1. i \notin unknown /\ i \notin boxless /\ i \notin flips
  BY DEF Sourced
<1>2. ASSUME NEW m \in mismatches, m[1] = i PROVE FALSE
  BY <1>2 DEF Sourced
<1> QED BY <1>1, <1>2 DEF Faulted

(* One more in a finite set.                                               *)
LEMMA OneMore ==
    ASSUME NEW S, IsFiniteSet(S), NEW x, x \notin S
    PROVE  IsFiniteSet(S \cup {x}) /\ Cardinality(S \cup {x}) = Cardinality(S) + 1 /\ Cardinality(S) \in Nat
  BY FS_AddElement, FS_CardinalityType

LEMMA SourcedEntryStep ==
    ASSUME GateInvariant, Sourced, SkipUnknown \/ SkipBoxless \/ Compare
    PROVE  Sourced'
<1>1. /\ UNCHANGED input /\ Seen' = Seen \cup {Entry} /\ UNCHANGED claimsReport
  BY SeenGrows
<1>2. slice' = slice /\ file' = file /\ invalid' = invalid
  BY <1>1 DEF input, claimsReport
<1>3. /\ \A e : Sited(e)' = Sited(e) /\ Flipped(e)' = Flipped(e)
      /\ \A n, s, d : Misses(n, s, d)' = Misses(n, s, d)
      /\ \A e, s : Delta(e, s)' = Delta(e, s) /\ InList(e, s)' = InList(e, s)
  BY <1>1, SameReport
<1>4. \A n : HasBox(n)' = HasBox(n)
  BY <1>1, SameInput
<1>5. Entry \in Seen' /\ Seen \subseteq Seen'
  BY <1>1
<1>6. \A i \in unknown' : \E e \in Seen' : e.id = i /\ i \notin slice.nodes
  <2>1. \A i \in unknown' : i \in unknown \/ (i = Entry.id /\ i \notin slice.nodes)
    BY DEF SkipUnknown, SkipBoxless, Compare
  <2> QED BY <1>5, <2>1 DEF Sourced
<1>7. \A i \in boxless' : \E e \in Seen' : e.id = i /\ i \in slice.nodes /\ ~HasBox(i)
  <2>1. \A i \in boxless' : i \in boxless \/ (i = Entry.id /\ i \in slice.nodes /\ ~HasBox(i))
    BY DEF SkipUnknown, SkipBoxless, Compare
  <2> QED BY <1>5, <2>1 DEF Sourced
<1>8. \A h \in holders' : \E e \in Seen' : h = <<e.element, e.id>>
  <2>1. \A h \in holders' : h \in holders \/ h = <<Entry.element, Entry.id>>
    BY DEF SkipUnknown, SkipBoxless, Compare
  <2> QED BY <1>5, <2>1 DEF Sourced
<1>9. \A i \in unlabelled' : \E e \in Seen' : e.id = i /\ e.element = None
  <2>1. \A i \in unlabelled' : i \in unlabelled \/ (i = Entry.id /\ Entry.element = None)
    BY DEF SkipUnknown, SkipBoxless, Compare
  <2> QED BY <1>5, <2>1 DEF Sourced
<1>10. \A m \in mismatches' : \E e \in Seen', s \in Slots :
          Sited(e) /\ m = <<e.id, s>> /\ Misses(e.id, s, Delta(e, s))
  <2>1. \A m \in mismatches' :
          m \in mismatches \/ \E s \in Slots : Sited(Entry) /\ m = <<Entry.id, s>> /\ Misses(Entry.id, s, Delta(Entry, s))
    BY DEF SkipUnknown, SkipBoxless, Compare, Missed, Sited
  <2> SUFFICES ASSUME NEW m \in mismatches'
               PROVE  \E e \in Seen', s \in Slots : Sited(e) /\ m = <<e.id, s>> /\ Misses(e.id, s, Delta(e, s))
    OBVIOUS
  <2>2. CASE m \in mismatches
    BY <1>5, <2>2 DEF Sourced
  <2>3. CASE m \notin mismatches
    BY <1>5, <2>1, <2>3
  <2> QED BY <2>2, <2>3
<1>11. \A i \in flips' : \E e \in Seen' : Sited(e) /\ e.id = i /\ Flipped(e)
  <2>1. \A i \in flips' : i \in flips \/ (Sited(Entry) /\ i = Entry.id /\ Flipped(Entry))
    BY DEF SkipUnknown, SkipBoxless, Compare, Sited
  <2> QED BY <1>5, <2>1 DEF Sourced
<1>12. \A d \in deltas' : \E e \in Seen', s \in Slots : d = InList(e, s)
  <2>1. \A d \in deltas' : d \in deltas \/ \E s \in Slots : d = InList(Entry, s)
    BY DEF SkipUnknown, SkipBoxless, Compare, InList
  <2> QED BY <1>5, <2>1 DEF Sourced
<1>13. \A i \in invalid' : \E x \in Items(file.exclusions) : x.id = i
  BY <1>2 DEF Sourced
<1> HIDE DEF Items, Seen
<1> DEFINE sn == Seen'
<1>14. sn = Seen'
  OBVIOUS
<1> HIDE DEF sn
<1>15. /\ \A i \in unknown' : \E e \in sn : e.id = i /\ i \notin slice'.nodes
       /\ \A i \in boxless' : \E e \in sn : e.id = i /\ i \in slice'.nodes /\ ~HasBox(i)'
  BY <1>2, <1>4, <1>6, <1>7, <1>14
<1>16. \A m \in mismatches' : \E e \in sn, s \in Slots :
          Sited(e)' /\ m = <<e.id, s>> /\ Misses(e.id, s, Delta(e, s))'
  BY <1>3, <1>10, <1>14
<1>17. /\ \A i \in flips' : \E e \in sn : Sited(e)' /\ e.id = i /\ Flipped(e)'
       /\ \A d \in deltas' : \E e \in sn, s \in Slots : d = InList(e, s)'
  BY <1>3, <1>11, <1>12, <1>14
<1> QED BY <1>2, <1>8, <1>9, <1>13, <1>14, <1>15, <1>16, <1>17 DEF Sourced

LEMMA CountedEntryStep ==
    ASSUME GateInvariant, Sourced, Counted, SkipUnknown \/ SkipBoxless \/ Compare
    PROVE  Counted'
<1>1. /\ UNCHANGED input /\ \A e \in Seen : e.id # Entry.id
      /\ Looked' = Looked + 1 /\ Looked \in Nat /\ Looked' <= Len(file.entries)
  BY SeenGrows
<1>2. Looked' <= Len(file.entries')
  BY <1>1 DEF input
<1>3. Entry.id \notin unknown /\ Entry.id \notin boxless /\ Entry.id \notin Faulted
  BY <1>1, NewIds
<1>4. /\ IsFiniteSet(unknown) /\ IsFiniteSet(boxless) /\ IsFiniteSet(Faulted)
      /\ Looked = Cardinality(unknown) + Cardinality(boxless) + compared
      /\ compared = matched + Cardinality(Faulted)
  BY DEF Counted
<1>5. /\ Cardinality(unknown) \in Nat /\ Cardinality(boxless) \in Nat /\ Cardinality(Faulted) \in Nat
      /\ compared \in Nat /\ matched \in Nat
  BY <1>4, FS_CardinalityType DEF GateInvariant, GateTypeOK
<1>6. CASE SkipUnknown
  <2>1. unknown' = unknown \cup {Entry.id} /\ boxless' = boxless /\ compared' = compared /\ matched' = matched
    BY <1>6 DEF SkipUnknown
  <2>2. Faulted' = Faulted
    BY <1>6 DEF SkipUnknown, Faulted
  <2>3. IsFiniteSet(unknown') /\ Cardinality(unknown') = Cardinality(unknown) + 1
    BY <1>3, <1>4, <2>1, OneMore
  <2> QED BY <1>1, <1>2, <1>4, <1>5, <2>1, <2>2, <2>3 DEF Counted
<1>7. CASE SkipBoxless
  <2>1. boxless' = boxless \cup {Entry.id} /\ unknown' = unknown /\ compared' = compared /\ matched' = matched
    BY <1>7 DEF SkipBoxless
  <2>2. Faulted' = Faulted
    BY <1>7 DEF SkipBoxless, Faulted
  <2>3. IsFiniteSet(boxless') /\ Cardinality(boxless') = Cardinality(boxless) + 1
    BY <1>3, <1>4, <2>1, OneMore
  <2> QED BY <1>1, <1>2, <1>4, <1>5, <2>1, <2>2, <2>3 DEF Counted
<1>8. CASE Compare
  <2> DEFINE fine == Missed(Entry) = {} /\ ~Flipped(Entry)
  <2>1. /\ boxless' = boxless /\ unknown' = unknown /\ compared' = compared + 1
        /\ matched' = IF fine THEN matched + 1 ELSE matched
        /\ mismatches' = mismatches \cup {<<Entry.id, s>> : s \in Missed(Entry)}
        /\ flips' = IF Flipped(Entry) THEN flips \cup {Entry.id} ELSE flips
    BY <1>8 DEF Compare
  <2>5. boxless' = boxless /\ unknown' = unknown /\ compared' = compared + 1
    BY <2>1
  <2>4. Looked' = Cardinality(unknown') + Cardinality(boxless') + compared'
    BY <1>1, <1>4, <1>5, <2>5, SMTT(30)
  <2>2. CASE fine
    <3>1. mismatches' = mismatches /\ flips' = flips
      BY <2>1, <2>2
    <3>2. Faulted' = Faulted
      BY <3>1 DEF Faulted
    <3>3. matched' = matched + 1
      BY <2>1, <2>2
    <3>4. compared' = matched' + Cardinality(Faulted')
      BY <1>4, <1>5, <2>5, <3>2, <3>3
    <3> QED BY <1>2, <1>4, <2>5, <2>4, <3>2, <3>4 DEF Counted
  <2>3. CASE ~fine
    <3>1. Faulted' = Faulted \cup {Entry.id}
      <4> DEFINE id == Entry.id
                 firsts == {m[1] : m \in mismatches}
                 firstsNext == {m[1] : m \in mismatches'}
      <4>1. firsts \subseteq firstsNext /\ firstsNext \subseteq firsts \cup {id}
        BY <2>1
      <4>2. Missed(Entry) # {} => id \in firstsNext
        <5> SUFFICES ASSUME NEW s \in Missed(Entry) PROVE id \in firstsNext
          OBVIOUS
        <5>1. <<id, s>> \in mismatches' /\ <<id, s>>[1] = id
          BY <2>1
        <5> QED BY <5>1
      <4>3. flips \subseteq flips' /\ flips' \subseteq flips \cup {id} /\ (Flipped(Entry) => id \in flips')
        BY <2>1
      <4>4. Faulted = firsts \cup flips /\ Faulted' = firstsNext \cup flips'
        BY DEF Faulted
      <4> HIDE DEF id, firsts, firstsNext
      <4>5. id \in firstsNext \cup flips'
        BY <2>3, <4>2, <4>3
      <4>6. Faulted' = Faulted \cup {id}
        BY <4>1, <4>3, <4>4, <4>5
      <4> QED BY <4>6 DEF id
    <3>2. IsFiniteSet(Faulted') /\ Cardinality(Faulted') = Cardinality(Faulted) + 1
      BY <1>3, <1>4, <3>1, OneMore
    <3>3. matched' = matched
      BY <2>1, <2>3
    <3>4. compared' = matched' + Cardinality(Faulted')
      BY <1>4, <1>5, <2>5, <3>2, <3>3
    <3> QED BY <1>2, <1>4, <2>5, <2>4, <3>2, <3>4 DEF Counted
  <2> QED BY <2>2, <2>3
<1> QED BY <1>6, <1>7, <1>8

LEMMA ListedEntryStep ==
    ASSUME GateInvariant, Listed, SkipUnknown \/ SkipBoxless \/ Compare
    PROVE  Listed'
<1>1. UNCHANGED input /\ Seen' = Seen \cup {Entry}
  BY SeenGrows
<1>2. /\ \A e : Sited(e)' = Sited(e)
      /\ \A n, s : Budgeted(n, s)' = Budgeted(n, s)
      /\ \A e, s : InList(e, s)' = InList(e, s)
  BY <1>1, SameReport
<1>3. ASSUME NEW e \in Seen', NEW s \in Slots, Sited(e), Budgeted(e.id, s) PROVE InList(e, s) \in deltas'
  <2>1. CASE e \in Seen
    <3>1. InList(e, s) \in deltas
      BY <1>3, <2>1 DEF Listed
    <3>2. deltas \subseteq deltas'
      BY DEF SkipUnknown, SkipBoxless, Compare
    <3> QED BY <3>1, <3>2
  <2>2. CASE e = Entry
    <3>1. Compare
      BY <1>3, <2>2 DEF Sited, SkipUnknown, SkipBoxless
    <3>2. s \in {t \in Slots : Budgeted(Entry.id, t)}
      BY <1>3, <2>2
    <3> QED BY <2>2, <3>1, <3>2 DEF Compare, InList
  <2> QED BY <1>1, <2>1, <2>2
<1> DEFINE sn == Seen'
<1>4. \A e \in sn, s \in Slots : Sited(e)' /\ Budgeted(e.id, s)' => InList(e, s)' \in deltas'
  BY <1>2, <1>3
<1>5. sn = Seen'
  OBVIOUS
<1> HIDE DEF sn
<1> QED BY <1>4, <1>5 DEF Listed

(* The other steps see no entry, and reject no claim that is not there.    *)
LEMMA ReportOtherStep ==
    ASSUME GateInvariant, ReportInv,
           RefuseFile \/ Decode \/ FinishEntries \/ Accept \/ Reject \/ Conclude \/ UNCHANGED gateVars
    PROVE  ReportInv'
<1>1. UNCHANGED input /\ UNCHANGED entriesReport
  BY DEF RefuseFile, Decode, FinishEntries, Accept, Reject, Conclude, gateVars, input, entriesReport, claimsReport
<1>2. /\ slice' = slice /\ file' = file /\ setting' = setting
      /\ unknown' = unknown /\ boxless' = boxless /\ holders' = holders /\ unlabelled' = unlabelled
      /\ deltas' = deltas /\ mismatches' = mismatches /\ flips' = flips
      /\ compared' = compared /\ matched' = matched
  BY <1>1 DEF input, entriesReport
<1>3. /\ \A e : Sited(e)' = Sited(e) /\ Flipped(e)' = Flipped(e)
      /\ \A n, s : Budgeted(n, s)' = Budgeted(n, s)
      /\ \A n, s, d : Misses(n, s, d)' = Misses(n, s, d)
      /\ \A e, s : Delta(e, s)' = Delta(e, s) /\ InList(e, s)' = InList(e, s)
  BY <1>1, SameReport
<1>4. \A n : HasBox(n)' = HasBox(n)
  BY <1>1, SameInput
<1>5. /\ at \in Nat \ {0} /\ file.entries \in Seq(Items(file.entries))
      /\ Len(file.entries) \in Nat /\ DOMAIN file.entries = 1..Len(file.entries)
      /\ Looked <= Len(file.entries)
  BY DEF GateInvariant, GateTypeOK, InputOK, IsFile, ReportInv, Counted
<1>6. stage = "decode" => at = 1
  BY DEF GateInvariant, Decoded
<1>7. Looked' = Looked /\ \A k \in DOMAIN file.entries : LookedAt(k)' = LookedAt(k)
  <2>1. CASE RefuseFile
    BY <1>2, <2>1 DEF RefuseFile, Looked, LookedAt
  <2>2. CASE Decode
    <3>1. stage = "decode" /\ stage' = "compare" /\ at' = 1
      BY <1>6, <2>2 DEF Decode
    <3>2. \A k \in DOMAIN file.entries : ~(k < 1)
      BY <1>5
    <3> QED BY <3>1, <3>2 DEF Looked, LookedAt
  <2>3. CASE FinishEntries
    <3>1. stage = "compare" /\ stage' = "exclude" /\ at \notin DOMAIN file.entries
      BY <2>3 DEF FinishEntries
    <3>2. at - 1 = Len(file.entries)
      <4>1. at - 1 <= Len(file.entries)
        BY <1>5, <3>1 DEF Looked
      <4> QED BY <1>5, <3>1, <4>1
    <3>3. \A k \in DOMAIN file.entries : k < at
      BY <1>5, <3>2
    <3>4. Looked = at - 1 /\ Looked' = Len(file.entries)
      BY <1>2, <3>1 DEF Looked
    <3> QED BY <3>1, <3>2, <3>3, <3>4 DEF LookedAt
  <2>4. CASE Accept \/ Reject
    BY <1>2, <2>4 DEF Accept, Reject, Looked, LookedAt
  <2>5. CASE Conclude
    BY <1>2, <2>5 DEF Conclude, Looked, LookedAt
  <2>6. CASE UNCHANGED gateVars
    BY <1>2, <2>6 DEF gateVars, Looked, LookedAt
  <2> QED BY <2>1, <2>2, <2>3, <2>4, <2>5, <2>6
<1>8. Seen' = Seen
  BY <1>2, <1>7 DEF Seen
<1>9. \A i \in invalid' : \E x \in Items(file.exclusions) : x.id = i
  <2>1. \A i \in invalid' : i \in invalid \/ (Reject /\ i = Claim.id)
    BY DEF RefuseFile, Decode, FinishEntries, Accept, Reject, Conclude, gateVars, claimsReport
  <2>2. Reject => Claim \in Items(file.exclusions)
    BY DEF Reject, Claim, Items
  <2> QED BY <2>1, <2>2 DEF ReportInv, Sourced
<1>10. Sourced'
  <2> USE DEF ReportInv
  <2>1. /\ \A i \in unknown' : \E e \in Seen' : e.id = i /\ i \notin slice'.nodes
        /\ \A i \in boxless' : \E e \in Seen' : e.id = i /\ i \in slice'.nodes /\ ~HasBox(i)'
    BY <1>2, <1>4, <1>8 DEF Sourced
  <2>2. /\ \A h \in holders' : \E e \in Seen' : h = <<e.element, e.id>>
        /\ \A i \in unlabelled' : \E e \in Seen' : e.id = i /\ e.element = None
    BY <1>2, <1>8 DEF Sourced
  <2>3. \A m \in mismatches' : \E e \in Seen', s \in Slots :
          Sited(e)' /\ m = <<e.id, s>> /\ Misses(e.id, s, Delta(e, s))'
    <3>1. \A m \in mismatches : \E e \in Seen, s \in Slots :
            Sited(e) /\ m = <<e.id, s>> /\ Misses(e.id, s, Delta(e, s))
      BY DEF Sourced
    <3>2. \A e, s : Misses(e.id, s, Delta(e, s))' = Misses(e.id, s, Delta(e, s))
      BY <1>3
    <3> QED BY <1>2, <1>3, <1>8, <3>1, <3>2
  <2>4. /\ \A i \in flips' : \E e \in Seen' : Sited(e)' /\ e.id = i /\ Flipped(e)'
        /\ \A d \in deltas' : \E e \in Seen', s \in Slots : d = InList(e, s)'
    BY <1>2, <1>3, <1>8 DEF Sourced
  <2>5. \A i \in invalid' : \E x \in Items(file'.exclusions) : x.id = i
    BY <1>2, <1>9
  <2> HIDE DEF ReportInv, Items
  <2> QED BY <2>1, <2>2, <2>3, <2>4, <2>5 DEF Sourced, Items
<1>11. Counted'
  <2>1. Faulted' = Faulted
    BY <1>2 DEF Faulted
  <2> QED BY <1>2, <1>7, <2>1 DEF ReportInv, Counted
<1>12. Listed'
  BY <1>2, <1>3, <1>8 DEF ReportInv, Listed
<1>13. Mismatched'
  <2>1. excused' = excused /\ invalid' = invalid => Fails' = Fails
    <3> SUFFICES ASSUME excused' = excused, invalid' = invalid PROVE Fails' = Fails
      OBVIOUS
    <3>1. UnmeasuredRendered' = UnmeasuredRendered
      BY <1>1, <1>2, SameInput, SameClaims DEF UnmeasuredRendered, Boxed
    <3>2. SharedElements' = SharedElements
      BY <1>2 DEF SharedElements
    <3> QED BY <1>2, <3>1, <3>2 DEF Fails
  <2>2. CASE Conclude
    <3>1. Fails' = Fails /\ stage' = "done"
      BY <2>1, <2>2 DEF Conclude, claimsReport
    <3> QED BY <2>2, <3>1 DEF Conclude, Mismatched
  <2>3. CASE UNCHANGED gateVars
    <3>1. Fails' = Fails
      BY <2>1, <2>3 DEF gateVars, claimsReport
    <3> QED BY <2>3, <3>1 DEF ReportInv, Mismatched, gateVars
  <2>4. CASE ~Conclude /\ ~(UNCHANGED gateVars)
    <3>1. stage # "done" /\ verdict' = verdict
      BY <2>4 DEF RefuseFile, Decode, FinishEntries, Accept, Reject
    <3> QED BY <3>1 DEF ReportInv, Mismatched
  <2> QED BY <2>2, <2>3, <2>4
<1> QED BY <1>10, <1>11, <1>12, <1>13 DEF ReportInv

LEMMA ReportInvariant == GateSpec => [](GateInvariant /\ ReportInv)
<1>1. GateInit => GateInvariant /\ ReportInv
  BY InitEstablishes, ReportStart
<1>2. ASSUME GateInvariant, ReportInv, SkipUnknown \/ SkipBoxless \/ Compare PROVE ReportInv'
  <2>1. Sourced' /\ Counted' /\ Listed'
    BY <1>2, SourcedEntryStep, CountedEntryStep, ListedEntryStep DEF ReportInv
  <2>2. Mismatched'
    <3>1. stage = "compare" /\ verdict' = verdict
      BY <1>2, SeenGrows DEF SkipUnknown, SkipBoxless, Compare
    <3>2. verdict' # "mismatch"
      BY <1>2, <3>1 DEF ReportInv, Mismatched
    <3> QED BY <3>2 DEF Mismatched
  <2> QED BY <2>1, <2>2 DEF ReportInv
<1>3. GateInvariant /\ ReportInv /\ [GateNext]_gateVars => (GateInvariant /\ ReportInv)'
  <2> SUFFICES ASSUME GateInvariant, ReportInv, [GateNext]_gateVars PROVE GateInvariant' /\ ReportInv'
    OBVIOUS
  <2>1. CASE SkipUnknown \/ SkipBoxless \/ Compare
    BY <1>2, <2>1, EntryStep
  <2>2. CASE RefuseFile \/ Decode \/ FinishEntries \/ Accept \/ Reject \/ Conclude \/ UNCHANGED gateVars
    BY <2>2, OtherStep, ReportOtherStep
  <2> QED BY <2>1, <2>2 DEF GateNext
<1> QED BY <1>1, <1>3, PTL DEF GateSpec

(* At the end every entry was looked at, and ids name them.                *)
LEMMA AllSeen ==
    ASSUME GateInvariant, stage = "done"
    PROVE  /\ Seen = Items(file.entries)
           /\ \A d, e \in Items(file.entries) : d.id = e.id => d = e
<1>1. Seen = Items(file.entries)
  BY DEF Seen, Items, LookedAt
<1>2. ASSUME NEW d \in Items(file.entries), NEW e \in Items(file.entries), d.id = e.id PROVE d = e
  <2>1. Decodable
    BY DEF GateInvariant, Decoded
  <2>2. PICK j \in DOMAIN file.entries, k \in DOMAIN file.entries : d = file.entries[j] /\ e = file.entries[k]
    BY DEF Items
  <2>3. j = k
    BY <1>2, <2>1, <2>2 DEF Decodable
  <2> QED BY <2>2, <2>3
<1> QED BY <1>1, <1>2

(* A budgeted measurement is in the list of a report once.                 *)
LEMMA ListedOnce ==
    ASSUME GateInvariant, ReportInv, stage = "done",
           NEW e \in Items(file.entries), NEW s \in {"y", "height"},
           e.id \in slice.nodes \ boxless, Budgeted(e.id, s)
    PROVE  Cardinality({d \in deltas : d.node = e.id /\ d.slot = s}) = 1
<1>1. s \in Slots
  BY DEF Slots
<1>2. /\ Seen = Items(file.entries)
      /\ \A d \in Items(file.entries) : d.id = e.id => d = e
  BY AllSeen
<1>3. Sited(e)
  <2>1. Noted(e)
    BY DEF GateInvariant, Recorded, LookedAt, Items
  <2> QED BY <2>1 DEF Noted, Sited
<1>4. InList(e, s) \in deltas
  BY <1>1, <1>2, <1>3 DEF ReportInv, Listed
<1>5. InList(e, s).node = e.id /\ InList(e, s).slot = s
  BY DEF InList
<1>6. ASSUME NEW d \in deltas, d.node = e.id, d.slot = s PROVE d = InList(e, s)
  <2>1. PICK f \in Seen, t \in Slots : d = InList(f, t)
    BY DEF ReportInv, Sourced
  <2>2. d.node = f.id /\ d.slot = t
    BY <2>1 DEF InList
  <2>3. f = e /\ t = s
    BY <1>2, <1>6, <2>1, <2>2
  <2> QED BY <2>1, <2>3
<1> DEFINE x == InList(e, s)
           D == {d \in deltas : d.node = e.id /\ d.slot = s}
<1>7. x \in D /\ \A d \in D : d = x
  BY <1>4, <1>5, <1>6
<1> HIDE DEF x, D
<1>8. D = {x}
  BY <1>7
<1>9. Cardinality(D) = 1
  BY <1>8, FS_Singleton
<1> QED BY <1>9 DEF D

(* A measurement that is where the design has it passes, whatever the      *)
(* tolerances are.                                                         *)
LEMMA ExactPasses ==
    ASSUME GateInvariant, Comparable, NEW e \in Items(file.entries),
           e.id \in slice.nodes, HasBox(e.id),
           \A s \in Slots :
             e.at[s] = Look(e.id).box[s] - (IF s = "x" THEN RootBox.x ELSE IF s = "y" THEN RootBox.y ELSE 0)
    PROVE  ~Flipped(e) /\ \A s \in Slots : ~Misses(e.id, s, Delta(e, s))
<1>1. IsSlice(slice) /\ setting.tolerance \in Int /\ 0 <= setting.tolerance
  BY DEF GateInvariant, InputOK, IsSetting, Comparable
<1>2. RootBox \in Boxes /\ Look(e.id).box \in Boxes
  BY <1>1 DEF IsSlice, Look, HasBox, Looks, RootBox, Comparable
<1>3. ASSUME NEW s \in Slots PROVE WithinStrict(Delta(e, s))
  <2>1. Look(e.id).box[s] \in Int /\ RootBox["x"] \in Int /\ RootBox["y"] \in Int
    BY <1>2, <1>3 DEF Boxes, Slots
  <2>2. e.at[s] = Look(e.id).box[s] - (IF s = "x" THEN RootBox["x"] ELSE IF s = "y" THEN RootBox["y"] ELSE 0)
    BY <1>3
  <2>3. e.at[s] = Expected(e.id, s) /\ Expected(e.id, s) \in Int
    <3>1. CASE s = "x"
      BY <2>1, <2>2, <3>1 DEF Expected
    <3>2. CASE s = "y"
      BY <2>1, <2>2, <3>2 DEF Expected
    <3>3. CASE s \notin {"x", "y"}
      BY <2>1, <2>2, <3>3 DEF Expected
    <3> QED BY <3>1, <3>2, <3>3
  <2>4. Delta(e, s) = 0
    BY <2>3 DEF Delta
  <2> QED BY <1>1, <2>4 DEF WithinStrict, Abs
<1>4. WithinStrict(Delta(e, "height"))
  BY <1>3 DEF Slots
<1> QED BY <1>3, <1>4 DEF Misses, Flipped, IsWrapFlip

(* A report counts what it was given, and finds fault with no render that  *)
(* has none: for every slice, every file and every tolerance, the entries  *)
(* are those unknown, those without geometry and those compared; and when  *)
(* everything is measured where it is, the verdict is a match.             *)
THEOREM GateReportIsRight == GateSpec => []ReportIsRight
<1>1. GateInvariant /\ ReportInv => ReportAddsUp
  <2> SUFFICES ASSUME GateInvariant, ReportInv, stage = "done" PROVE ReportAddsUp
    BY DEF ReportAddsUp
  <2>1. Looked = Len(file.entries)
    BY DEF Looked
  <2>2. /\ Len(file.entries) = Cardinality(unknown) + Cardinality(boxless) + compared
        /\ compared = matched + Cardinality({m[1] : m \in mismatches} \cup flips)
    BY <2>1 DEF ReportInv, Counted, Faulted
  <2> QED BY <2>2, ListedOnce DEF ReportAddsUp
<1>2. GateInvariant /\ ReportInv => NoFalseAlarm
  <2> SUFFICES ASSUME GateInvariant, ReportInv, verdict = "mismatch", IsPerfect PROVE FALSE
    BY DEF NoFalseAlarm
  <2>1. stage = "done" /\ Fails /\ Comparable
    BY DEF ReportInv, Mismatched, GateInvariant, Decoded
  <2>2. Seen = Items(file.entries)
    BY <2>1, AllSeen
  <2>3. \A e \in Seen : e.id \in slice.nodes /\ HasBox(e.id) /\ e.element # None
    BY <2>2 DEF IsPerfect
  <2>4. \A e \in Seen : ~Flipped(e) /\ \A s \in Slots : ~Misses(e.id, s, Delta(e, s))
    BY <2>1, <2>2, ExactPasses DEF IsPerfect
  <2>5. unknown = {} /\ boxless = {} /\ unlabelled = {}
    BY <2>3 DEF ReportInv, Sourced
  <2>6. mismatches = {} /\ flips = {}
    BY <2>4 DEF ReportInv, Sourced
  <2>7. invalid = {}
    <3>1. Items(file.exclusions) = {}
      BY DEF IsPerfect, Items
    <3> QED BY <3>1 DEF ReportInv, Sourced
  <2>8. SharedElements = {}
    <3> SUFFICES ASSUME NEW p \in holders, NEW q \in holders, q[1] = p[1], q[2] # p[2] PROVE FALSE
      BY DEF SharedElements
    <3>1. PICK d \in Seen : p = <<d.element, d.id>>
      BY DEF ReportInv, Sourced
    <3>2. PICK e \in Seen : q = <<e.element, e.id>>
      BY DEF ReportInv, Sourced
    <3>3. d.element = e.element /\ d.id # e.id
      BY <3>1, <3>2
    <3>4. d = e
      BY <2>2, <3>3 DEF IsPerfect
    <3> QED BY <3>3, <3>4
  <2>9. UnmeasuredRendered = {}
    BY DEF UnmeasuredRendered, IsPerfect
  <2> QED BY <2>1, <2>5, <2>6, <2>7, <2>8, <2>9 DEF Fails
<1> QED BY ReportInvariant, <1>1, <1>2, PTL DEF ReportIsRight
-----------------------------------------------------------------------------
(***************************************************************************)
(* The composition: the slice that is judged is the one that was cut.      *)
(***************************************************************************)
CutInv == Partition /\ Marks /\ Faithful /\ (phase = "done" => OmittedBelowShown)

(* Nothing is reported before the slice is there, and once it is, it does  *)
(* not change any more.                                                    *)
Handed ==
    /\ file \in MeasuredFiles(doc) /\ setting \in Settings
    /\ stage = "waiting" => Blank
    /\ stage # "waiting" => phase = "done" /\ slice = SliceGiven /\ GateInvariant

LEMMA IdsAreUnique == UniqueIds
  BY LooksAssumption, DocsAssumption DEF UniqueIds, IsDocument

(* The command only adds steps that leave the cut alone.                   *)
LEMMA CutInvariant == DiffSpec => []CutInv
<1>1. DiffInit => Init
  BY DEF DiffInit
<1>2. [DiffNext]_<<vars, gateVars>> => [Next]_vars
  BY DEF DiffNext, Cut, HandOver, Judge
<1>3. DiffSpec => Spec
  BY <1>1, <1>2, PTL DEF DiffSpec, Spec
<1>4. Spec => []Partition
  BY IdsAreUnique, SlicePartitions
<1>5. Spec => []Marks
  BY IdsAreUnique, MarksInvariant
<1>6. Spec => [](phase = "done" => OmittedBelowShown)
  BY IdsAreUnique, OmissionsBelowShown
<1>7. Partition /\ Marks /\ (TypeInv /\ Faithful) /\ (phase = "done" => OmittedBelowShown) => CutInv
  BY DEF CutInv
<1> QED BY <1>3, <1>4, <1>5, <1>6, <1>7, FaithfulInvariant, PTL

(* A node of the slice is the child of its parent in the document, unless  *)
(* the slice begins there.                                                 *)
LEMMA GivenFacts ==
    ASSUME CutInv
    PROVE  /\ Shown \subseteq doc.nodes /\ doc.nodes \subseteq Nat \ {NoParent}
           /\ \A k \in DOMAIN nodes :
                ParentOf(nodes[k].at) = IF nodes[k].parent = NoParent THEN None ELSE nodes[k].parent
<1>1. TypeInv /\ nodes \in Seq(NodeType)
  BY DEF CutInv, Partition, TypeInv
<1>2. Shown \subseteq doc.nodes
  BY <1>1, EntriesInDocument DEF Shown
<1>3. ASSUME NEW k \in DOMAIN nodes
      PROVE  ParentOf(nodes[k].at) = IF nodes[k].parent = NoParent THEN None ELSE nodes[k].parent
  <2> DEFINE same(j) == j \in DOMAIN nodes /\ nodes[j].at = nodes[k].at
  <2>1. \A j \in DOMAIN nodes : nodes[j].at = nodes[k].at => j = k
    BY DEF CutInv, Partition, Apart, ShownApart
  <2>2. (CHOOSE j \in DOMAIN nodes : nodes[j].at = nodes[k].at) = k
    BY <2>1
  <2> QED BY <2>2 DEF ParentOf
<1> QED BY <1>1, <1>2, <1>3, DocIsDocument DEF IsDocument

LEMMA ParentFacts ==
    ASSUME CutInv, NEW o \in Shown
    PROVE  \/ ParentOf(o) = None
           \/ /\ ParentOf(o) = doc.parent[o] /\ ParentOf(o) \in Shown
              /\ ParentOf(o) \in doc.above[o] /\ ParentOf(o) < o
              /\ \A a \in doc.above[ParentOf(o)] : a \in doc.above[o]
<1>1. PICK k \in DOMAIN nodes : nodes[k].at = o
  BY DEF Shown
<1>2. TypeInv /\ IsDocument(doc) /\ IsForest(doc) /\ NumberedAsWalked(doc) /\ o \in doc.nodes
  BY GivenFacts, DocIsDocument DEF CutInv, Partition, IsDocument
<1>3. CASE nodes[k].parent = NoParent
  BY <1>1, <1>3, GivenFacts
<1>4. CASE nodes[k].parent # NoParent
  <2>1. ParentOf(o) = nodes[k].parent /\ nodes[k].parent = doc.parent[o]
    BY <1>1, <1>4, GivenFacts DEF CutInv, Faithful, Asked, Placed
  <2>2. doc.above[o] = doc.above[doc.parent[o]] \cup {doc.parent[o]}
    BY <1>2, <1>4, <2>1 DEF IsForest
  <2>3. doc.parent[o] \in doc.above[o] /\ doc.parent[o] < o
    BY <1>2, <2>2 DEF NumberedAsWalked
  <2>4. doc.parent[o] \in Shown
    <3>1. nodes \in Seq(NodeType)
      BY <1>2 DEF TypeInv
    <3>2. DOMAIN nodes = 1..Len(nodes) /\ Len(nodes) \in Nat
      BY <3>1
    <3>3. PICK j \in 1..(k - 1) : nodes[j].at = nodes[k].parent
      BY <1>4 DEF CutInv, Marks, ParentFirst
    <3>4. j \in DOMAIN nodes
      BY <3>2, <3>3
    <3> QED BY <2>1, <3>3, <3>4 DEF Shown
  <2> QED BY <2>1, <2>2, <2>3, <2>4
<1> QED BY <1>3, <1>4

(* A cut slice is one that the gate can judge: a forest, rendered from the *)
(* roots down, with a look for every node.                                 *)
LEMMA CutIsSlice ==
    ASSUME CutInv, phase = "done"
    PROVE  IsSlice(SliceGiven)
<1> DEFINE s == SliceGiven
<1>1. /\ s.nodes = Shown /\ s.parent = [o \in Shown |-> ParentOf(o)]
      /\ s.look = [o \in Shown |-> doc.look[o]]
      /\ s.rendered = {o \in Shown : doc.visible[o]} /\ s.cutShort = CutShort
  BY DEF SliceGiven
<1>2. /\ doc \in Docs /\ TypeInv /\ IsDocument(doc)
      /\ Shown \subseteq doc.nodes /\ Shown \subseteq Nat
      /\ doc.look \in [doc.nodes -> Looks]
      /\ \A o \in doc.nodes : ~(doc.look[o].text /\ doc.look[o].auto)
  BY GivenFacts, DocIsDocument, LooksAssumption DEF CutInv, Partition, TypeInv
<1>3. \A o \in Shown : ParentOf(o) \in Shown \cup {None}
  BY ParentFacts
<1>4. \A o \in Shown : doc.visible[o] => ParentOf(o) = None \/ doc.visible[ParentOf(o)]
  BY <1>2, ParentFacts DEF IsDocument
<1>5. CutShort \subseteq Shown
  <2> SUFFICES ASSUME NEW k \in DOMAIN omitted, omitted[k].reason # "not-rendered",
                      omitted[k].parent # NoParent
               PROVE  omitted[k].parent \in Shown
    BY DEF CutShort
  <2> QED BY DEF CutInv, OmittedBelowShown, Shown
<1>6. ASSUME NEW S \in (SUBSET Shown) \ {{}}
      PROVE  \E n \in S : ParentOf(n) \notin S
  <2>1. PICK n \in S : \A m \in S : n <= m
    BY <1>2, <1>6, LeastNatural
  <2>2. n \in Shown /\ n \in Nat
    BY <1>2
  <2>3. ParentOf(n) \notin S
    <3>1. CASE ParentOf(n) = None
      BY <1>2, <3>1, NoneAssumption
    <3>2. CASE ParentOf(n) < n /\ ParentOf(n) \in Shown
      <4>1. ParentOf(n) \in Nat
        BY <1>2, <3>2
      <4> QED BY <2>1, <2>2, <3>2, <4>1
    <3> QED BY <2>2, <3>1, <3>2, ParentFacts
  <2> QED BY <2>3
<1> HIDE DEF s
<1>7. s.parent \in [s.nodes -> s.nodes \cup {None}]
  BY <1>1, <1>3
<1>8. s.look \in [s.nodes -> Looks]
  BY <1>1, <1>2
<1>9. \A n \in s.rendered : s.parent[n] \in s.rendered \cup {None}
  BY <1>1, <1>3, <1>4
<1>10. \A S \in (SUBSET s.nodes) \ {{}} : \E n \in S : s.parent[n] \notin S
  <2> SUFFICES ASSUME NEW S \in (SUBSET Shown) \ {{}} PROVE \E n \in S : s.parent[n] \notin S
    BY <1>1
  <2>1. PICK n \in S : ParentOf(n) \notin S
    BY <1>6
  <2> QED BY <1>1, <2>1
<1>11. \A n \in s.nodes : ~(s.look[n].text /\ s.look[n].auto)
  <2> SUFFICES ASSUME NEW n \in Shown PROVE ~(s.look[n].text /\ s.look[n].auto)
    BY <1>1
  <2>1. s.look[n] = doc.look[n] /\ n \in doc.nodes
    BY <1>1, <1>2
  <2> QED BY <1>2, <2>1
<1>12. IsSlice(s)
  BY <1>1, <1>5, <1>7, <1>8, <1>9, <1>10, <1>11 DEF IsSlice
<1> QED BY <1>12 DEF s

(* What is handed over is what was cut; from then on the gate is on its    *)
(* own, and the cut is over.                                               *)
LEMMA HandedStep ==
    ASSUME CutInv, Handed, [DiffNext]_<<vars, gateVars>>
    PROVE  Handed'
<1>1. CASE Cut
  <2>1. phase # "done" /\ doc' = doc
    BY <1>1 DEF Cut, Next, Refuse, Begin, OmitHidden, OmitOverBudget, IncludeAtLimit,
                IncludeAndDescend, Finish
  <2>2. stage = "waiting"
    BY <2>1 DEF Handed
  <2> QED BY <1>1, <2>1, <2>2 DEF Handed, Cut, Blank, gateVars, input, entriesReport, claimsReport
<1>2. CASE HandOver
  <2>1. /\ phase = "done" /\ phase' = "done" /\ doc' = doc /\ slice' = SliceGiven /\ stage' = "decode"
        /\ file' = file /\ setting' = setting /\ vars' = vars
    BY <1>2 DEF HandOver, vars
  <2>2. SliceGiven' = SliceGiven
    BY <2>1 DEF vars, SliceGiven, Shown, ParentOf, CutShort
  <2>3. IsSlice(slice')
    BY <2>1, CutIsSlice
  <2>4. IsFile(file') /\ IsSetting(setting')
    BY <2>1, MeasuredAssumption, OptionsAssumption DEF Handed, CutInv, Partition, TypeInv
  <2>5. InputOK'
    BY <2>3, <2>4 DEF InputOK
  <2>6. Start'
    BY <1>2 DEF Handed, HandOver, Start, Blank, entriesReport, claimsReport
  <2>7. GateInvariant'
    BY <2>5, <2>6, StartLater
  <2> QED BY <2>1, <2>2, <2>7 DEF Handed
<1>3. CASE Judge \/ UNCHANGED <<vars, gateVars>>
  <2>1. vars' = vars /\ phase' = phase /\ doc' = doc
    BY <1>3 DEF Judge, vars
  <2>2. /\ slice' = slice /\ file' = file /\ setting' = setting
        /\ stage = "waiting" => UNCHANGED gateVars
        /\ stage # "waiting" => stage' # "waiting"
    BY <1>3 DEF Judge, GateNext, RefuseFile, Decode, SkipUnknown, SkipBoxless, Compare, FinishEntries,
                Accept, Reject, Conclude, Advance, gateVars, input
  <2>3. SliceGiven' = SliceGiven
    BY <2>1 DEF vars, SliceGiven, Shown, ParentOf, CutShort
  <2>4. stage # "waiting" => GateInvariant'
    BY <1>3, GateStep DEF Handed, Judge
  <2>5. stage = "waiting" => Blank' /\ stage' = "waiting"
    BY <2>2 DEF Handed, Blank, gateVars, entriesReport, claimsReport
  <2> QED BY <2>1, <2>2, <2>3, <2>4, <2>5 DEF Handed
<1> QED BY <1>1, <1>2, <1>3 DEF DiffNext

LEMMA HandedInvariant == DiffSpec => [](CutInv /\ Handed)
<1>1. DiffInit => Handed
  BY DEF DiffInit, Handed
<1>2. CutInv /\ Handed /\ [DiffNext]_<<vars, gateVars>> => Handed'
  BY HandedStep
<1> QED BY <1>1, <1>2, CutInvariant, PTL DEF DiffSpec

(* The gate's view of a slice that was handed over.                        *)
LEMMA ViewFacts ==
    ASSUME CutInv, Handed, stage # "waiting"
    PROVE  /\ slice.nodes = Shown /\ slice.cutShort = CutShort
           /\ \A o \in Shown : Parent(o) = ParentOf(o) /\ Look(o) = doc.look[o]
           /\ slice.rendered = {o \in Shown : doc.visible[o]}
           /\ IsSlice(slice) /\ phase = "done" /\ doc \in Docs /\ IsDocument(doc)
           /\ Shown \subseteq doc.nodes /\ doc.nodes \subseteq Nat
<1>1. slice = SliceGiven /\ phase = "done" /\ IsSlice(slice)
  BY DEF Handed, GateInvariant, InputOK
<1>2. /\ slice.nodes = Shown /\ slice.parent = [o \in Shown |-> ParentOf(o)]
      /\ slice.look = [o \in Shown |-> doc.look[o]]
      /\ slice.rendered = {o \in Shown : doc.visible[o]} /\ slice.cutShort = CutShort
  BY <1>1 DEF SliceGiven
<1>3. TypeInv /\ doc \in Docs /\ IsDocument(doc)
  BY DocIsDocument DEF CutInv, Partition, TypeInv
<1> QED BY <1>1, <1>2, <1>3, GivenFacts DEF Parent, Look

(* What the gate finds above a node is above it in the document.           *)
LEMMA AboveInDocument ==
    ASSUME CutInv, Handed, stage # "waiting", NEW n \in Shown
    PROVE  Above[n] \subseteq doc.above[n]
<1> DEFINE S == {m \in Shown : ~(Above[m] \subseteq doc.above[m])}
<1> SUFFICES ASSUME S # {} PROVE FALSE
  OBVIOUS
<1>1. S \in (SUBSET slice.nodes) \ {{}}
  BY ViewFacts
<1>2. PICK m \in S : Parent(m) \notin S
  BY <1>1, ViewFacts DEF IsSlice, Parent
<1>3. m \in Shown /\ ~(Above[m] \subseteq doc.above[m]) /\ Parent(m) = ParentOf(m)
  BY <1>2, ViewFacts
<1>4. Above[m] = IF Parent(m) = None THEN {} ELSE {Parent(m)} \cup Above[Parent(m)]
  BY <1>3, ViewFacts, AboveSolves
<1>5. Parent(m) # None
  BY <1>3, <1>4
<1>6. Parent(m) \in Shown /\ Parent(m) \in doc.above[m] /\ \A a \in doc.above[Parent(m)] : a \in doc.above[m]
  BY <1>3, <1>5, ParentFacts
<1>7. Above[Parent(m)] \subseteq doc.above[Parent(m)]
  BY <1>2, <1>6
<1> HIDE DEF S
<1> QED BY <1>3, <1>4, <1>5, <1>6, <1>7

(* childrenCutShort: a node that is not marked has all of its rendered     *)
(* children in the slice, as its children.                                 *)
LEMMA ChildrenInSlice ==
    ASSUME CutInv, Handed, stage # "waiting", NEW o \in Shown, o \notin slice.cutShort
    PROVE  RenderedChildrenOf(o) \subseteq RenderedChildren(o)
<1> SUFFICES ASSUME NEW c \in RenderedChildrenOf(o) PROVE c \in RenderedChildren(o)
  OBVIOUS
<1>1. c \in doc.nodes /\ doc.visible[c] /\ doc.parent[c] = o
  BY DEF RenderedChildrenOf, RenderedBelow
<1>2. o # NoParent /\ IsDocument(doc)
  BY ViewFacts, GivenFacts
<1>3. \A k \in DOMAIN omitted : omitted[k].parent = o => omitted[k].reason = "not-rendered"
  BY <1>2, ViewFacts DEF CutShort
<1>4. PICK k \in DOMAIN nodes : nodes[k].at = c /\ nodes[k].parent = o
  <2>1. Rendered(c) /\ phase = "done"
    BY <1>1, ViewFacts DEF Rendered
  <2> QED BY <1>1, <1>3, <2>1, ChildrenAreShown DEF CutInv
<1>5. c \in Shown /\ ParentOf(c) = o
  BY <1>2, <1>4, GivenFacts DEF Shown
<1> QED BY <1>1, <1>5, ViewFacts DEF RenderedChildren

(* isAssetLike: what is rendered below a picture was seen, all of it, and  *)
(* is a picture.                                                           *)
LEMMA PictureIsWhole ==
    ASSUME CutInv, Handed, stage # "waiting", NEW a \in Shown, AssetLike[a]
    PROVE  \A q \in RenderedBelow(a) : q \in Shown /\ AssetLike[q]
<1> DEFINE Bad == {q \in RenderedBelow(a) : ~(q \in Shown /\ AssetLike[q])}
<1> SUFFICES ASSUME Bad # {} PROVE FALSE
  OBVIOUS
<1>1. Bad \subseteq doc.nodes /\ doc.nodes \subseteq Nat \ {NoParent} /\ IsDocument(doc)
      /\ IsForest(doc) /\ NumberedAsWalked(doc)
  BY ViewFacts, GivenFacts DEF RenderedBelow, IsDocument
<1>2. PICK q \in Bad : \A m \in Bad : q <= m
  BY <1>1, LeastNatural
<1>3. q \in doc.nodes /\ a \in doc.above[q] /\ doc.visible[q] /\ ~(q \in Shown /\ AssetLike[q])
  BY <1>2 DEF RenderedBelow
<1> DEFINE p == doc.parent[q]
<1>4. p \in doc.nodes /\ p # NoParent /\ doc.above[q] = doc.above[p] \cup {p}
  <2>1. doc.above[q] = IF p = NoParent THEN {} ELSE doc.above[p] \cup {p}
    BY <1>1, <1>3 DEF IsForest
  <2>2. p # NoParent
    BY <1>3, <2>1
  <2>3. doc.parent \in [doc.nodes -> doc.nodes \cup {NoParent}]
    BY <1>1 DEF IsDocument
  <2>4. p \in doc.nodes \cup {NoParent}
    BY <1>3, <2>3
  <2> HIDE DEF p
  <2> QED BY <2>1, <2>2, <2>4
<1>5. p \in doc.above[q] /\ p < q /\ doc.visible[p]
  BY <1>1, <1>3, <1>4 DEF NumberedAsWalked, IsDocument
<1>6. p \in Shown /\ AssetLike[p]
  <2>1. CASE p = a
    BY <2>1
  <2>2. CASE p # a
    <3>1. p \in RenderedBelow(a)
      BY <1>3, <1>4, <1>5, <2>2 DEF RenderedBelow
    <3>2. p \in Nat /\ q \in Nat
      BY <1>1, <1>3, <1>4
    <3>3. p \notin Bad
      BY <1>2, <1>5, <3>2
    <3> QED BY <3>1, <3>3
  <2> QED BY <2>1, <2>2
<1>7. /\ p \notin slice.cutShort
      /\ RenderedChildren(p) # {} => \A c \in RenderedChildren(p) : AssetLike[c]
  BY <1>6, ViewFacts, AssetLikeSolves
<1>8. q \in RenderedChildren(p)
  <2>1. q \in RenderedChildrenOf(p)
    BY <1>3, <1>5 DEF RenderedChildrenOf, RenderedBelow
  <2> QED BY <1>6, <1>7, <2>1, ChildrenInSlice
<1>9. q \in Shown
  BY <1>8, ViewFacts DEF RenderedChildren
<1> QED BY <1>3, <1>7, <1>8, <1>9

(* A claim that was granted is one that was confirmed: ids name claims.    *)
LEMMA GrantedIsUpheld ==
    ASSUME GateInvariant, NEW kind, NEW x \in Granted(kind)
    PROVE  x.kind = kind /\ Upheld(x) /\ x.id \in slice.nodes
<1>1. x \in Items(file.exclusions) /\ x.kind = kind /\ x.id \in excused
  BY DEF Granted
<1>2. PICK y \in Items(file.exclusions) : y.id = x.id /\ Upheld(y)
  BY <1>1 DEF GateInvariant, Confirmed
<1>3. Decodable
  BY <1>1 DEF GateInvariant, Decoded
<1>4. PICK j \in DOMAIN file.exclusions, k \in DOMAIN file.exclusions :
        x = file.exclusions[j] /\ y = file.exclusions[k]
  BY <1>1, <1>2 DEF Items
<1>5. j = k
  BY <1>2, <1>3, <1>4 DEF Decodable
<1> QED BY <1>1, <1>2, <1>4, <1>5 DEF Upheld

(* "Text is never an asset" of what the slice left out, too, and a child   *)
(* "the slice did not see" derives no frame.                               *)
LEMMA GrantedHoldsOfTheDesign == CutInv /\ Handed => ClaimsHoldOfTheDesign
<1> SUFFICES ASSUME CutInv, Handed PROVE ClaimsHoldOfTheDesign
  OBVIOUS
<1>1. CASE stage = "waiting"
  <2>1. \A kind : Granted(kind) = {}
    BY <1>1 DEF Handed, Blank, Granted
  <2> QED BY <2>1 DEF ClaimsHoldOfTheDesign
<1>2. CASE stage # "waiting"
  <2>1. GateInvariant /\ slice.nodes = Shown
    BY <1>2, ViewFacts DEF Handed
  <2>2. ASSUME NEW x \in Granted("asset-internal")
        PROVE  \E a \in doc.above[x.id] \cap MeasuredIds :
                 \A q \in RenderedBelow(a) \cup {a} : ~doc.look[q].text
    <3>1. x.kind = "asset-internal" /\ Upheld(x) /\ x.id \in Shown
      BY <2>1, GrantedIsUpheld
    <3>2. InsideAsset(x.id)
      BY <3>1 DEF Upheld
    <3>3. PICK a \in slice.nodes : IsNearestMeasured(x.id, a) /\ AssetLike[a]
      BY <3>2 DEF InsideAsset
    <3>4. a \in doc.above[x.id] \cap MeasuredIds
      BY <1>2, <3>1, <3>3, AboveInDocument DEF IsNearestMeasured
    <3>5. ASSUME NEW q \in RenderedBelow(a) \cup {a} PROVE ~doc.look[q].text
      <4>1. q \in Shown /\ AssetLike[q]
        BY <1>2, <2>1, <3>3, PictureIsWhole
      <4>2. ~Look(q).text
        BY <1>2, <2>1, <4>1, ViewFacts, AssetLikeSolves
      <4> QED BY <1>2, <4>1, <4>2, ViewFacts
    <3> QED BY <3>4, <3>5
  <2>3. ASSUME NEW x \in Granted("derived-from-children")
        PROVE  RenderedChildrenOf(x.id) \subseteq MeasuredIds
    <3>1. x.kind = "derived-from-children" /\ Upheld(x) /\ x.id \in Shown
      BY <2>1, GrantedIsUpheld
    <3>2. Derivable(x.id)
      BY <3>1 DEF Upheld
    <3>3. x.id \notin slice.cutShort /\ RenderedChildren(x.id) \subseteq MeasuredIds
      BY <3>2 DEF Derivable
    <3> QED BY <1>2, <3>1, <3>3, ChildrenInSlice
  <2> QED BY <2>2, <2>3 DEF ClaimsHoldOfTheDesign
<1> QED BY <1>1, <1>2

(* When no limit cut the slice, what it does not show cannot be seen.      *)
LEMMA UncutShowsAll ==
    ASSUME CutInv, phase = "done", \A k \in DOMAIN omitted : omitted[k].reason = "not-rendered",
           NEW o \in Requested, doc.visible[o]
    PROVE  o \in Shown
<1> SUFFICES ASSUME o \notin Shown PROVE FALSE
  OBVIOUS
<1>1. EveryNodeAccounted /\ IsDocument(doc) /\ o \in doc.nodes
  BY PartitionIsAccount, DocIsDocument DEF CutInv, Partition, Requested
<1>2. PICK k \in DOMAIN omitted : Covers(omitted[k].at, o)
  BY <1>1 DEF EveryNodeAccounted
<1>3. ~doc.visible[omitted[k].at]
  BY <1>2 DEF CutInv, Faithful, Rendered
<1> QED BY <1>1, <1>2, <1>3 DEF Covers, IsDocument

(* "Matched everything I measured and matched everything are different     *)
(* claims": of a slice that no limit cut, a match with coverage is the     *)
(* second one, for the document.                                           *)
LEMMA MatchCoversTheDesign == CutInv /\ Handed => WholeDesignAnswered
<1> SUFFICES ASSUME CutInv, Handed, verdict = "match", setting.requireCoverage,
                    \A k \in DOMAIN omitted : omitted[k].reason = "not-rendered",
                    NEW o \in Requested, doc.visible[o], doc.look[o].box # None
             PROVE  o \in Shown /\ IsAnswered(o)
  BY DEF WholeDesignAnswered
<1>1. stage # "waiting"
  BY DEF Handed, Blank
<1>2. phase = "done" /\ GateInvariant
  BY <1>1 DEF Handed
<1>3. o \in Shown
  BY <1>2, UncutShowsAll
<1>4. o \in Boxed
  BY <1>1, <1>3, ViewFacts DEF Boxed, HasBox
<1>5. IsAnswered(o)
  BY <1>2, <1>4, MatchIsAnswered DEF EveryNodeAnswered
<1> QED BY <1>3, <1>5

(* diff-geometry: the gate sees the slice and not the document, and what   *)
(* it grants and what it calls a match are true of the document, however   *)
(* the slice was cut.                                                      *)
THEOREM MatchesHoldOfTheDesign == DiffSpec => []MatchHoldsOfTheDesign
<1>1. CutInv /\ Handed => MatchHoldsOfTheDesign
  BY GrantedHoldsOfTheDesign, MatchCoversTheDesign DEF MatchHoldsOfTheDesign
<1> QED BY <1>1, HandedInvariant, PTL
=============================================================================
