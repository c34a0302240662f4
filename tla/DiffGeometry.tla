---------------------------- MODULE DiffGeometry ----------------------------
(***************************************************************************)
(* The command diff-geometry: a slice is cut from the document (SliceCut), *)
(* and the measurements are judged against it (GeometryGate).              *)
(*                                                                         *)
(* The gate sees the slice and not the document.  What it concludes is     *)
(* stated here of the document.  A document of this module also has a      *)
(* look for every node, as the gate reads it, and its source ids are its   *)
(* node numbers: no id occurs twice.                                       *)
(***************************************************************************)
EXTENDS SliceCut, GeometryGate

CONSTANTS
    MeasuredFiles(_),  \* the measured files there are for a document
    Settings           \* the options on the command line

ASSUME NoneAssumption == None \notin Nat
ASSUME LooksAssumption ==
    \A d \in Docs :
        /\ d.look \in [d.nodes -> Looks]
        /\ \A o \in d.nodes : d.id[o] = o /\ ~(d.look[o].text /\ d.look[o].auto)
ASSUME MeasuredAssumption == \A d \in Docs : \A f \in MeasuredFiles(d) : IsFile(f)
ASSUME OptionsAssumption == \A o \in Settings : IsSetting(o)

(* Slip: only the depth limit cuts a list of children short.               *)
CutByDepth ==
    {omitted[k].parent : k \in {j \in DOMAIN omitted : omitted[j].reason = "max-depth"}}

(* The nodes with a child that a limit left out; hidden ones do not count. *)
CutShort ==
    {omitted[k].parent : k \in {j \in DOMAIN omitted : omitted[j].reason # "not-rendered"}}
        \ {NoParent}

(* What is above a node of the slice.                                      *)
ParentOf(o) ==
    LET k == CHOOSE j \in DOMAIN nodes : nodes[j].at = o
    IN IF nodes[k].parent = NoParent THEN None ELSE nodes[k].parent

(* The slice as the gate reads it.                                         *)
SliceGiven ==
    [ nodes |-> Shown,
      parent |-> [o \in Shown |-> ParentOf(o)],
      look |-> [o \in Shown |-> doc.look[o]],
      rendered |-> {o \in Shown : doc.visible[o]},
      cutShort |-> CutShort ]

-----------------------------------------------------------------------------
(* The arguments are given; of the gate nothing has run yet.               *)
DiffInit ==
    /\ Init
    /\ file \in MeasuredFiles(doc)
    /\ setting \in Settings
    /\ slice = None
    /\ stage = "waiting"
    /\ Blank

Cut == Next /\ UNCHANGED gateVars

(* The call of diffGeometry, once cutSlice has returned.                   *)
HandOver ==
    /\ phase = "done" /\ stage = "waiting"
    /\ slice' = SliceGiven
    /\ stage' = "decode"
    /\ UNCHANGED <<vars, file, setting, at, entriesReport, claimsReport, verdict>>

Judge == GateNext /\ UNCHANGED vars

DiffNext == Cut \/ HandOver \/ Judge

DiffSpec == DiffInit /\ [][DiffNext]_<<vars, gateVars>>

-----------------------------------------------------------------------------
(***************************************************************************)
(* Properties                                                              *)
(***************************************************************************)
RenderedBelow(o) == {q \in doc.nodes : o \in doc.above[q] /\ doc.visible[q]}

RenderedChildrenOf(o) == {q \in RenderedBelow(o) : doc.parent[q] = o}

Granted(kind) == {x \in Items(file.exclusions) : x.kind = kind /\ x.id \in excused}

(* "A container whose child list the slice cut short cannot be vouched for *)
(* either way", and "a child the slice did not see" (geometry.ts): what    *)
(* the gate accepts of a slice is so in the document.  A picture has no    *)
(* text in it, shown or not, and a frame that is derived from its children *)
(* is derived from all of them.                                            *)
ClaimsHoldOfTheDesign ==
    /\ \A x \in Granted("asset-internal") :
         \E a \in doc.above[x.id] \cap MeasuredIds :
             \A q \in RenderedBelow(a) \cup {a} : ~doc.look[q].text
    /\ \A x \in Granted("derived-from-children") :
         RenderedChildrenOf(x.id) \subseteq MeasuredIds

(* "Matched everything I measured and matched everything are different     *)
(* claims": of a match with coverage on a slice that no limit cut, every   *)
(* rendered node under the roots of the document is answered for.          *)
WholeDesignAnswered ==
    /\ verdict = "match" /\ setting.requireCoverage
    /\ \A k \in DOMAIN omitted : omitted[k].reason = "not-rendered"
    => \A o \in Requested :
         doc.visible[o] /\ doc.look[o].box # None => o \in Shown /\ IsAnswered(o)

(* Both together: what diff-geometry accepts of a slice, claim by claim    *)
(* and as a match, is true of the document the slice was cut from.         *)
MatchHoldsOfTheDesign == ClaimsHoldOfTheDesign /\ WholeDesignAnswered

(* verification.md: a collapse passes when the wrapper has "exactly one    *)
(* rendered child".                                                        *)
CollapseHasOneChild ==
    \A x \in Granted("collapsed-into") :
        \A p \in {x.id, x.target} :
            doc.parent[x.id] = p \/ doc.parent[x.target] = p
                => Cardinality(RenderedChildrenOf(p)) = 1
=============================================================================
