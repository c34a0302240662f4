------------------------------- MODULE HandOff -------------------------------
(***************************************************************************)
(* What a consumer of figma-ir keeps from one command to the next: the     *)
(* snapshot at a path, the projection it has read, its ledger.  In between *)
(* the file is saved, another session acquires to the same path, and the   *)
(* stored snapshot is edited or cut short.                                 *)
(*                                                                         *)
(* Acquiring is one step here: it is what AtomicCapture promises.  A hash  *)
(* is the value it is computed from.  The slice of a request is the first  *)
(* maxNodes of its roots, and what a node owes is read off its content.    *)
(***************************************************************************)
EXTENDS Integers, Sequences, FiniteSets

CONSTANTS
    Current,    \* the schema version of this program
    File,       \* the key of the file that is implemented
    Snapshots,  \* all that may be stored: captures of any file and version
    LastVersion,\* the file is saved so many times
    Clock,      \* the times at which a capture may be dated
    Requests,   \* [roots, maxNodes] as given, maxNodes \in Nat \cup {None}
    Owes,       \* what a node of this content must be accounted for
    Answers,    \* the lists of entries a consumer may write: [fact, status, reason]
    MaxEdits,   \* bound: fields changed by hand in a stored snapshot
    NoFile, Torn, None

(***************************************************************************)
(* A snapshot is a record [schema, fileKey, roots, geometry, start, end,   *)
(* adapter, acquiredAt, nodes, styles], `nodes` a function of the roots.   *)
(***************************************************************************)
ASSUME SnapshotsAssumption ==
    \A s \in Snapshots :
        /\ DOMAIN s.nodes = s.roots /\ IsFiniteSet(s.roots) /\ s.roots \subseteq Nat
        /\ \A r \in s.roots : s.nodes[r] \in DOMAIN Owes
        /\ s.start = s.end
        /\ s.geometry \in {"none", "paths"}

ASSUME RequestsAssumption ==
    \A r \in Requests : r.roots \in Seq(Nat) /\ r.maxNodes \in Nat \cup {None}

ASSUME BoundsAssumption == LastVersion \in Nat /\ MaxEdits \in Nat

VARIABLES
    version,    \* of the file, now
    stored,     \* what a reader finds at the path
    edits,      \* since the last acquisition
    artifact,   \* the projection the consumer has read
    ledger,     \* [hash, entries], and what its author had read; or NoFile
    held,       \* check-obligations has read this far: the projection it made
    verdict     \* what a command has just said: its exit code, or None

vars == <<version, stored, edits, artifact, ledger, held, verdict>>

Elements(s) == {s[k] : k \in DOMAIN s}

(* Slip: the budget is compared after a node is added.                     *)
OneMoreThan(S, n) == {x \in S : Cardinality({y \in S : y < x}) <= n}

(* The n that come first: what the budget of a slice leaves.               *)
Least(S, n) == {x \in S : Cardinality({y \in S : y < x}) < n}

-----------------------------------------------------------------------------
(* acquireSnapshot and snapshotToStored.                                   *)
PartDigest(kind, entries) == [kind |-> kind, entries |-> entries]

(* Slip: the same design taken twice has two names.                        *)
DatedId(s, nodeDigest, styleDigest) ==
    [ fileKey |-> s.fileKey, roots |-> s.roots, geometry |-> s.geometry, version |-> s.start,
      adapter |-> s.adapter, nodes |-> nodeDigest, styles |-> styleDigest, at |-> s.acquiredAt ]

SnapshotId(s, nodeDigest, styleDigest) ==
    [ fileKey |-> s.fileKey, roots |-> s.roots, geometry |-> s.geometry, version |-> s.start,
      adapter |-> s.adapter, nodes |-> nodeDigest, styles |-> styleDigest ]

IdOf(s) == SnapshotId(s, PartDigest("nodes", s.nodes), PartDigest("styles", s.styles))

SnapshotToStored(s) ==
    [ schema      |-> s.schema,
      idSchema    |-> s.schema,
      fileKey     |-> s.fileKey,
      roots       |-> s.roots,
      geometry    |-> s.geometry,
      start       |-> s.start,
      end         |-> s.end,
      adapter     |-> s.adapter,
      acquiredAt  |-> s.acquiredAt,
      nodes       |-> s.nodes,
      styles      |-> s.styles,
      nodeDigest  |-> PartDigest("nodes", s.nodes),
      styleDigest |-> PartDigest("styles", s.styles),
      snapshotId  |-> IdOf(s) ]

(* Slip: the styles are taken on trust.                                    *)
NodesMatchTheirDigest(s) ==
    /\ s \notin {NoFile, Torn}
    /\ s.schema = Current /\ s.idSchema = s.schema
    /\ s.nodeDigest = PartDigest("nodes", s.nodes)
    /\ s.geometry \in {"none", "paths"}
    /\ s.start = s.end
    /\ DOMAIN s.nodes = s.roots
    /\ s.snapshotId = SnapshotId(s, s.nodeDigest, s.styleDigest)

(* Slip: the id is not computed again.                                     *)
PartsMatchTheirDigests(s) ==
    /\ s \notin {NoFile, Torn}
    /\ s.schema = Current /\ s.idSchema = s.schema
    /\ s.nodeDigest = PartDigest("nodes", s.nodes)
    /\ s.styleDigest = PartDigest("styles", s.styles)
    /\ s.geometry \in {"none", "paths"}
    /\ s.start = s.end
    /\ DOMAIN s.nodes = s.roots

(* storedToSnapshot: what of it is believed, and what computed again.      *)
Readable(s) ==
    /\ s \notin {NoFile, Torn}
    /\ s.schema = Current /\ s.idSchema = s.schema
    /\ s.nodeDigest = PartDigest("nodes", s.nodes)
    /\ s.styleDigest = PartDigest("styles", s.styles)
    /\ s.geometry \in {"none", "paths"}
    /\ s.start = s.end
    /\ DOMAIN s.nodes = s.roots
    /\ s.snapshotId = SnapshotId(s, s.nodeDigest, s.styleDigest)

-----------------------------------------------------------------------------
(* projectWeb: the request as it is hashed.                                *)
DefaultBudget == 2000

Normalized(r) ==
    [ roots    |-> Elements(r.roots),
      maxNodes |-> IF r.maxNodes = None THEN DefaultBudget ELSE r.maxNodes ]

(* cutSlice refuses other requests.                                        *)
Cuts(s, r) ==
    /\ r.roots # <<>>
    /\ Elements(r.roots) \subseteq DOMAIN s.nodes
    /\ \A j, k \in DOMAIN r.roots : r.roots[j] = r.roots[k] => j = k
    /\ r.maxNodes = None \/ r.maxNodes >= 1

Obligations(s, r) ==
    LET n == Normalized(r) IN
    UNION {{<<o, claim>> : claim \in Owes[s.nodes[o]]} : o \in Least(n.roots, n.maxNodes)}

Projection(s, r) ==
    [ fileKey |-> s.fileKey, sourceVersion |-> s.end, snapshotId |-> s.snapshotId,
      request |-> Normalized(r), obligations |-> Obligations(s, r),
      nodes |-> [o \in Least(Normalized(r).roots, Normalized(r).maxNodes) |-> s.nodes[o]] ]

(* projectionHash, a digest of everything else in the envelope.            *)
ProjectionHash(a) == a

-----------------------------------------------------------------------------
(* decodeConsumptionLedger                                                 *)
Decodes(l) ==
    /\ l # NoFile
    /\ \A j, k \in DOMAIN l.entries : l.entries[j].fact = l.entries[k].fact => j = k
    /\ \A k \in DOMAIN l.entries :
         /\ l.entries[k].status \in {"consumed", "not-applicable", "exception"}
         /\ l.entries[k].status = "consumed" \/ l.entries[k].reason

Accounted(l) == {l.entries[k].fact : k \in DOMAIN l.entries}

(* checkObligations and consumptionReportFails.                            *)
ReportFails(a, l) ==
    \/ a.obligations \ Accounted(l) # {}
    \/ Accounted(l) \ a.obligations # {}
    \/ \E k \in DOMAIN l.entries : l.entries[k].status = "exception"

-----------------------------------------------------------------------------
Init ==
    /\ version = 0
    /\ stored = NoFile
    /\ edits = 0
    /\ artifact = None
    /\ ledger = NoFile
    /\ held = None
    /\ verdict = None

Save ==
    /\ version < LastVersion
    /\ version' = version + 1
    /\ verdict' = None
    /\ UNCHANGED <<stored, edits, artifact, ledger, held>>

(* acquire --force: a capture of the file as it is now takes the path.     *)
Acquire ==
    /\ \E s \in Snapshots :
         /\ s.fileKey = File /\ s.schema = Current /\ s.end = version
         /\ s.acquiredAt \in Clock
         /\ stored' = SnapshotToStored(s)
    /\ edits' = 0
    /\ verdict' = None
    /\ UNCHANGED <<version, artifact, ledger, held>>

(* By hand: a field as some other snapshot has it, or half of the text.    *)
EditStored ==
    /\ stored \notin {NoFile, Torn}
    /\ edits < MaxEdits
    /\ edits' = edits + 1
    /\ \/ \E s \in Snapshots, f \in DOMAIN stored :
            stored' = [stored EXCEPT ![f] = SnapshotToStored(s)[f]]
       \/ stored' = Torn
    /\ verdict' = None
    /\ UNCHANGED <<version, artifact, ledger, held>>

(* export-projection                                                       *)
ExportProjection ==
    /\ held = None
    /\ \E r \in Requests :
         IF Readable(stored) /\ Cuts(stored, r)
         THEN artifact' = Projection(stored, r) /\ verdict' = 0
         ELSE artifact' = artifact /\ verdict' = 2
    /\ UNCHANGED <<version, stored, edits, ledger, held>>

(* The consumer accounts for the projection it has read.                   *)
WriteLedger ==
    /\ artifact # None /\ held = None
    /\ \E entries \in Answers :
         ledger' = [hash |-> ProjectionHash(artifact), entries |-> entries, read |-> artifact]
    /\ verdict' = None
    /\ UNCHANGED <<version, stored, edits, artifact, held>>

(* check-obligations makes the projection again from what is at the path.  *)
Recompute ==
    /\ held = None
    /\ \E r \in Requests :
         IF Readable(stored) /\ Cuts(stored, r)
         THEN held' = Projection(stored, r) /\ verdict' = None
         ELSE held' = None /\ verdict' = 2
    /\ UNCHANGED <<version, stored, edits, artifact, ledger>>

(* Slip: any ledger will do.                                               *)
JudgeAnyLedger ==
    /\ held # None
    /\ verdict' = IF ~Decodes(ledger) THEN 2 ELSE IF ReportFails(held, ledger) THEN 1 ELSE 0
    /\ held' = None
    /\ UNCHANGED <<version, stored, edits, artifact, ledger>>

(* check-obligations: then it reads the ledger.                            *)
Judge ==
    /\ held # None
    /\ verdict' = IF ~Decodes(ledger) \/ ledger.hash # ProjectionHash(held) THEN 2
                  ELSE IF ReportFails(held, ledger) THEN 1 ELSE 0
    /\ held' = None
    /\ UNCHANGED <<version, stored, edits, artifact, ledger>>

(* verify-fresh, with the version list-pages printed some time ago.        *)
VerifyFresh(current) ==
    /\ held = None
    /\ verdict' = IF ~Readable(stored) THEN 2 ELSE IF stored.end = current THEN 0 ELSE 1
    /\ UNCHANGED <<version, stored, edits, artifact, ledger, held>>

Next ==
    \/ Save \/ Acquire \/ EditStored
    \/ ExportProjection \/ WriteLedger \/ Recompute \/ Judge
    \/ \E v \in 0..version : VerifyFresh(v)

Spec == Init /\ [][Next]_vars
-----------------------------------------------------------------------------
(***************************************************************************)
(* Properties                                                              *)
(***************************************************************************)
Captures == {s \in Snapshots : s.fileKey = File /\ s.schema = Current}

(* What is at the path is a stored snapshot with so many changes, and a    *)
(* check in progress has a projection of an acceptable request.            *)
HandOffTypeOK ==
    /\ version \in 0..LastVersion /\ edits \in 0..MaxEdits /\ verdict \in {0, 1, 2, None}
    /\ stored \notin {NoFile, Torn} =>
         \E s \in Captures :
             Cardinality({f \in DOMAIN stored : stored[f] # SnapshotToStored(s)[f]}) <= edits
    /\ \A a \in {artifact, held} \ {None} :
         /\ DOMAIN a.nodes \subseteq a.request.roots
         /\ Cardinality(DOMAIN a.nodes) <= a.request.maxNodes

(* "The id covers the payload digests, so this catches a file whose        *)
(* digests were edited to match tampered content" (persist.ts): as long as *)
(* the id is that of a capture, a file that can be read is that capture,   *)
(* whatever else was edited.                                               *)
IdNamesTheDesign ==
    Readable(stored) =>
        \A s \in Captures :
            stored.snapshotId = IdOf(s) =>
                /\ stored.fileKey = File /\ stored.end = s.end
                /\ stored.roots = s.roots /\ stored.geometry = s.geometry
                /\ stored.nodes = s.nodes /\ stored.styles = s.styles

(* A snapshot that verify-fresh calls fresh, under the id of a capture, is *)
(* the design the file had when the consumer asked for its version.        *)
FreshMeansCurrent ==
    [][\A v \in 0..version :
         VerifyFresh(v) /\ verdict' = 0 /\ (\E s \in Captures : stored.snapshotId = IdOf(s)) =>
             \E s \in Captures : s.end = v /\ stored.nodes = s.nodes /\ stored.styles = s.styles]_vars

Answered(l, fact) ==
    \E k \in DOMAIN l.entries :
        /\ l.entries[k].fact = fact
        /\ \/ l.entries[k].status = "consumed"
           \/ l.entries[k].status = "not-applicable" /\ l.entries[k].reason

(* "A ledger for another projection is ... an answer to a different exam"  *)
(* (consume.ts): what check-obligations calls accounted was written about  *)
(* the very nodes and request that it looks at itself, however often the   *)
(* snapshot was replaced in between, and answers for everything they owe.  *)
AccountedMeansRead ==
    [][Judge /\ verdict' = 0 =>
         /\ ledger.read.nodes = held.nodes
         /\ ledger.read.request = held.request
         /\ \A o \in DOMAIN held.nodes : \A claim \in Owes[held.nodes[o]] :
              Answered(ledger, <<o, claim>>)]_vars

(* "The same design" acquired again is the same snapshot (snapshot.ts): a  *)
(* ledger that answers for all it was written about, and for no more, is   *)
(* accepted for every capture of that design and every wording of the      *)
(* request.                                                                *)
HonestLedgerPasses ==
    [][/\ Judge /\ Decodes(ledger)
       /\ ledger.read.request = held.request
       /\ \A f \in {"fileKey", "roots", "geometry", "version", "adapter", "nodes", "styles"} :
            ledger.read.snapshotId[f] = held.snapshotId[f]
       /\ \A fact \in ledger.read.obligations : Answered(ledger, fact)
       /\ Accounted(ledger) \subseteq ledger.read.obligations
       => verdict' = 0]_vars

(* Both together: check-obligations accepts a ledger if it answers for the *)
(* design and request that are asked about, and only then.                 *)
AcceptedOnItsOwnExam == AccountedMeansRead /\ HonestLedgerPasses
=============================================================================
