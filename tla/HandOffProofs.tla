---------------------------- MODULE HandOffProofs ----------------------------
(***************************************************************************)
(* Proofs about HandOff, for any file, any captures, any requests and any  *)
(* number of saves and edits.                                              *)
(*                                                                         *)
(* The argument: what check-obligations accepts depends on a projection    *)
(* only through its snapshot id and its request, because every part of a   *)
(* projection is what these two say (Faithful); and a readable snapshot is *)
(* what its id says, because the id is computed again.                     *)
(***************************************************************************)
EXTENDS HandOff, DataFacts, TLAPS

-----------------------------------------------------------------------------
(* What the id of a readable snapshot says.                                *)

(* The id is made of these fields, and two of them are digests.            *)
LEMMA IdFields ==
    ASSUME NEW s, NEW nodeDigest, NEW styleDigest
    PROVE  LET i == SnapshotId(s, nodeDigest, styleDigest) IN
           /\ i.fileKey = s.fileKey /\ i.roots = s.roots /\ i.geometry = s.geometry
           /\ i.version = s.start /\ i.adapter = s.adapter
           /\ i.nodes = nodeDigest /\ i.styles = styleDigest
BY DEF SnapshotId

(* A digest is of the entries it is computed from.                         *)
LEMMA DigestOfEntries ==
    ASSUME NEW kind, NEW entries  PROVE PartDigest(kind, entries).entries = entries
BY DEF PartDigest

(* A snapshot that can be read and has the id of a capture is that capture.*)
LEMMA ReadableIsTheCapture ==
    ASSUME Readable(stored), NEW s \in Captures, stored.snapshotId = IdOf(s)
    PROVE  /\ stored.fileKey = File /\ stored.end = s.end
           /\ stored.roots = s.roots /\ stored.geometry = s.geometry
           /\ stored.nodes = s.nodes /\ stored.styles = s.styles
<1>. DEFINE i == stored.snapshotId
<1>1. /\ i = SnapshotId(stored, stored.nodeDigest, stored.styleDigest)
      /\ stored.nodeDigest = PartDigest("nodes", stored.nodes)
      /\ stored.styleDigest = PartDigest("styles", stored.styles)
      /\ stored.start = stored.end
  BY DEF Readable
<1>2. i = SnapshotId(s, PartDigest("nodes", s.nodes), PartDigest("styles", s.styles))
  BY DEF IdOf
<1>3. s.start = s.end /\ s.fileKey = File
  BY SnapshotsAssumption DEF Captures
<1>. HIDE DEF i
<1>4. /\ i.fileKey = stored.fileKey /\ i.roots = stored.roots /\ i.geometry = stored.geometry
      /\ i.version = stored.start
      /\ i.nodes = PartDigest("nodes", stored.nodes)
      /\ i.styles = PartDigest("styles", stored.styles)
  BY <1>1, IdFields
<1>5. /\ i.fileKey = s.fileKey /\ i.roots = s.roots /\ i.geometry = s.geometry
      /\ i.version = s.start
      /\ i.nodes = PartDigest("nodes", s.nodes)
      /\ i.styles = PartDigest("styles", s.styles)
  BY <1>2, IdFields
<1>6. stored.nodes = s.nodes /\ stored.styles = s.styles
  BY <1>4, <1>5, DigestOfEntries
<1>. QED  BY <1>1, <1>3, <1>4, <1>5, <1>6

(* storedToSnapshot: while the id is that of a capture, a snapshot that    *)
(* can be read is that capture in every part.  It needs no history: what   *)
(* the reader checks is enough by itself, whoever wrote the file.          *)
THEOREM IdNames == Spec => []IdNamesTheDesign
<1>1. IdNamesTheDesign
  BY ReadableIsTheCapture DEF IdNamesTheDesign
<1>. QED  BY <1>1, PTL

(* verify-fresh: "fresh" is said only of the design that the file had when *)
(* its version was asked for.                                              *)
THEOREM FreshIsCurrent == Spec => FreshMeansCurrent
<1>1. ASSUME NEW v \in 0..version, VerifyFresh(v), verdict' = 0,
             NEW s \in Captures, stored.snapshotId = IdOf(s)
      PROVE  \E t \in Captures : t.end = v /\ stored.nodes = t.nodes /\ stored.styles = t.styles
  <2>1. Readable(stored) /\ stored.end = v
    BY <1>1 DEF VerifyFresh
  <2>. QED  BY <1>1, <2>1, ReadableIsTheCapture
<1>2. \A v \in 0..version :
        VerifyFresh(v) /\ verdict' = 0 /\ (\E s \in Captures : stored.snapshotId = IdOf(s)) =>
            \E s \in Captures : s.end = v /\ stored.nodes = s.nodes /\ stored.styles = s.styles
  BY <1>1
<1>. QED  BY <1>2, PTL DEF FreshMeansCurrent

-----------------------------------------------------------------------------
(* What a projection is made of.                                           *)

(* cutSlice: as many roots as the budget allows, and no more.              *)
LEMMA LeastIsFew ==
    ASSUME NEW S, S \subseteq Nat, IsFiniteSet(S), NEW n \in Nat
    PROVE  Least(S, n) \subseteq S /\ Cardinality(Least(S, n)) <= n
<1>. DEFINE L == Least(S, n)
            below(x) == {y \in S : y < x}
<1>1. L \subseteq S /\ \A x \in L : Cardinality(below(x)) < n
  BY DEF Least
<1>2. IsFiniteSet(L)
  BY <1>1, FS_Subset
<1>. HIDE DEF L
<1>3. ASSUME L = {}  PROVE Cardinality(L) <= n
  BY <1>3, FS_EmptySet
<1>4. ASSUME L # {}  PROVE Cardinality(L) <= n
  <2>1. PICK m \in L : \A k \in L : k <= m
    <3>1. L \subseteq Int
      BY <1>1
    <3>. QED  BY <1>2, <1>4, <3>1, GreatestInteger
  <2>2. m \in Nat /\ \A k \in L : k \in Nat
    BY <1>1
  <2>3. L \subseteq below(m) \cup {m}
    <3>1. ASSUME NEW k \in L, k # m  PROVE k < m
      BY <2>1, <2>2, <3>1
    <3>. QED  BY <1>1, <3>1
  <2>4. IsFiniteSet(below(m)) /\ m \notin below(m)
    BY <2>2, FS_Subset
  <2>5. /\ IsFiniteSet(below(m) \cup {m})
        /\ Cardinality(below(m) \cup {m}) = Cardinality(below(m)) + 1
    BY <2>4, FS_AddElement
  <2>6. Cardinality(L) <= Cardinality(below(m) \cup {m})
    BY <2>3, <2>5, FS_Subset
  <2>7. Cardinality(below(m)) \in Nat /\ Cardinality(L) \in Nat
    BY <1>2, <2>4, FS_CardinalityType
  <2>. QED  BY <1>1, <2>1, <2>5, <2>6, <2>7
<1>. QED  BY <1>1, <1>3, <1>4 DEF L

(* The request as it is hashed: a finite set of roots and a number.        *)
LEMMA NormalizedType ==
    ASSUME NEW r \in Requests
    PROVE  LET n == Normalized(r) IN
           n.roots \subseteq Nat /\ IsFiniteSet(n.roots) /\ n.maxNodes \in Nat
<1>1. r.roots \in Seq(Nat) /\ r.maxNodes \in Nat \cup {None}
  BY RequestsAssumption
<1>2. Normalized(r).maxNodes \in Nat
  BY <1>1 DEF Normalized, DefaultBudget
<1>3. Elements(r.roots) \subseteq Nat
  BY <1>1 DEF Elements
<1>4. IsFiniteSet(Elements(r.roots))
  <2>1. Len(r.roots) \in Nat /\ DOMAIN r.roots = 1..Len(r.roots)
    BY <1>1
  <2>3. IsFiniteSet(1..Len(r.roots))
    BY <2>1, FS_Interval
  <2>. DEFINE f == [k \in 1..Len(r.roots) |-> r.roots[k]]
  <2>2. f \in Surjection(1..Len(r.roots), Elements(r.roots))
    BY <2>1 DEF Surjection, Elements
  <2>. QED  BY <2>2, <2>3, FS_Surjection
<1>. QED  BY <1>2, <1>3, <1>4 DEF Normalized

(* A projection shows some of the requested roots, within the budget.      *)
Limited(a) ==
    /\ DOMAIN a.nodes \subseteq a.request.roots
    /\ Cardinality(DOMAIN a.nodes) <= a.request.maxNodes

(* What a node of the projection owes, and that the id and the request     *)
(* decide everything else in it.                                           *)
Faithful(a) ==
    /\ a = [ fileKey |-> a.fileKey, sourceVersion |-> a.sourceVersion, snapshotId |-> a.snapshotId,
             request |-> a.request, obligations |-> a.obligations, nodes |-> a.nodes ]
    /\ a.snapshotId =
         [ fileKey |-> a.snapshotId.fileKey, roots |-> a.snapshotId.roots,
           geometry |-> a.snapshotId.geometry, version |-> a.snapshotId.version,
           adapter |-> a.snapshotId.adapter, nodes |-> a.snapshotId.nodes,
           styles |-> a.snapshotId.styles ]
    /\ a.fileKey = a.snapshotId.fileKey /\ a.sourceVersion = a.snapshotId.version
    /\ a.nodes = [o \in Least(a.request.roots, a.request.maxNodes) |-> a.snapshotId.nodes.entries[o]]
    /\ a.obligations = UNION {{<<o, claim>> : claim \in Owes[a.nodes[o]]} : o \in DOMAIN a.nodes}

(* projectWeb of a readable snapshot.                                      *)
LEMMA ProjectionIsFaithful ==
    ASSUME NEW s, Readable(s), NEW r \in Requests
    PROVE  Limited(Projection(s, r)) /\ Faithful(Projection(s, r))
<1>. DEFINE a == Projection(s, r)
            n == Normalized(r)
            L == Least(n.roots, n.maxNodes)
<1>1. /\ a.fileKey = s.fileKey /\ a.sourceVersion = s.end /\ a.snapshotId = s.snapshotId
      /\ a.request = n /\ a.obligations = Obligations(s, r)
      /\ a.nodes = [o \in L |-> s.nodes[o]]
      /\ DOMAIN a.nodes = L
      /\ a = [ fileKey |-> a.fileKey, sourceVersion |-> a.sourceVersion, snapshotId |-> a.snapshotId,
               request |-> a.request, obligations |-> a.obligations, nodes |-> a.nodes ]
  BY DEF Projection
<1>2. /\ s.start = s.end
      /\ s.snapshotId = SnapshotId(s, s.nodeDigest, s.styleDigest)
      /\ s.nodeDigest.entries = s.nodes
  BY DigestOfEntries DEF Readable
<1>3. /\ s.snapshotId = [ fileKey |-> s.fileKey, roots |-> s.roots, geometry |-> s.geometry,
                          version |-> s.start, adapter |-> s.adapter,
                          nodes |-> s.nodeDigest, styles |-> s.styleDigest ]
      /\ s.snapshotId.fileKey = s.fileKey /\ s.snapshotId.version = s.end
      /\ s.snapshotId.nodes.entries = s.nodes
  BY <1>2 DEF SnapshotId
<1>4. Obligations(s, r) = UNION {{<<o, claim>> : claim \in Owes[a.nodes[o]]} : o \in DOMAIN a.nodes}
  BY <1>1 DEF Obligations
<1>. HIDE DEF a, n, L
<1>5. Limited(a)
  BY <1>1, NormalizedType, LeastIsFew DEF Limited, n, L
<1>6. Faithful(a)
  BY <1>1, <1>3, <1>4 DEF Faithful, L
<1>. QED  BY <1>5, <1>6 DEF a

-----------------------------------------------------------------------------
(***************************************************************************)
(* The inductive invariant.  What is at the path differs from a capture in *)
(* as many fields as were edited; whatever the consumer has read, and what *)
(* its ledger was written about, is a projection.                          *)
(***************************************************************************)
Fields ==
    { "schema", "idSchema", "fileKey", "roots", "geometry", "start", "end", "adapter",
      "acquiredAt", "nodes", "styles", "nodeDigest", "styleDigest", "snapshotId" }

Changed(s) == {f \in DOMAIN stored : stored[f] # SnapshotToStored(s)[f]}

StoredOK ==
    stored \notin {NoFile, Torn} =>
        /\ DOMAIN stored = Fields
        /\ \E s \in Captures : Cardinality(Changed(s)) <= edits

HandOffInv ==
    /\ version \in 0..LastVersion /\ edits \in 0..MaxEdits /\ verdict \in {0, 1, 2, None}
    /\ StoredOK
    /\ \A a \in {artifact, held} \ {None} : Limited(a) /\ Faithful(a)
    /\ ledger # NoFile => ledger.hash = ledger.read /\ Faithful(ledger.read)

LEMMA StoredFields == \A s : DOMAIN SnapshotToStored(s) = Fields
BY DEF SnapshotToStored, Fields

LEMMA FieldsAreFinite == IsFiniteSet(Fields)
<1>. DEFINE f == << "schema", "idSchema", "fileKey", "roots", "geometry", "start", "end", "adapter",
                    "acquiredAt", "nodes", "styles", "nodeDigest", "styleDigest", "snapshotId" >>
<1>1. IsFiniteSet(1..14)
  <2>1. \A k : k \in Int => IsFiniteSet(1..k)
    BY FS_Interval
  <2>2. 14 \in Int
    OBVIOUS
  <2>. QED  BY <2>1, <2>2, Zenon
<1>2. f \in Surjection(1..14, Fields)
  <2>1. f \in [1..14 -> Fields]
    BY DEF Fields
  <2>2. \A x \in Fields : \E k \in 1..14 : f[k] = x
    BY DEF Fields
  <2>. QED  BY <2>1, <2>2 DEF Surjection
<1>. QED  BY <1>1, <1>2, FS_Surjection

(* One more field by hand is one more difference at most.                  *)
LEMMA EditChangesOneField ==
    ASSUME NEW s, NEW f \in Fields, NEW v, DOMAIN stored = Fields,
           stored' = [stored EXCEPT ![f] = v],
           NEW n \in Nat, Cardinality(Changed(s)) <= n
    PROVE  DOMAIN stored' = Fields /\ Cardinality(Changed(s)') <= n + 1
<1>1. DOMAIN stored' = Fields /\ \A g \in Fields : g # f => stored'[g] = stored[g]
  OBVIOUS
<1>2. Changed(s)' \subseteq Changed(s) \cup {f}
  BY <1>1 DEF Changed
<1>3. IsFiniteSet(Changed(s))
  BY FieldsAreFinite, FS_Subset DEF Changed
<1>4. /\ IsFiniteSet(Changed(s) \cup {f})
      /\ Cardinality(Changed(s) \cup {f}) <= Cardinality(Changed(s)) + 1
      /\ Cardinality(Changed(s)) \in Nat
      /\ Cardinality(Changed(s) \cup {f}) \in Nat
  <2>1. Cardinality(Changed(s)) \in Nat
    BY <1>3, FS_CardinalityType
  <2>2. IsFiniteSet(Changed(s) \cup {f})
    BY <1>3, FS_AddElement
  <2>3. Cardinality(Changed(s) \cup {f}) =
          IF f \in Changed(s) THEN Cardinality(Changed(s)) ELSE Cardinality(Changed(s)) + 1
    BY <1>3, FS_AddElement
  <2>. QED  BY <2>1, <2>2, <2>3
<1>5. /\ Cardinality(Changed(s)') <= Cardinality(Changed(s) \cup {f})
      /\ Cardinality(Changed(s)') \in Nat
  BY <1>2, <1>4, FS_Subset, FS_CardinalityType
<1>. QED  BY <1>1, <1>4, <1>5

LEMMA HandOffStart == Init => HandOffInv
BY BoundsAssumption DEF Init, HandOffInv, StoredOK

LEMMA HandOffStep == HandOffInv /\ [Next]_vars => HandOffInv'
<1>. SUFFICES ASSUME HandOffInv, [Next]_vars  PROVE HandOffInv'
  OBVIOUS
<1>. USE DEF HandOffInv
<1>1. CASE Save
  BY <1>1, BoundsAssumption DEF Save, StoredOK, Changed
<1>2. CASE Acquire
  <2>1. PICK s \in Snapshots : /\ s.fileKey = File /\ s.schema = Current
                               /\ stored' = SnapshotToStored(s)
    BY <1>2 DEF Acquire
  <2>2. s \in Captures /\ DOMAIN stored' = Fields /\ edits' = 0
    BY <1>2, <2>1, StoredFields DEF Captures, Acquire
  <2>3. Changed(s)' = {}
    BY <2>1 DEF Changed
  <2>4. Cardinality(Changed(s)') <= edits'
    BY <2>2, <2>3, FS_EmptySet
  <2>5. StoredOK'
    BY <2>2, <2>4 DEF StoredOK, Captures
  <2>. QED  BY <1>2, <2>5, BoundsAssumption DEF Acquire
<1>3. CASE EditStored
  <2>1. /\ stored \notin {NoFile, Torn} /\ edits < MaxEdits /\ edits' = edits + 1
        /\ verdict' = None /\ UNCHANGED <<version, artifact, ledger, held>>
        /\ \/ \E s \in Snapshots, f \in DOMAIN stored :
                  stored' = [stored EXCEPT ![f] = SnapshotToStored(s)[f]]
           \/ stored' = Torn
    BY <1>3 DEF EditStored
  <2>2. edits \in Nat /\ edits' \in 0..MaxEdits
    BY <2>1, BoundsAssumption
  <2>3. CASE stored' = Torn
    BY <2>1, <2>2, <2>3 DEF StoredOK
  <2>4. CASE \E s \in Snapshots, f \in DOMAIN stored :
                stored' = [stored EXCEPT ![f] = SnapshotToStored(s)[f]]
    <3>1. PICK s \in Captures : DOMAIN stored = Fields /\ Cardinality(Changed(s)) <= edits
      BY <2>1 DEF StoredOK
    <3>2. PICK other \in Snapshots, f \in Fields :
             stored' = [stored EXCEPT ![f] = SnapshotToStored(other)[f]]
      BY <2>4, <3>1
    <3>3. DOMAIN stored' = Fields /\ Cardinality(Changed(s)') <= edits + 1
      BY <2>2, <3>1, <3>2, EditChangesOneField
    <3>4. StoredOK'
      BY <2>1, <3>1, <3>3 DEF StoredOK, Captures
    <3>. QED  BY <2>1, <2>2, <3>4
  <2>. QED  BY <2>1, <2>3, <2>4
<1>4. CASE ExportProjection
  <2>1. PICK r \in Requests :
          IF Readable(stored) /\ Cuts(stored, r)
          THEN artifact' = Projection(stored, r) /\ verdict' = 0
          ELSE artifact' = artifact /\ verdict' = 2
    BY <1>4 DEF ExportProjection
  <2>2. \A a \in {artifact'} \ {None} : Limited(a) /\ Faithful(a)
    BY <2>1, ProjectionIsFaithful
  <2>. QED  BY <1>4, <2>1, <2>2 DEF ExportProjection, StoredOK, Changed
<1>5. CASE WriteLedger
  <2>1. ledger'.hash = ledger'.read /\ Faithful(ledger'.read)
    BY <1>5 DEF WriteLedger, ProjectionHash
  <2>. QED  BY <1>5, <2>1 DEF WriteLedger, StoredOK, Changed
<1>6. CASE Recompute
  <2>1. PICK r \in Requests :
          IF Readable(stored) /\ Cuts(stored, r)
          THEN held' = Projection(stored, r) /\ verdict' = None
          ELSE held' = None /\ verdict' = 2
    BY <1>6 DEF Recompute
  <2>2. \A a \in {held'} \ {None} : Limited(a) /\ Faithful(a)
    BY <2>1, ProjectionIsFaithful
  <2>. QED  BY <1>6, <2>1, <2>2 DEF Recompute, StoredOK, Changed
<1>7. CASE Judge
  BY <1>7 DEF Judge, StoredOK, Changed
<1>8. ASSUME NEW v \in 0..version, VerifyFresh(v)  PROVE HandOffInv'
  BY <1>8 DEF VerifyFresh, StoredOK, Changed
<1>9. CASE UNCHANGED vars
  BY <1>9 DEF vars, StoredOK, Changed
<1>. QED  BY <1>1, <1>2, <1>3, <1>4, <1>5, <1>6, <1>7, <1>8, <1>9 DEF Next

LEMMA HandOffInvariant == Spec => []HandOffInv
BY HandOffStart, HandOffStep, PTL DEF Spec

(* The stored snapshot, the versions and what was projected.               *)
THEOREM HandOffTypes == Spec => []HandOffTypeOK
<1>1. HandOffInv => HandOffTypeOK
  BY DEF HandOffInv, HandOffTypeOK, StoredOK, Changed, Limited
<1>. QED  BY <1>1, HandOffInvariant, PTL

-----------------------------------------------------------------------------
(* What check-obligations accepts.                                         *)

(* Two projections with equal ids and requests are equal.                  *)
LEMMA IdAndRequestDecide ==
    ASSUME NEW a, NEW b, Faithful(a), Faithful(b), a.request = b.request,
           \A f \in {"fileKey", "roots", "geometry", "version", "adapter", "nodes", "styles"} :
              a.snapshotId[f] = b.snapshotId[f]
    PROVE  a = b
<1>1. a.snapshotId = b.snapshotId
  <2>1. /\ a.snapshotId.fileKey = b.snapshotId.fileKey /\ a.snapshotId.roots = b.snapshotId.roots
        /\ a.snapshotId.geometry = b.snapshotId.geometry
        /\ a.snapshotId.version = b.snapshotId.version
        /\ a.snapshotId.adapter = b.snapshotId.adapter
        /\ a.snapshotId.nodes = b.snapshotId.nodes /\ a.snapshotId.styles = b.snapshotId.styles
    OBVIOUS
  <2>. QED  BY <2>1 DEF Faithful
<1>2. a.nodes = b.nodes
  BY <1>1 DEF Faithful
<1>3. a.obligations = b.obligations
  BY <1>2 DEF Faithful
<1>4. a.fileKey = b.fileKey /\ a.sourceVersion = b.sourceVersion
  BY <1>1 DEF Faithful
<1>. QED  BY <1>1, <1>2, <1>3, <1>4 DEF Faithful

(* A ledger that passes answers, without an exception, whatever is owed.   *)
LEMMA PassingAnswersAll ==
    ASSUME NEW a, NEW l, Decodes(l), ~ReportFails(a, l), NEW fact \in a.obligations
    PROVE  Answered(l, fact)
<1>1. fact \in Accounted(l)
  BY DEF ReportFails
<1>2. PICK k \in DOMAIN l.entries : l.entries[k].fact = fact
  BY <1>1 DEF Accounted
<1>3. /\ l.entries[k].status \in {"consumed", "not-applicable", "exception"}
      /\ l.entries[k].status = "consumed" \/ l.entries[k].reason
      /\ l.entries[k].status # "exception"
  BY <1>2 DEF Decodes, ReportFails
<1>. QED  BY <1>2, <1>3 DEF Answered

(* A ledger that answers for all that is owed, and for no more, passes.    *)
LEMMA AnsweringAllPasses ==
    ASSUME NEW a, NEW l, Decodes(l), Accounted(l) \subseteq a.obligations,
           \A fact \in a.obligations : Answered(l, fact)
    PROVE  ~ReportFails(a, l)
<1>1. a.obligations \ Accounted(l) = {}
  BY DEF Answered, Accounted
<1>2. Accounted(l) \ a.obligations = {}
  OBVIOUS
<1>3. ASSUME NEW k \in DOMAIN l.entries, l.entries[k].status = "exception"  PROVE FALSE
  <2>1. l.entries[k].fact \in a.obligations
    BY DEF Accounted
  <2>2. PICK j \in DOMAIN l.entries :
          l.entries[j].fact = l.entries[k].fact /\ l.entries[j].status # "exception"
    BY <2>1 DEF Answered
  <2>. QED  BY <1>3, <2>2 DEF Decodes
<1>. QED  BY <1>1, <1>2, <1>3 DEF ReportFails

(* What is accepted was written about the projection that is judged.       *)
LEMMA AcceptedIsRead ==
    ASSUME HandOffInv, Judge, verdict' = 0
    PROVE  /\ ledger.read = held
           /\ \A o \in DOMAIN held.nodes : \A claim \in Owes[held.nodes[o]] :
                Answered(ledger, <<o, claim>>)
<1>1. /\ held # None /\ Decodes(ledger) /\ ledger.hash = ProjectionHash(held)
      /\ ~ReportFails(held, ledger)
  BY DEF Judge
<1>2. ledger.hash = ledger.read /\ Faithful(held)
  BY <1>1 DEF HandOffInv, Decodes
<1>3. ASSUME NEW o \in DOMAIN held.nodes, NEW claim \in Owes[held.nodes[o]]
      PROVE  Answered(ledger, <<o, claim>>)
  <2>1. <<o, claim>> \in held.obligations
    BY <1>2 DEF Faithful
  <2>. QED  BY <1>1, <2>1, PassingAnswersAll
<1>. QED  BY <1>1, <1>2, <1>3 DEF ProjectionHash

(* An honest ledger about the same design and request is accepted.         *)
LEMMA HonestIsAccepted ==
    ASSUME HandOffInv, Judge, Decodes(ledger), ledger.read.request = held.request,
           \A f \in {"fileKey", "roots", "geometry", "version", "adapter", "nodes", "styles"} :
              ledger.read.snapshotId[f] = held.snapshotId[f],
           \A fact \in ledger.read.obligations : Answered(ledger, fact),
           Accounted(ledger) \subseteq ledger.read.obligations
    PROVE  verdict' = 0
<1>1. held # None /\ ledger.hash = ledger.read /\ Faithful(held) /\ Faithful(ledger.read)
  BY DEF HandOffInv, Decodes, Judge
<1>2. ledger.read = held
  BY <1>1, IdAndRequestDecide
<1>3. ~ReportFails(held, ledger) /\ ledger.hash = ProjectionHash(held)
  BY <1>1, <1>2, AnsweringAllPasses DEF ProjectionHash
<1>. QED  BY <1>3 DEF Judge

(* checkObligations: a ledger is accepted if it answers for the design and *)
(* the request that are asked about, and only then.                        *)
THEOREM AcceptedExactly == Spec => AcceptedOnItsOwnExam
<1>1. HandOffInv =>
        (Judge /\ verdict' = 0 =>
            /\ ledger.read.nodes = held.nodes
            /\ ledger.read.request = held.request
            /\ \A o \in DOMAIN held.nodes : \A claim \in Owes[held.nodes[o]] :
                 Answered(ledger, <<o, claim>>))
  BY AcceptedIsRead
<1>2. HandOffInv =>
        (/\ Judge /\ Decodes(ledger)
         /\ ledger.read.request = held.request
         /\ \A f \in {"fileKey", "roots", "geometry", "version", "adapter", "nodes", "styles"} :
              ledger.read.snapshotId[f] = held.snapshotId[f]
         /\ \A fact \in ledger.read.obligations : Answered(ledger, fact)
         /\ Accounted(ledger) \subseteq ledger.read.obligations
         => verdict' = 0)
  BY HonestIsAccepted
<1>. QED  BY <1>1, <1>2, HandOffInvariant, PTL
          DEF AcceptedOnItsOwnExam, AccountedMeansRead, HonestLedgerPasses
=============================================================================
