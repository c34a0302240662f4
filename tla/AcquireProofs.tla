---------------------------- MODULE AcquireProofs ----------------------------
(***************************************************************************)
(* Proofs about Acquire, for any number of invocations, paths, roots and   *)
(* versions, which may run beside each other as they like.  First that     *)
(* every snapshot is one version of the file; then what an invocation that *)
(* is alone at its path can rely on, and what is left to those that meet.  *)
(***************************************************************************)
EXTENDS Acquire, TLAPS

(* The assumptions about the constants, as one fact to cite.               *)
Constants ==
    /\ Out \in [Procs -> Paths]
    /\ Requests \subseteq (SUBSET Roots) \ {{}}
    /\ Designs # {} /\ \A d \in Designs : DOMAIN d = Roots
    /\ Faults \cap Contents = {}
    /\ NoFile \notin Inodes \cup Snapshots \cup {Torn}
    /\ MaxVersion \in Nat
    /\ Torn \notin Snapshots

LEMMA ConstantsHold == Constants
BY OutAssumption, RequestsAssumption, DesignsAssumption, FaultsAssumption,
   NoFileAssumption, MaxVersionAssumption, TornAssumption
   DEF Constants

(* Every content of a design is a content.                                 *)
LEMMA DesignContents == \A d \in Designs : \A r \in Roots : d[r] \in Contents
<1>. SUFFICES ASSUME NEW d \in Designs, NEW r \in Roots  PROVE d[r] \in Contents
  OBVIOUS
<1>1. d[r] \in {d[q] : q \in Roots}
  OBVIOUS
<1>2. {d[q] : q \in Roots} \in {{e[q] : q \in Roots} : e \in Designs}
  OBVIOUS
<1>. QED  BY <1>1, <1>2 DEF Contents

(* A record with a request's roots is a snapshot.                          *)
LEMMA SnapshotType ==
    ASSUME NEW v \in Versions, NEW S \in Requests, NEW f \in [S -> Contents \cup Faults]
    PROVE  [version |-> v, nodes |-> f] \in Snapshots
<1>1. [version |-> v, nodes |-> f] \in [version : Versions, nodes : [S -> Contents \cup Faults]]
  OBVIOUS
<1>. QED  BY <1>1 DEF Snapshots

(* What a snapshot is made of.                                             *)
LEMMA SnapshotParts ==
    ASSUME NEW s \in Snapshots
    PROVE  /\ s.version \in Versions
           /\ \E S \in Requests :
                s.nodes \in [S -> Contents \cup Faults]
                /\ s = [version |-> s.version, nodes |-> s.nodes]
<1>1. PICK S \in Requests : s \in [version : Versions, nodes : [S -> Contents \cup Faults]]
  BY DEF Snapshots
<1>. QED  BY <1>1

(***************************************************************************)
(* The inductive invariant behind OneVersion.  While the nodes response is *)
(* being filled in, as long as no save has happened since the first read   *)
(* of the version, every entry is the one of that version.                 *)
(***************************************************************************)
Reading ==
    \A p \in Procs :
      /\ before[p] <= version
      /\ Running(p) => want[p] \in Requests
      /\ pc[p] \in {"idle", "meta"} => served[p] = {}
      /\ pc[p] = "nodes" /\ before[p] = version
            => \A r \in served[p] : resp[p][r] \in Faults \cup {history[version][r]}

Opened == \A p \in Procs : pc[p] = "write" => fd[p] \in Inodes

CaptureInv == TypeOK /\ Reading /\ Opened /\ OneVersion

-----------------------------------------------------------------------------
(* It holds at the start: what is on disk then shows version 0.            *)
LEMMA CaptureInit == Init => CaptureInv
<1>. SUFFICES ASSUME Init  PROVE CaptureInv
  OBVIOUS
<1>. USE ConstantsHold DEF Constants
<1>1. PICK S \in Requests :
        /\ \A x \in Paths : dest[x] # NoFile => \A r \in S : history[0][r] # Absent
        /\ content = [i \in Inodes |->
                        IF \E x \in Paths : dest[x] = i THEN Capture(history, 0, S) ELSE Torn]
  BY DEF Init
<1>2. history \in [Versions -> Designs] /\ 0 \in Versions
  BY DEF Init, Versions
<1>3. \A r \in Roots : history[0][r] \in Contents
  BY <1>2, DesignContents
<1>4. Capture(history, 0, S) \in Snapshots
  <2>1. [r \in S |-> history[0][r]] \in [S -> Contents \cup Faults]
    BY <1>3
  <2>. QED  BY <2>1, <1>2, SnapshotType DEF Capture
<1>5. \A i \in Inodes : content[i] # Torn =>
        content[i] = Capture(history, 0, S) /\ \A r \in S : history[0][r] # Absent
  BY <1>1
<1>6. TypeOK
  <2>1. content \in [Inodes -> Snapshots \cup {Torn}]
    BY <1>1, <1>4
  <2>2. resp \in [Procs -> [Roots -> Contents \cup Faults]]
    BY DEF Init, Contents
  <2>3. dest \in [Paths -> Inodes \cup {NoFile}]
    BY DEF Init
  <2>. QED  BY <1>2, <2>1, <2>2, <2>3 DEF Init, TypeOK, Stages, Versions
<1>7. Reading /\ Opened
  BY DEF Init, Reading, Opened, Running
<1>8. OneVersion
  BY <1>5 DEF OneVersion, IsCapture, Capture, Init
<1>. QED  BY <1>6, <1>7, <1>8 DEF CaptureInv

(* A snapshot that was a capture stays one: no saved version changes.      *)
LEMMA CaptureStays ==
    ASSUME CaptureInv, Save, NEW s \in Snapshots, IsCapture(s)
    PROVE  IsCapture(s)'
<1>1. s.version \in Versions /\ version \in Versions /\ s.version <= version
  BY SnapshotParts DEF CaptureInv, TypeOK, IsCapture
<1>2. version' = version + 1 /\ history'[s.version] = history[s.version]
  BY <1>1, MaxVersionAssumption DEF Save, CaptureInv, TypeOK, Versions
<1>. QED  BY <1>1, <1>2, MaxVersionAssumption DEF IsCapture, Versions

-----------------------------------------------------------------------------
(* What a start does to the state.                                         *)
LEMMA StartEffect ==
    ASSUME NEW p \in Procs, NEW S \in Requests, NEW f \in BOOLEAN, Start(p, S, f)
    PROVE  /\ pc[p] = "idle"
           /\ force' = [force EXCEPT ![p] = f] /\ want' = [want EXCEPT ![p] = S]
           /\ \/ pc' = [pc EXCEPT ![p] = "exit2"] /\ beside' = beside
              \/ pc' = [pc EXCEPT ![p] = "meta"] /\ Join(p) /\ (dest[Out[p]] = NoFile \/ f)
           /\ UNCHANGED <<version, history, before, resp, served, held, fd, dest, partial, content>>
BY DEF Start, Goto, designVars, netVars, fileVars

(* Types.                                                                  *)
LEMMA TypeStep == CaptureInv /\ [Next]_vars => TypeOK'
<1>. SUFFICES ASSUME CaptureInv, [Next]_vars  PROVE TypeOK'
  OBVIOUS
<1>. USE ConstantsHold DEF Constants, CaptureInv, TypeOK, Stages, Goto, designVars, netVars, fileVars
<1>1. CASE Save
  BY <1>1 DEF Save, Versions
<1>2. ASSUME NEW p \in Procs, NEW S \in Requests, NEW f \in BOOLEAN, Start(p, S, f)
      PROVE  TypeOK'
  <2>1. Join(p) => beside' \in [Procs -> SUBSET Procs]
    <3>1. Others(p) \subseteq Procs
      BY DEF Others
    <3>2. \A q \in Procs : beside[q] \subseteq Procs
      OBVIOUS
    <3>. HIDE DEF CaptureInv, TypeOK, Constants
    <3>. QED  BY <3>1, <3>2 DEF Join
  <2>2. beside' \in [Procs -> SUBSET Procs]
    BY <1>2, <2>1, StartEffect
  <2>3. \E stage \in {"exit2", "meta"} : pc' = [pc EXCEPT ![p] = stage]
    BY <1>2, StartEffect
  <2>4. /\ force' = [force EXCEPT ![p] = f] /\ want' = [want EXCEPT ![p] = S]
        /\ UNCHANGED <<version, history, before, resp, served, held, fd, dest, partial, content>>
    BY <1>2, StartEffect
  <2>. QED  BY <2>2, <2>3, <2>4
<1>3. ASSUME NEW p \in Procs, RefuseArguments(p)  PROVE TypeOK'
  BY <1>3 DEF RefuseArguments
<1>4. ASSUME NEW p \in Procs, ReadBefore(p)  PROVE TypeOK'
  BY <1>4 DEF ReadBefore
<1>5. ASSUME NEW p \in Procs, NEW r \in Roots, ServeRoot(p, r)  PROVE TypeOK'
  <2>1. history[version][r] \in Contents
    BY DesignContents
  <2>. QED  BY <1>5, <2>1 DEF ServeRoot
<1>6. ASSUME NEW p \in Procs, AcceptResponse(p)  PROVE TypeOK'
  <2>1. want[p] \in Requests
    BY <1>6 DEF AcceptResponse, Reading, Running, Terminal
  <2>2. [r \in want[p] |-> resp[p][r]] \in [want[p] -> Contents \cup Faults]
    BY <2>1
  <2>3. [version |-> before[p], nodes |-> [r \in want[p] |-> resp[p][r]]] \in Snapshots
    BY <2>1, <2>2, SnapshotType
  <2>. QED  BY <1>6, <2>3 DEF AcceptResponse
<1>7. ASSUME NEW p \in Procs, RefuseResponse(p) \/ RequestFails(p)  PROVE TypeOK'
  <2>1. CASE RefuseResponse(p)
    BY <2>1 DEF RefuseResponse
  <2>2. CASE RequestFails(p)
    BY <2>2 DEF RequestFails
  <2>. QED  BY <1>7, <2>1, <2>2
<1>8. ASSUME NEW p \in Procs, OpenPartial(p)  PROVE TypeOK'
  BY <1>8 DEF OpenPartial
<1>9. ASSUME NEW p \in Procs, WritePartial(p)  PROVE TypeOK'
  <2>1. PICK c \in {held[p], Torn} : content' = [content EXCEPT ![fd[p]] = c]
    BY <1>9 DEF WritePartial
  <2>2. content' \in [Inodes -> Snapshots \cup {Torn}]
    BY <2>1
  <2>. QED  BY <1>9, <2>2 DEF WritePartial
<1>10. ASSUME NEW p \in Procs, RenamePartial(p)  PROVE TypeOK'
  BY <1>10 DEF RenamePartial
<1>11. ASSUME NEW p \in Procs, WriteFails(p)  PROVE TypeOK'
  BY <1>11 DEF WriteFails
<1>12. ASSUME NEW p \in Procs, Cleanup(p)  PROVE TypeOK'
  BY <1>12 DEF Cleanup
<1>13. ASSUME NEW p \in Procs, Kill(p)  PROVE TypeOK'
  BY <1>13 DEF Kill
<1>14. CASE UNCHANGED vars
  BY <1>14 DEF vars
<1>. QED
  BY <1>1, <1>2, <1>3, <1>4, <1>5, <1>6, <1>7, <1>8, <1>9, <1>10, <1>11, <1>12,
     <1>13, <1>14 DEF Next, Step

(* The response being filled in, and the file being written.               *)
LEMMA ReadingStep == CaptureInv /\ [Next]_vars => Reading' /\ Opened'
<1>. SUFFICES ASSUME CaptureInv, [Next]_vars  PROVE Reading' /\ Opened'
  OBVIOUS
<1>. USE ConstantsHold DEF Constants, CaptureInv, TypeOK, Stages, Goto, designVars, netVars,
         fileVars, Reading, Opened, Running, Terminal
<1>1. CASE Save
  <2>1. \A p \in Procs : before'[p] <= version'
    BY <1>1 DEF Save, Versions
  <2>2. \A p \in Procs : before'[p] # version'
    BY <1>1 DEF Save, Versions
  <2>. QED  BY <1>1, <2>1, <2>2 DEF Save
<1>2. ASSUME NEW p \in Procs, NEW S \in Requests, NEW f \in BOOLEAN, Start(p, S, f)
      PROVE  Reading' /\ Opened'
  BY <1>2 DEF Start
<1>3. ASSUME NEW p \in Procs, RefuseArguments(p)  PROVE Reading' /\ Opened'
  BY <1>3 DEF RefuseArguments
<1>4. ASSUME NEW p \in Procs, ReadBefore(p)  PROVE Reading' /\ Opened'
  BY <1>4 DEF ReadBefore, Versions
<1>5. ASSUME NEW p \in Procs, NEW r \in Roots, ServeRoot(p, r)  PROVE Reading' /\ Opened'
  BY <1>5 DEF ServeRoot
<1>6. ASSUME NEW p \in Procs, AcceptResponse(p)  PROVE Reading' /\ Opened'
  BY <1>6 DEF AcceptResponse
<1>7. ASSUME NEW p \in Procs, RefuseResponse(p) \/ RequestFails(p)  PROVE Reading' /\ Opened'
  <2>1. CASE RefuseResponse(p)
    BY <2>1 DEF RefuseResponse
  <2>2. CASE RequestFails(p)
    BY <2>2 DEF RequestFails
  <2>. QED  BY <1>7, <2>1, <2>2
<1>8. ASSUME NEW p \in Procs, OpenPartial(p)  PROVE Reading' /\ Opened'
  BY <1>8 DEF OpenPartial
<1>9. ASSUME NEW p \in Procs, WritePartial(p)  PROVE Reading' /\ Opened'
  BY <1>9 DEF WritePartial
<1>10. ASSUME NEW p \in Procs, RenamePartial(p)  PROVE Reading' /\ Opened'
  BY <1>10 DEF RenamePartial
<1>11. ASSUME NEW p \in Procs, WriteFails(p)  PROVE Reading' /\ Opened'
  BY <1>11 DEF WriteFails
<1>12. ASSUME NEW p \in Procs, Cleanup(p)  PROVE Reading' /\ Opened'
  BY <1>12 DEF Cleanup
<1>13. ASSUME NEW p \in Procs, Kill(p)  PROVE Reading' /\ Opened'
  BY <1>13 DEF Kill
<1>14. CASE UNCHANGED vars
  BY <1>14 DEF vars
<1>. QED
  BY <1>1, <1>2, <1>3, <1>4, <1>5, <1>6, <1>7, <1>8, <1>9, <1>10, <1>11, <1>12,
     <1>13, <1>14 DEF Next, Step

-----------------------------------------------------------------------------
(* A step that neither saves nor makes a snapshot keeps OneVersion: what   *)
(* it writes is what an invocation holds, or a torn text.                  *)
LEMMA OneVersionKept ==
    ASSUME CaptureInv, UNCHANGED designVars, UNCHANGED held, TypeOK',
           \A i \in Inodes : content'[i] \in {content[i], Torn} \cup {held[p] : p \in Procs}
    PROVE  OneVersion'
<1>1. \A s : IsCapture(s)' <=> IsCapture(s)
  BY DEF designVars, IsCapture
<1>2. \A p \in Procs : held'[p] # Torn => IsCapture(held'[p])
  BY DEF CaptureInv, OneVersion
<1>3. ASSUME NEW i \in Inodes, content'[i] # Torn  PROVE IsCapture(content'[i])
  BY <1>3 DEF CaptureInv, OneVersion
<1>. QED  BY <1>1, <1>2, <1>3 DEF OneVersion, IsCapture

LEMMA OneVersionStep == CaptureInv /\ [Next]_vars => OneVersion'
<1>. SUFFICES ASSUME CaptureInv, [Next]_vars  PROVE OneVersion'
  OBVIOUS
<1>0. TypeOK'
  BY TypeStep
<1>1. CASE Save
  <2>1. UNCHANGED <<held, content>>
    BY <1>1 DEF Save, fileVars
  <2>2. ASSUME NEW s \in Snapshots, IsCapture(s)  PROVE IsCapture(s)'
    BY <1>1, <2>2, CaptureStays
  <2>3. \A p \in Procs : held[p] # Torn => held[p] \in Snapshots /\ IsCapture(held[p])
    BY DEF CaptureInv, TypeOK, OneVersion
  <2>4. \A i \in Inodes : content[i] # Torn => content[i] \in Snapshots /\ IsCapture(content[i])
    BY DEF CaptureInv, TypeOK, OneVersion
  <2>. QED  BY <2>1, <2>2, <2>3, <2>4 DEF OneVersion, IsCapture
<1>2. ASSUME NEW p \in Procs, AcceptResponse(p)  PROVE OneVersion'
  <2>. DEFINE s == [version |-> before[p], nodes |-> [r \in want[p] |-> resp[p][r]]]
  <2>1. /\ UNCHANGED <<version, history, content>>
        /\ held' = [held EXCEPT ![p] = s]
    BY <1>2 DEF AcceptResponse, designVars, fileVars
  <2>2. before[p] = version /\ served[p] = want[p] /\ pc[p] = "nodes"
    BY <1>2 DEF AcceptResponse, Bracketed
  <2>3. \A r \in want[p] : resp[p][r] = history[version][r] /\ resp[p][r] # Absent
    BY <1>2, <2>2 DEF AcceptResponse, Coherent, CaptureInv, Reading
  <2>4. IsCapture(s)
    BY <2>2, <2>3 DEF IsCapture, CaptureInv, TypeOK, Versions
  <2>5. \A q \in Procs : held'[q] # Torn => IsCapture(held'[q])
    BY <2>1, <2>4 DEF CaptureInv, OneVersion, TypeOK
  <2>. QED  BY <2>1, <2>5, SMTT(30) DEF CaptureInv, OneVersion, IsCapture
<1>3. ASSUME NEW p \in Procs,
             \/ \E S \in Requests, f \in BOOLEAN : Start(p, S, f)
             \/ RefuseArguments(p) \/ ReadBefore(p) \/ \E r \in Roots : ServeRoot(p, r)
             \/ RefuseResponse(p) \/ RequestFails(p) \/ RenamePartial(p) \/ Cleanup(p) \/ Kill(p)
      PROVE  OneVersion'
  <2>1. UNCHANGED designVars /\ UNCHANGED held /\ UNCHANGED content
    BY <1>3 DEF Start, RefuseArguments, ReadBefore, ServeRoot, RefuseResponse, RequestFails,
       RenamePartial, Cleanup, Kill, fileVars
  <2>. QED  BY <1>0, <2>1, OneVersionKept
<1>4. ASSUME NEW p \in Procs, OpenPartial(p)  PROVE OneVersion'
  <2>1. PICK i \in Inodes : content' = [content EXCEPT ![i] = Torn]
    BY <1>4 DEF OpenPartial
  <2>2. \A j \in Inodes : content'[j] \in {content[j], Torn}
    BY <2>1 DEF CaptureInv, TypeOK
  <2>3. UNCHANGED designVars /\ UNCHANGED held
    BY <1>4 DEF OpenPartial
  <2>. QED  BY <1>0, <2>2, <2>3, OneVersionKept
<1>5. ASSUME NEW p \in Procs, WritePartial(p)  PROVE OneVersion'
  <2>1. PICK c \in {held[p], Torn} : content' = [content EXCEPT ![fd[p]] = c]
    BY <1>5 DEF WritePartial
  <2>2. \A j \in Inodes : content'[j] \in {content[j], Torn} \cup {held[q] : q \in Procs}
    BY <2>1 DEF CaptureInv, TypeOK
  <2>3. UNCHANGED designVars /\ UNCHANGED held
    BY <1>5 DEF WritePartial
  <2>. QED  BY <1>0, <2>2, <2>3, OneVersionKept
<1>6. ASSUME NEW p \in Procs, WriteFails(p)  PROVE OneVersion'
  <2>1. content' = [content EXCEPT ![fd[p]] = Torn] \/ content' = content
    BY <1>6 DEF WriteFails
  <2>2. \A j \in Inodes : content'[j] \in {content[j], Torn}
    BY <2>1 DEF CaptureInv, TypeOK
  <2>3. UNCHANGED designVars /\ UNCHANGED held
    BY <1>6 DEF WriteFails
  <2>. QED  BY <1>0, <2>2, <2>3, OneVersionKept
<1>7. CASE UNCHANGED vars
  BY <1>7 DEF vars, CaptureInv, OneVersion, IsCapture
<1>. QED
  BY <1>1, <1>2, <1>3, <1>4, <1>5, <1>6, <1>7 DEF Next, Step

(* Whoever runs, whatever is saved, and whatever the service answers:      *)
(* types, the reading bracket and OneVersion hold in every state.          *)
THEOREM CaptureInvariant == SafeSpec => []CaptureInv
<1>1. CaptureInv /\ [Next]_vars => CaptureInv'
  BY TypeStep, ReadingStep, OneVersionStep DEF CaptureInv
<1>. QED  BY CaptureInit, <1>1, PTL DEF SafeSpec

(* Every variable keeps its type.                                          *)
THEOREM TypeCorrect == SafeSpec => []TypeOK
<1>1. CaptureInv => TypeOK
  BY DEF CaptureInv
<1>. QED  BY <1>1, CaptureInvariant, PTL

(* acquireSnapshot: no snapshot, in memory or on disk, spans two versions. *)
THEOREM EverySnapshotIsOneVersion == SafeSpec => []OneVersion
<1>1. CaptureInv => OneVersion
  BY DEF CaptureInv
<1>. QED  BY <1>1, CaptureInvariant, PTL

-----------------------------------------------------------------------------
(***************************************************************************)
(* Who meets whom.  Two invocations that run at once for one path know of  *)
(* each other in beside, so that one with nothing there is alone.          *)
(***************************************************************************)
Met ==
    /\ \A p \in Procs : pc[p] = "idle" => beside[p] = {}
    /\ \A p, q \in Procs :
         p # q /\ Running(p) /\ Running(q) /\ Out[p] = Out[q] => q \in beside[p]

(* No other step makes an invocation run or lets two of them meet.         *)
LEMMA OnlyStartsMeet ==
    ASSUME TypeOK, [Next]_vars,
           ~ \E p \in Procs, S \in Requests, f \in BOOLEAN : Start(p, S, f)
    PROVE  /\ UNCHANGED beside
           /\ \A q \in Procs : (Running(q)' => Running(q)) /\ (pc'[q] = "idle" => pc[q] = "idle")
<1>. USE DEF TypeOK, Running, Terminal, Goto
<1>1. CASE Save \/ UNCHANGED vars
  BY <1>1 DEF Save, vars
<1>2. ASSUME NEW p \in Procs, RefuseArguments(p) \/ Kill(p)
      PROVE  UNCHANGED beside /\ \E stage \in Terminal : pc' = [pc EXCEPT ![p] = stage]
  BY <1>2 DEF RefuseArguments, Kill
<1>3. ASSUME NEW p \in Procs, Step(p)
      PROVE  /\ UNCHANGED beside /\ Running(p)
             /\ \E stage \in Stages \ {"idle"} : pc' = [pc EXCEPT ![p] = stage]
  <2>1. CASE \E r \in Roots : ServeRoot(p, r)
    BY <2>1 DEF ServeRoot, Stages
  <2>2. CASE ReadBefore(p) \/ AcceptResponse(p) \/ RefuseResponse(p) \/ RequestFails(p)
    BY <2>2 DEF ReadBefore, AcceptResponse, RefuseResponse, RequestFails, Stages
  <2>3. CASE OpenPartial(p) \/ WritePartial(p) \/ RenamePartial(p) \/ WriteFails(p) \/ Cleanup(p)
    BY <2>3 DEF OpenPartial, WritePartial, RenamePartial, WriteFails, Cleanup, Stages
  <2>. QED  BY <1>3, <2>1, <2>2, <2>3 DEF Step
<1>. QED  BY <1>1, <1>2, <1>3 DEF Next

LEMMA MetStep ==
    ASSUME TypeOK, Met, [Next]_vars
    PROVE  Met' /\ \A p \in Procs : beside[p] \subseteq beside'[p]
<1>1. ASSUME NEW p \in Procs, NEW S \in Requests, NEW f \in BOOLEAN, Start(p, S, f)
      PROVE  Met' /\ \A q \in Procs : beside[q] \subseteq beside'[q]
  <2>1. CASE pc' = [pc EXCEPT ![p] = "exit2"] /\ beside' = beside
    BY <1>1, <2>1, StartEffect DEF Met, Running, Terminal, TypeOK
  <2>2. CASE pc' = [pc EXCEPT ![p] = "meta"] /\ Join(p)
    <3>1. \A q \in Procs : beside'[q] = IF q = p THEN Others(p)
                                        ELSE IF q \in Others(p) THEN beside[q] \cup {p}
                                        ELSE beside[q]
      BY <2>2 DEF Join
    <3>2. pc[p] = "idle" /\ beside[p] = {}
      BY <1>1, StartEffect DEF Met
    <3>3. \A q \in Procs \ {p} : pc'[q] = pc[q]
      BY <2>2 DEF TypeOK
    <3>4. \A q \in Procs : pc'[q] = "idle" => beside'[q] = {}
      BY <2>2, <3>1, <3>3 DEF Met, TypeOK, Others, Running
    <3>5. ASSUME NEW q \in Procs, NEW r \in Procs,
                 q # r, Running(q)', Running(r)', Out[q] = Out[r]
          PROVE  r \in beside'[q]
      <4>1. CASE q = p
        BY <3>1, <3>3, <3>5, <4>1 DEF Others, Running
      <4>2. CASE r = p
        BY <3>1, <3>3, <3>5, <4>2 DEF Others, Running
      <4>3. CASE q # p /\ r # p
        <5>1. r \in beside[q]
          BY <3>3, <3>5, <4>3 DEF Met, Running
        <5>. QED  BY <3>1, <4>3, <5>1
      <4>. QED  BY <4>1, <4>2, <4>3
    <3>6. \A q \in Procs : beside[q] \subseteq beside'[q]
      BY <3>1, <3>2
    <3>. QED  BY <3>4, <3>5, <3>6 DEF Met
  <2>. QED  BY <1>1, <2>1, <2>2, StartEffect
<1>2. CASE ~ \E p \in Procs, S \in Requests, f \in BOOLEAN : Start(p, S, f)
  BY <1>2, OnlyStartsMeet DEF Met
<1>. QED  BY <1>1, <1>2

-----------------------------------------------------------------------------
(***************************************************************************)
(* The inductive invariant about the files: whose inode is whose, what an  *)
(* invocation that is alone at its path finds undisturbed there, and what  *)
(* it may take the destination to be.                                      *)
(***************************************************************************)
(* No inode has two names.                                                 *)
Names ==
    \A x, y \in Paths :
      /\ dest[x] # NoFile => dest[x] # partial[y]
      /\ dest[x] # NoFile /\ dest[x] = dest[y] => x = y
      /\ partial[x] # NoFile /\ partial[x] = partial[y] => x = y

(* Only a writer has a file open, and no other path's: it may be one that  *)
(* another invocation for its own path has renamed, removed or also opened.*)
Handles ==
    \A p \in Procs :
      /\ pc[p] = "write" => fd[p] \in Inodes
      /\ pc[p] # "write" => fd[p] = NoFile
      /\ pc[p] \in {"open", "write", "rename"} =>
           held[p] \in Snapshots /\ held[p].version = before[p]
      /\ \A x \in Paths : fd[p] # NoFile /\ x # Out[p] => fd[p] # dest[x] /\ fd[p] # partial[x]
      /\ \A q \in Procs : fd[p] # NoFile /\ fd[p] = fd[q] => Out[p] = Out[q]

(* A writer that is alone writes the file its temporary name still names,  *)
(* and what it renames is the snapshot it holds.                           *)
Undisturbed ==
    \A p \in Procs :
      beside[p] = {} =>
        /\ pc[p] = "write" => fd[p] = partial[Out[p]] /\ content[fd[p]] = Torn
        /\ pc[p] = "rename" =>
             partial[Out[p]] \in Inodes /\ content[partial[Out[p]]] = held[p]

(* Without --force there is nothing to replace, however long the requests  *)
(* took, unless somebody that was met on the way has installed it.         *)
Permission ==
    \A p \in Procs :
      Running(p) /\ ~force[p] /\ dest[Out[p]] # NoFile => \E q \in beside[p] : pc[q] = "exit0"

(* What an invocation that is alone finds installed is no newer than what  *)
(* it first saw.                                                           *)
Recent ==
    \A p \in Procs :
      /\ beside[p] = {} /\ pc[p] \in {"nodes", "open", "write", "rename"}
      /\ dest[Out[p]] # NoFile /\ content[dest[Out[p]]] # Torn
      => content[dest[Out[p]]].version <= before[p]

FileInv ==
    /\ CaptureInv /\ Met /\ Names /\ Handles /\ Undisturbed
    /\ Permission /\ Recent /\ UnsharedWhole

(* It holds at the start: nobody runs, no temporary name exists.           *)
LEMMA FileInit == Init => FileInv
<1>. SUFFICES ASSUME Init  PROVE FileInv
  OBVIOUS
<1>1. CaptureInv
  BY CaptureInit
<1>2. Met /\ Undisturbed /\ Permission /\ Recent
  <2>1. \A p \in Procs : pc[p] = "idle" /\ ~Running(p) /\ beside[p] = {}
    BY DEF Init, Running
  <2>2. Met
    BY <2>1 DEF Met
  <2>3. Undisturbed
    BY <2>1 DEF Undisturbed
  <2>4. Permission
    BY <2>1 DEF Permission
  <2>5. Recent
    BY <2>1 DEF Recent
  <2>. QED  BY <2>2, <2>3, <2>4, <2>5
<1>3. Names
  BY DEF Init, Names
<1>4. Handles
  BY DEF Init, Handles
<1>5. UnsharedWhole
  <2>1. PICK S \in Requests :
          content = [i \in Inodes |->
                       IF \E x \in Paths : dest[x] = i THEN Capture(history, 0, S) ELSE Torn]
    BY DEF Init
  <2>2. Capture(history, 0, S) \in Snapshots
    <3>1. history \in [Versions -> Designs] /\ 0 \in Versions /\ S \subseteq Roots
      BY <1>1, RequestsAssumption, MaxVersionAssumption DEF CaptureInv, TypeOK, Versions
    <3>2. [r \in S |-> history[0][r]] \in [S -> Contents \cup Faults]
      BY <3>1, DesignContents
    <3>. QED  BY <3>1, <3>2, SnapshotType DEF Capture
  <2>3. \A x \in Paths : dest[x] # NoFile => dest[x] \in Inodes
    BY <1>1 DEF CaptureInv, TypeOK
  <2>. QED  BY <2>1, <2>2, <2>3, TornAssumption DEF UnsharedWhole
<1>. QED  BY <1>1, <1>2, <1>3, <1>4, <1>5 DEF FileInv

(* An invocation that is alone shares its path with no other running one.  *)
LEMMA AloneAtPath ==
    ASSUME FileInv, NEW p \in Procs, NEW q \in Procs, p # q,
           Running(p), Running(q), beside[p] = {} \/ beside[q] = {}
    PROVE  Out[p] # Out[q]
BY DEF FileInv, Met

(* Files are opened, written and named by the steps at the end only: a     *)
(* step that leaves them alone keeps what is said of them.                 *)
LEMMA FilesKept ==
    ASSUME FileInv, NEW p \in Procs, UNCHANGED fileVars, UNCHANGED fd,
           \A q \in Procs : beside[q] \subseteq beside'[q],
           \A q \in Procs \ {p} : pc'[q] = pc[q] /\ before'[q] = before[q] /\ held'[q] = held[q],
           pc[p] \notin {"write", "rename"}, pc'[p] \notin {"write", "rename"},
           pc'[p] = "open" => held'[p] \in Snapshots /\ held'[p].version = before'[p]
    PROVE  Names' /\ Handles' /\ Undisturbed'
<1>1. Names'
  BY DEF FileInv, Names, fileVars
<1>2. Handles'
  BY DEF FileInv, Handles, fileVars
<1>3. Undisturbed'
  <2>1. \A q \in Procs : beside'[q] = {} => beside[q] = {}
    OBVIOUS
  <2>. QED  BY <2>1 DEF FileInv, Undisturbed, fileVars
<1>. QED  BY <1>1, <1>2, <1>3

(* The files: inodes keep one name each, a writer keeps to its own path,   *)
(* and who is alone there is not disturbed.                                *)
LEMMA FilesStep == FileInv /\ [Next]_vars => Names' /\ Handles' /\ Undisturbed'
<1>. SUFFICES ASSUME FileInv, [Next]_vars  PROVE Names' /\ Handles' /\ Undisturbed'
  OBVIOUS
<1>0. TypeOK' /\ Met' /\ \A q \in Procs : beside[q] \subseteq beside'[q]
  BY TypeStep, MetStep DEF FileInv, CaptureInv
<1>1. CASE Save \/ UNCHANGED vars
  BY <1>1 DEF Save, vars, netVars, fileVars, FileInv, Names, Handles, Undisturbed
<1>2. ASSUME NEW p \in Procs,
             \/ \E S \in Requests, f \in BOOLEAN : Start(p, S, f)
             \/ RefuseArguments(p) \/ ReadBefore(p) \/ \E r \in Roots : ServeRoot(p, r)
             \/ RefuseResponse(p) \/ RequestFails(p)
      PROVE  Names' /\ Handles' /\ Undisturbed'
  <2>1. /\ pc[p] \in {"idle", "meta", "nodes"} /\ pc'[p] \in {"meta", "nodes", "exit2"}
        /\ \A q \in Procs \ {p} : pc'[q] = pc[q] /\ before'[q] = before[q]
        /\ UNCHANGED <<fileVars, fd, held>>
    BY <1>2 DEF Start, RefuseArguments, ReadBefore, ServeRoot, RefuseResponse, RequestFails,
       Goto, netVars, FileInv, CaptureInv, TypeOK
  <2>. QED  BY <1>0, <2>1, FilesKept
<1>3. ASSUME NEW p \in Procs, AcceptResponse(p)  PROVE Names' /\ Handles' /\ Undisturbed'
  <2>1. /\ pc[p] = "nodes" /\ pc'[p] = "open"
        /\ \A q \in Procs \ {p} : pc'[q] = pc[q] /\ held'[q] = held[q]
        /\ UNCHANGED <<fileVars, fd, before>>
    BY <1>3 DEF AcceptResponse, Goto, netVars, FileInv, CaptureInv, TypeOK
  <2>2. held'[p] = [version |-> before[p], nodes |-> [r \in want[p] |-> resp[p][r]]]
    BY <1>3 DEF AcceptResponse, FileInv, CaptureInv, TypeOK
  <2>3. held'[p] \in Snapshots
    <3>1. want[p] \in Requests
      BY <2>1 DEF FileInv, CaptureInv, Reading, Running, Terminal
    <3>2. [r \in want[p] |-> resp[p][r]] \in [want[p] -> Contents \cup Faults]
      BY <3>1, RequestsAssumption DEF FileInv, CaptureInv, TypeOK
    <3>3. before[p] \in Versions
      BY DEF FileInv, CaptureInv, TypeOK
    <3>4. [version |-> before[p], nodes |-> [r \in want[p] |-> resp[p][r]]] \in Snapshots
      BY <3>1, <3>2, <3>3, SnapshotType
    <3>. QED  BY <2>2, <3>4
  <2>. QED  BY <1>0, <2>1, <2>2, <2>3, FilesKept
<1>4. ASSUME NEW p \in Procs, Kill(p)  PROVE Names' /\ Handles' /\ Undisturbed'
  <2>1. /\ pc' = [pc EXCEPT ![p] = "killed"] /\ fd' = [fd EXCEPT ![p] = NoFile]
        /\ UNCHANGED <<dest, partial, content, held, before, beside>>
    BY <1>4 DEF Kill, Goto, fileVars, netVars
  <2>. QED  BY <2>1 DEF FileInv, CaptureInv, TypeOK, Names, Handles, Undisturbed
<1>5. ASSUME NEW p \in Procs, OpenPartial(p)  PROVE Names' /\ Handles' /\ Undisturbed'
  <2>1. PICK i \in Inodes :
          /\ IF partial[Out[p]] = NoFile THEN Free(i) ELSE i = partial[Out[p]]
          /\ partial' = [partial EXCEPT ![Out[p]] = i]
          /\ content' = [content EXCEPT ![i] = Torn]
          /\ fd' = [fd EXCEPT ![p] = i]
    BY <1>5 DEF OpenPartial
  <2>2. /\ pc[p] = "open" /\ pc' = [pc EXCEPT ![p] = "write"] /\ Running(p)
        /\ UNCHANGED <<held, before, dest, beside>>
    BY <1>5 DEF OpenPartial, Goto, netVars, Running, Terminal
  <2>. USE DEF FileInv, CaptureInv, TypeOK
  <2>3. Out[p] \in Paths /\ i # NoFile
    BY OutAssumption, NoFileAssumption
  (* The inode opened is no path's capture, nor another path's partial,    *)
  (* and nobody at work on another path has it open.                       *)
  <2>4. \A x \in Paths : dest[x] # i /\ (x # Out[p] => partial[x] # i)
    BY <2>1, <2>3 DEF Names, Free
  <2>5. \A q \in Procs : fd[q] = i => Out[q] = Out[p]
    BY <2>1, <2>3 DEF Handles, Free
  <2>6. Names'
    BY <2>1, <2>2, <2>3, <2>4 DEF Names
  <2>7. Handles'
    <3>1. ASSUME NEW q \in Procs, q # p  PROVE Handles!(q)'
      <4>1. fd'[q] = fd[q] /\ pc'[q] = pc[q]
        BY <2>1, <2>2, <3>1
      <4>2. ASSUME NEW x \in Paths, fd[q] # NoFile, x # Out[q]
            PROVE  fd[q] # dest'[x] /\ fd[q] # partial'[x]
        BY <2>1, <2>2, <2>5, <4>2 DEF Handles
      <4>3. ASSUME NEW r \in Procs, fd[q] # NoFile, fd[q] = fd'[r]  PROVE Out[q] = Out[r]
        BY <2>1, <2>5, <4>3 DEF Handles
      <4>. QED  BY <2>2, <4>1, <4>2, <4>3 DEF Handles
    <3>2. Handles!(p)'
      BY <2>1, <2>2, <2>3, <2>4, <2>5 DEF Handles
    <3>. QED  BY <3>1, <3>2 DEF Handles
  <2>8. Undisturbed'
    <3>1. ASSUME NEW q \in Procs, q # p, beside[q] = {}, pc[q] \in {"write", "rename"}
          PROVE  Out[q] # Out[p] /\ Out[q] \in Paths
      <4>1. Running(q)
        BY <3>1 DEF Running, Terminal
      <4>. QED  BY <2>2, <3>1, <4>1, AloneAtPath, OutAssumption
    <3>2. ASSUME NEW q \in Procs, q # p  PROVE Undisturbed!(q)'
      BY <2>1, <2>2, <2>4, <2>5, <3>1, <3>2 DEF Undisturbed
    <3>3. Undisturbed!(p)'
      BY <2>1, <2>2, <2>3 DEF Undisturbed
    <3>. QED  BY <3>2, <3>3 DEF Undisturbed
  <2>. QED  BY <2>6, <2>7, <2>8
<1>6. ASSUME NEW p \in Procs, WritePartial(p) \/ WriteFails(p)
      PROVE  Names' /\ Handles' /\ Undisturbed'
  <2>1. /\ \E stage \in {"rename", "cleanup"} :
             /\ stage = "rename" => WritePartial(p)
             /\ pc' = [pc EXCEPT ![p] = stage]
        /\ fd' = [fd EXCEPT ![p] = NoFile]
        /\ pc[p] \in {"open", "write", "rename"}
        /\ UNCHANGED <<held, before, dest, partial, beside>>
    BY <1>6 DEF WritePartial, WriteFails, Goto, netVars
  <2>2. \/ content' = content
        \/ \E c : pc[p] = "write" /\ content' = [content EXCEPT ![fd[p]] = c]
    BY <1>6 DEF WritePartial, WriteFails
  <2>. USE DEF FileInv, CaptureInv, TypeOK
  <2>3. Running(p) /\ Out[p] \in Paths
    BY <2>1, OutAssumption DEF Running, Terminal
  <2>4. Names' /\ Handles'
    <3>1. Names'
      BY <2>1 DEF Names
    <3>2. Handles'
      BY <2>1 DEF Handles
    <3>. QED  BY <3>1, <3>2
  (* Another invocation that is alone has its files on another path.       *)
  <2>5. ASSUME NEW q \in Procs, q # p, beside[q] = {}, pc[q] \in {"write", "rename"}, pc[p] = "write"
        PROVE  fd[p] # partial[Out[q]] /\ fd[q] # fd[p]
    <3>1. Running(q)
      BY <2>5 DEF Running, Terminal
    <3>2. Out[q] # Out[p] /\ Out[q] \in Paths
      BY <2>3, <2>5, <3>1, AloneAtPath, OutAssumption
    <3>. QED  BY <2>5, <3>2, NoFileAssumption DEF Handles
  <2>6. ASSUME NEW q \in Procs, q # p  PROVE Undisturbed!(q)'
    <3>1. pc'[q] = pc[q] /\ fd'[q] = fd[q]
      BY <2>1, <2>6
    <3>2. ASSUME beside[q] = {}, pc[q] \in {"write", "rename"}
          PROVE  /\ fd[q] \in Inodes => content'[fd[q]] = content[fd[q]]
                 /\ partial[Out[q]] \in Inodes => content'[partial[Out[q]]] = content[partial[Out[q]]]
      BY <2>2, <2>5, <2>6, <3>2
    <3>3. pc[q] = "write" => fd[q] \in Inodes
      BY DEF Handles
    <3>. QED  BY <2>1, <3>1, <3>2, <3>3 DEF Undisturbed
  <2>7. Undisturbed!(p)'
    <3>1. ASSUME beside[p] = {}, WritePartial(p)
          PROVE  partial[Out[p]] \in Inodes /\ content'[partial[Out[p]]] = held[p]
      <4>1. pc[p] = "write" /\ fd[p] \in Inodes /\ fd[p] = partial[Out[p]] /\ content[fd[p]] = Torn
        BY <3>1 DEF WritePartial, Undisturbed, Handles
      <4>2. ASSUME NEW q \in Procs \ {p}, fd[q] = fd[p]  PROVE FALSE
        <5>1. Out[q] = Out[p] /\ pc[q] = "write"
          BY <4>1, <4>2, NoFileAssumption DEF Handles
        <5>. QED  BY <2>3, <3>1, <5>1, AloneAtPath DEF Running, Terminal
      <4>3. content' = [content EXCEPT ![fd[p]] = held[p]]
        BY <3>1, <4>1, <4>2 DEF WritePartial
      <4>. QED  BY <4>1, <4>3
    <3>. QED  BY <2>1, <3>1 DEF Undisturbed
  <2>. QED  BY <2>4, <2>6, <2>7 DEF Undisturbed
<1>7. ASSUME NEW p \in Procs, RenamePartial(p) \/ Cleanup(p)
      PROVE  Names' /\ Handles' /\ Undisturbed'
  <2>1. /\ \E stage \in {"exit0", "exit2"} : pc' = [pc EXCEPT ![p] = stage]
        /\ \/ dest' = [dest EXCEPT ![Out[p]] = partial[Out[p]]] /\ partial[Out[p]] # NoFile
              /\ partial' = [partial EXCEPT ![Out[p]] = NoFile]
           \/ dest' = dest /\ partial' = [partial EXCEPT ![Out[p]] = NoFile]
           \/ dest' = dest /\ partial' = partial
        /\ pc[p] \in {"rename", "cleanup"}
        /\ UNCHANGED <<held, before, fd, content, beside>>
    BY <1>7 DEF RenamePartial, Cleanup, Goto, netVars
  <2>. USE DEF FileInv, CaptureInv, TypeOK
  <2>2. Running(p) /\ Out[p] \in Paths
    BY <2>1, OutAssumption DEF Running, Terminal
  <2>3. Names'
    BY <2>1, <2>2 DEF Names
  <2>4. Handles'
    BY <2>1, <2>2 DEF Handles
  <2>5. ASSUME NEW q \in Procs  PROVE Undisturbed!(q)'
    <3>1. q # p /\ beside[q] = {} /\ pc[q] \in {"write", "rename"} => Out[q] # Out[p]
      BY <2>2, AloneAtPath DEF Running, Terminal
    <3>2. /\ pc'[q] \in {"write", "rename"} => q # p /\ pc'[q] = pc[q]
          /\ Out[q] # Out[p] => partial'[Out[q]] = partial[Out[q]]
          /\ Out[q] \in Paths
      BY <2>1, <2>2, OutAssumption
    <3>. QED  BY <2>1, <3>1, <3>2 DEF Undisturbed
  <2>. QED  BY <2>3, <2>4, <2>5 DEF Undisturbed
<1>. QED
  BY <1>1, <1>2, <1>3, <1>4, <1>5, <1>6, <1>7 DEF Next, Step

-----------------------------------------------------------------------------
(* What a reader finds at a path changes only by a rename for that path,   *)
(* or by an invocation that was not alone there and still writes to a file *)
(* which another one has renamed.                                          *)
LEMMA PathStep ==
    ASSUME FileInv, [Next]_vars, NEW x \in Paths
    PROVE  \/ dest'[x] = dest[x] /\ (dest[x] # NoFile => content'[dest[x]] = content[dest[x]])
           \/ \E p \in Procs : RenamePartial(p) /\ Out[p] = x
           \/ \E p \in Procs :
                /\ WritePartial(p) \/ WriteFails(p)
                /\ Out[p] = x /\ beside[p] # {} /\ pc[p] = "write"
                /\ dest[x] # NoFile /\ dest'[x] = dest[x]
<1>. DEFINE Same == dest'[x] = dest[x] /\ (dest[x] # NoFile => content'[dest[x]] = content[dest[x]])
<1>1. CASE UNCHANGED <<dest, content>>
  BY <1>1
<1>2. ASSUME NEW p \in Procs, RenamePartial(p), Out[p] # x  PROVE Same
  BY <1>2 DEF RenamePartial, FileInv, CaptureInv, TypeOK
<1>3. ASSUME NEW p \in Procs, OpenPartial(p)  PROVE Same
  <2>1. PICK i \in Inodes :
          /\ IF partial[Out[p]] = NoFile THEN Free(i) ELSE i = partial[Out[p]]
          /\ content' = [content EXCEPT ![i] = Torn]
    BY <1>3 DEF OpenPartial
  <2>2. UNCHANGED dest
    BY <1>3 DEF OpenPartial
  <2>3. dest[x] # i
    BY <2>1, OutAssumption, NoFileAssumption DEF FileInv, Names, Free
  <2>. QED  BY <2>1, <2>2, <2>3 DEF FileInv, CaptureInv, TypeOK
<1>4. ASSUME NEW p \in Procs, WritePartial(p) \/ WriteFails(p)
      PROVE  \/ Same
             \/ /\ Out[p] = x /\ beside[p] # {} /\ pc[p] = "write"
                /\ dest[x] # NoFile /\ dest'[x] = dest[x]
  <2>1. \/ content' = content
        \/ \E c : pc[p] = "write" /\ content' = [content EXCEPT ![fd[p]] = c]
    BY <1>4 DEF WritePartial, WriteFails
  <2>2. UNCHANGED dest
    BY <1>4 DEF WritePartial, WriteFails
  <2>3. CASE pc[p] = "write" /\ (Out[p] # x \/ beside[p] = {}) /\ dest[x] # NoFile
    <3>1. fd[p] \in Inodes /\ fd[p] # dest[x]
      <4>1. fd[p] \in Inodes /\ fd[p] # NoFile
        BY <2>3, NoFileAssumption DEF FileInv, Handles
      <4>2. CASE Out[p] # x
        BY <4>1, <4>2 DEF FileInv, Handles
      <4>3. CASE beside[p] = {}
        BY <2>3, <4>1, <4>3, OutAssumption DEF FileInv, Undisturbed, Names
      <4>. QED  BY <2>3, <4>1, <4>2, <4>3
    <3>. QED  BY <2>1, <2>2, <3>1 DEF FileInv, CaptureInv, TypeOK
  <2>. QED  BY <2>1, <2>2, <2>3
<1>5. ASSUME ~ UNCHANGED <<dest, content>>
      PROVE  \E p \in Procs : RenamePartial(p) \/ OpenPartial(p) \/ WritePartial(p) \/ WriteFails(p)
  BY <1>5 DEF Next, Step, Save, Start, RefuseArguments, ReadBefore, ServeRoot, AcceptResponse,
     RefuseResponse, RequestFails, Cleanup, Kill, vars, fileVars
<1>. HIDE DEF Same
<1>6. CASE ~ UNCHANGED <<dest, content>>
  <2>1. PICK p \in Procs : RenamePartial(p) \/ OpenPartial(p) \/ WritePartial(p) \/ WriteFails(p)
    BY <1>5, <1>6
  <2>. QED  BY <2>1, <1>2, <1>3, <1>4 DEF Same
<1>. QED  BY <1>1, <1>6 DEF Same

(* What a lone invocation renames is the snapshot it holds.                *)
LEMMA RenamedIsHeld ==
    ASSUME FileInv, NEW p \in Procs, RenamePartial(p), beside[p] = {}
    PROVE  /\ dest'[Out[p]] = partial[Out[p]] /\ partial[Out[p]] \in Inodes
           /\ content'[dest'[Out[p]]] = held[p]
           /\ held[p] \in Snapshots /\ held[p].version = before[p]
BY OutAssumption DEF RenamePartial, FileInv, CaptureInv, TypeOK, Undisturbed, Handles

(* Nothing is put at a path whose invocation may not replace it, but by    *)
(* one that it runs beside.                                                *)
LEMMA PermissionStep == FileInv /\ [Next]_vars => Permission'
<1>. SUFFICES ASSUME FileInv, [Next]_vars,
                     NEW q \in Procs, Running(q)', ~force'[q], dest'[Out[q]] # NoFile
              PROVE  \E r \in beside'[q] : pc'[r] = "exit0"
  BY DEF Permission
<1>0. Met' /\ TypeOK /\ Met /\ \A p \in Procs : beside[p] \subseteq beside'[p] /\ beside[p] \subseteq Procs
  BY MetStep DEF FileInv, CaptureInv, TypeOK
(* Whoever was there for the step before has only to be still there.       *)
<1>1. ASSUME Running(q), ~force[q], dest[Out[q]] # NoFile,
             \A r \in Procs : pc[r] = "exit0" => pc'[r] = "exit0"
      PROVE  \E r \in beside'[q] : pc'[r] = "exit0"
  BY <1>0, <1>1 DEF FileInv, Permission
<1>2. CASE Save \/ UNCHANGED vars
  BY <1>1, <1>2 DEF Save, vars, fileVars, Running
<1>3. ASSUME NEW p \in Procs, NEW S \in Requests, NEW f \in BOOLEAN, Start(p, S, f)
      PROVE  \E r \in beside'[q] : pc'[r] = "exit0"
  <2>1. /\ pc[p] = "idle" /\ force' = [force EXCEPT ![p] = f] /\ UNCHANGED dest
        /\ \/ pc' = [pc EXCEPT ![p] = "exit2"]
           \/ pc' = [pc EXCEPT ![p] = "meta"] /\ (dest[Out[p]] = NoFile \/ f)
    BY <1>3, StartEffect
  <2>2. q # p
    BY <1>0, <2>1 DEF TypeOK, Running, Terminal
  <2>. QED  BY <1>0, <1>1, <2>1, <2>2 DEF TypeOK, Running
<1>4. ASSUME NEW p \in Procs, RenamePartial(p)
      PROVE  \E r \in beside'[q] : pc'[r] = "exit0"
  <2>1. /\ pc[p] = "rename" /\ pc' = [pc EXCEPT ![p] = "exit0"] /\ UNCHANGED <<force, beside>>
        /\ dest' = [dest EXCEPT ![Out[p]] = partial[Out[p]]]
    BY <1>4 DEF RenamePartial, Goto
  <2>2. q # p /\ Running(q) /\ Running(p)
    BY <1>0, <2>1 DEF TypeOK, Running, Terminal
  <2>3. CASE Out[q] = Out[p]
    <3>1. p \in beside[q]
      BY <1>0, <2>2, <2>3 DEF Met
    <3>. QED  BY <1>0, <2>1, <3>1 DEF TypeOK
  <2>4. CASE Out[q] # Out[p]
    <3>1. dest'[Out[q]] = dest[Out[q]]
      BY <2>1, <2>4, OutAssumption, <1>0 DEF TypeOK
    <3>2. \A r \in Procs : pc[r] = "exit0" => pc'[r] = "exit0"
      BY <1>0, <2>1 DEF TypeOK
    <3>. QED  BY <1>1, <2>1, <2>2, <3>1, <3>2
  <2>. QED  BY <2>3, <2>4
<1>5. ASSUME NEW p \in Procs, RefuseArguments(p) \/ Step(p) \/ Kill(p), ~RenamePartial(p)
      PROVE  \E r \in beside'[q] : pc'[r] = "exit0"
  <2>1. UNCHANGED <<dest, force>>
    BY <1>5 DEF RefuseArguments, Step, ReadBefore, ServeRoot, AcceptResponse, RefuseResponse,
       RequestFails, OpenPartial, WritePartial, WriteFails, Cleanup, Kill, fileVars
  <2>2. /\ pc[p] \notin Terminal
        /\ \E stage \in Stages : /\ pc' = [pc EXCEPT ![p] = stage]
                                 /\ pc[p] = "idle" => stage \in Terminal
    <3>1. CASE RefuseArguments(p) \/ Kill(p) \/ \E r \in Roots : ServeRoot(p, r)
      BY <1>0, <3>1 DEF RefuseArguments, Kill, ServeRoot, Goto, Running, Terminal, Stages, TypeOK
    <3>2. CASE ReadBefore(p) \/ AcceptResponse(p) \/ RefuseResponse(p) \/ RequestFails(p)
      BY <3>2 DEF ReadBefore, AcceptResponse, RefuseResponse, RequestFails, Goto, Terminal, Stages
    <3>3. CASE OpenPartial(p) \/ WritePartial(p) \/ WriteFails(p) \/ Cleanup(p)
      BY <3>3 DEF OpenPartial, WritePartial, WriteFails, Cleanup, Goto, Terminal, Stages
    <3>. QED  BY <1>5, <3>1, <3>2, <3>3 DEF Step
  <2>3. \A r \in Procs \ {p} : pc'[r] = pc[r]
    BY <1>0, <2>2 DEF TypeOK
  <2>4. Running(q)
    <3>1. pc[p] # "idle" \/ pc'[p] \in Terminal
      BY <1>0, <2>2 DEF TypeOK
    <3>. QED  BY <2>2, <2>3, <3>1 DEF Running
  <2>5. \A r \in Procs : pc[r] = "exit0" => pc'[r] = "exit0"
    BY <2>2, <2>3 DEF Terminal
  <2>. QED  BY <1>1, <2>1, <2>4, <2>5
<1>. QED  BY <1>2, <1>3, <1>4, <1>5 DEF Next, Step

(* What a running command that is alone may meet at its path is never      *)
(* newer than what it saw first.                                           *)
LEMMA RecentStep == FileInv /\ [Next]_vars => Recent'
<1>. SUFFICES ASSUME FileInv, [Next]_vars, NEW q \in Procs, beside'[q] = {},
                     pc'[q] \in {"nodes", "open", "write", "rename"},
                     dest'[Out[q]] # NoFile, content'[dest'[Out[q]]] # Torn
              PROVE  content'[dest'[Out[q]]].version <= before'[q]
  BY DEF Recent
<1>0. TypeOK /\ Met /\ beside[q] = {} /\ Out[q] \in Paths
  BY MetStep, OutAssumption DEF FileInv, CaptureInv
<1>1. ASSUME NEW p \in Procs, ReadBefore(p), p = q
      PROVE  content'[dest'[Out[q]]].version <= before'[q]
  <2>1. UNCHANGED <<dest, content>> /\ before'[q] = version
    BY <1>0, <1>1 DEF ReadBefore, fileVars, TypeOK
  <2>2. dest[Out[q]] \in Inodes
    BY <1>0, <2>1 DEF TypeOK
  <2>. QED  BY <2>1, <2>2 DEF FileInv, CaptureInv, OneVersion, IsCapture
<1>2. CASE ~ \E p \in Procs : ReadBefore(p) /\ p = q
  <2>1. before'[q] = before[q] /\ pc[q] \in {"nodes", "open", "write", "rename"}
    <3>1. CASE Save \/ UNCHANGED vars
      BY <3>1 DEF Save, vars, netVars
    <3>2. ASSUME NEW p \in Procs, p # q,
                 \/ \E S \in Requests, f \in BOOLEAN : Start(p, S, f)
                 \/ RefuseArguments(p) \/ Step(p) \/ Kill(p)
          PROVE  before'[q] = before[q] /\ pc'[q] = pc[q]
      BY <1>0, <3>2 DEF Start, RefuseArguments, Kill, Step, ReadBefore, ServeRoot, AcceptResponse,
         RefuseResponse, RequestFails, OpenPartial, WritePartial, RenamePartial, WriteFails,
         Cleanup, Goto, netVars, TypeOK
    <3>3. ASSUME \/ \E S \in Requests, f \in BOOLEAN : Start(q, S, f)
                 \/ RefuseArguments(q) \/ Step(q) \/ Kill(q)
          PROVE  before'[q] = before[q] /\ pc[q] \in {"nodes", "open", "write", "rename"}
      <4>1. ~ReadBefore(q)
        BY <1>2
      <4>. QED
        BY <1>0, <3>3, <4>1 DEF Start, RefuseArguments, Kill, Step, ServeRoot, AcceptResponse,
           RefuseResponse, RequestFails, OpenPartial, WritePartial, RenamePartial, WriteFails,
           Cleanup, Goto, netVars, TypeOK
    <3>. QED  BY <3>1, <3>2, <3>3 DEF Next
  <2>2. Running(q) /\ Running(q)'
    BY <2>1 DEF Running, Terminal
  <2>3. ASSUME NEW p \in Procs, RenamePartial(p), Out[p] = Out[q]  PROVE FALSE
    <3>1. pc[p] = "rename" /\ pc'[p] = "exit0"
      BY <1>0, <2>3 DEF RenamePartial, Goto, TypeOK
    <3>2. p # q /\ Running(p)
      BY <3>1 DEF Running, Terminal
    <3>. QED  BY <1>0, <2>2, <2>3, <3>2, AloneAtPath
  <2>4. ASSUME NEW p \in Procs, Out[p] = Out[q], beside[p] # {}, pc[p] = "write"  PROVE FALSE
    <3>1. p # q /\ Running(p)
      BY <1>0, <2>4 DEF Running, Terminal
    <3>. QED  BY <1>0, <2>2, <2>4, <3>1, AloneAtPath
  <2>5. dest'[Out[q]] = dest[Out[q]] /\ content'[dest[Out[q]]] = content[dest[Out[q]]]
    <3>1. \/ /\ dest'[Out[q]] = dest[Out[q]]
             /\ dest[Out[q]] # NoFile => content'[dest[Out[q]]] = content[dest[Out[q]]]
          \/ \E p \in Procs : RenamePartial(p) /\ Out[p] = Out[q]
          \/ \E p \in Procs : Out[p] = Out[q] /\ beside[p] # {} /\ pc[p] = "write"
      BY <1>0, PathStep
    <3>. QED  BY <2>3, <2>4, <3>1
  <2>. QED  BY <1>0, <2>1, <2>5 DEF FileInv, Recent
<1>. QED  BY <1>1, <1>2

(* A path that nobody shares is given whole files.                         *)
LEMMA WholeStep == FileInv /\ [Next]_vars => UnsharedWhole'
<1>. SUFFICES ASSUME FileInv, [Next]_vars, NEW x \in Paths, dest'[x] # NoFile, ~Shared(x)'
              PROVE  content'[dest'[x]] # Torn
  BY DEF UnsharedWhole
<1>1. \A p \in Procs : Out[p] = x => beside[p] = {}
  BY MetStep DEF FileInv, CaptureInv, Shared
<1>2. ASSUME NEW p \in Procs, RenamePartial(p), Out[p] = x  PROVE content'[dest'[x]] # Torn
  BY <1>1, <1>2, RenamedIsHeld, TornAssumption
<1>3. CASE dest'[x] = dest[x] /\ (dest[x] # NoFile => content'[dest[x]] = content[dest[x]])
  <2>1. ~Shared(x)
    BY <1>1 DEF Shared
  <2>. QED  BY <1>3, <2>1 DEF FileInv, UnsharedWhole
<1>. QED  BY <1>1, <1>2, <1>3, PathStep

-----------------------------------------------------------------------------
(* Whoever runs beside whom: the invariant about the files holds in every  *)
(* state.                                                                  *)
THEOREM FileInvariant == SafeSpec => []FileInv
<1>1. FileInv /\ [Next]_vars => FileInv'
  <2>. SUFFICES ASSUME FileInv, [Next]_vars  PROVE FileInv'
    OBVIOUS
  <2>1. CaptureInv'
    BY TypeStep, ReadingStep, OneVersionStep DEF FileInv, CaptureInv
  <2>2. Met'
    BY MetStep DEF FileInv, CaptureInv
  <2>. QED
    BY <2>1, <2>2, FilesStep, PermissionStep, RecentStep, WholeStep DEF FileInv
<1>. QED  BY FileInit, <1>1, PTL DEF SafeSpec

(* nodeIO.writeFile: the destination is never a torn file at a path that   *)
(* invocations have for themselves.                                        *)
THEOREM DestinationAlwaysWhole == SafeSpec => []UnsharedWhole
<1>1. FileInv => UnsharedWhole
  BY DEF FileInv
<1>. QED  BY <1>1, FileInvariant, PTL

(* USAGE: what was at a path when an invocation looked there is replaced   *)
(* only under --force; without it, only what somebody installed who was    *)
(* running beside the invocation.                                          *)
THEOREM ReplacedOnlyIfForced == SafeSpec => ReplacedOnlyByForce
<1>. DEFINE Forced == \A x \in Paths :
       dest[x] # NoFile /\ dest'[x] # dest[x]
         => \E p \in Procs : /\ Out[p] = x /\ pc[p] = "rename"
                             /\ force[p] \/ \E q \in beside[p] : pc[q] = "exit0"
<1>1. FileInv /\ [Next]_vars => Forced
  <2>. SUFFICES ASSUME FileInv, [Next]_vars, NEW x \in Paths,
                       dest[x] # NoFile, dest'[x] # dest[x]
                PROVE  \E p \in Procs : /\ Out[p] = x /\ pc[p] = "rename"
                                        /\ force[p] \/ \E q \in beside[p] : pc[q] = "exit0"
    OBVIOUS
  <2>1. PICK p \in Procs : RenamePartial(p) /\ Out[p] = x
    BY PathStep
  <2>2. pc[p] = "rename" /\ Running(p)
    BY <2>1 DEF RenamePartial, Running, Terminal
  <2>3. force[p] \/ \E q \in beside[p] : pc[q] = "exit0"
    BY <2>1, <2>2 DEF FileInv, Permission
  <2>. QED  BY <2>1, <2>2, <2>3
<1>2. FileInv /\ FileInv' /\ [Next]_vars => [Forced]_vars
  BY <1>1
<1>. QED  BY <1>2, FileInvariant, PTL DEF SafeSpec, ReplacedOnlyByForce

(* A capture is never replaced by an older one, but while an invocation    *)
(* writes that was not alone at the path.                                  *)
THEOREM NeverReplacedByOlder == SafeSpec => NeverOlder
<1>. DEFINE Newer == \A x \in Paths :
       Installed(x) \in Snapshots /\ Installed(x)' \in Snapshots
         => \/ Installed(x)'.version >= Installed(x).version
            \/ \E p \in Procs : /\ Out[p] = x /\ beside[p] # {}
                                /\ pc[p] \in {"write", "rename"} /\ pc'[p] # pc[p]
<1>1. FileInv /\ [Next]_vars => Newer
  <2>. SUFFICES ASSUME FileInv, [Next]_vars, NEW x \in Paths,
                       Installed(x) \in Snapshots, Installed(x)' \in Snapshots
                PROVE  \/ Installed(x)'.version >= Installed(x).version
                       \/ \E p \in Procs : /\ Out[p] = x /\ beside[p] # {}
                                           /\ pc[p] \in {"write", "rename"} /\ pc'[p] # pc[p]
    OBVIOUS
  <2>0. /\ Installed(x).version \in Nat /\ \A p \in Procs : before[p] \in Nat
        /\ dest[x] # NoFile /\ Installed(x) = content[dest[x]]
    <3>1. Installed(x).version \in Nat
      BY SnapshotParts, MaxVersionAssumption DEF Versions
    <3>2. \A p \in Procs : before[p] \in Nat
      BY MaxVersionAssumption DEF FileInv, CaptureInv, TypeOK, Versions
    <3>. QED  BY <3>1, <3>2, NoFileAssumption DEF Installed
  <2>1. CASE dest'[x] = dest[x] /\ (dest[x] # NoFile => content'[dest[x]] = content[dest[x]])
    BY <2>0, <2>1 DEF Installed
  <2>2. ASSUME NEW p \in Procs, RenamePartial(p), Out[p] = x, beside[p] = {}
        PROVE  Installed(x)'.version >= Installed(x).version
    <3>1. pc[p] = "rename"
      BY <2>2 DEF RenamePartial
    <3>2. Installed(x)' = held[p] /\ held[p].version = before[p]
      BY <2>2, RenamedIsHeld, NoFileAssumption DEF Installed
    <3>3. content[dest[x]].version <= before[p]
      BY <2>0, <2>2, <3>1, TornAssumption DEF FileInv, Recent
    <3>. QED  BY <2>0, <3>2, <3>3
  <2>3. ASSUME NEW p \in Procs, Out[p] = x, beside[p] # {},
               RenamePartial(p) \/ (pc[p] = "write" /\ (WritePartial(p) \/ WriteFails(p)))
        PROVE  pc[p] \in {"write", "rename"} /\ pc'[p] # pc[p]
    BY <2>3 DEF RenamePartial, WritePartial, WriteFails, Goto, FileInv, CaptureInv, TypeOK
  <2>. QED  BY <2>1, <2>2, <2>3, PathStep
<1>2. FileInv /\ FileInv' /\ [Next]_vars => [Newer]_vars
  BY <1>1
<1>. QED  BY <1>2, FileInvariant, PTL DEF SafeSpec, NeverOlder

(* Both together: an installed capture is lost only to --force or to       *)
(* invocations that meet at its path.                                      *)
THEOREM CapturesAreKeptAtTheirPaths == SafeSpec => CapturesAreKept
  BY ReplacedOnlyIfForced, NeverReplacedByOlder DEF CapturesAreKept

-----------------------------------------------------------------------------
(***************************************************************************)
(* Refinement: a path is written atomically, with one moment of the file,  *)
(* by every invocation that is alone at it; and what the others do to it   *)
(* is no worse than a mixture.                                             *)
(***************************************************************************)
(* The phase a stage belongs to.                                           *)
LEMMA PhaseOfStage ==
    ASSUME TypeOK, NEW p \in Procs
    PROVE  /\ pc[p] = "idle" <=> Phase(p) = "idle"
           /\ pc[p] = "meta" <=> Phase(p) = "started"
           /\ pc[p] = "exit0" <=> Phase(p) = "installed"
           /\ pc[p] \in {"exit2", "killed"} <=> Phase(p) = "failed"
           /\ pc[p] \in {"nodes", "open", "write", "rename", "cleanup"} <=> Phase(p) = "running"
BY DEF TypeOK, Stages, Phase

LEMMA RefinesInit == Init => Atomic!Init
<1>. SUFFICES ASSUME Init  PROVE Atomic!Init
  OBVIOUS
<1>1. TypeOK /\ \A p \in Procs : Phase(p) = "idle"
  BY CaptureInit, PhaseOfStage DEF CaptureInv, Init
<1>2. history \in [Atomic!Versions -> Designs]
  BY <1>1 DEF TypeOK, Versions, Atomic!Versions
<1>3. \A x \in Paths : Installed(x) \in {NoFile} \cup {Atomic!Shown(0, S) : S \in Requests}
  <2>1. PICK S \in Requests :
          content = [i \in Inodes |->
                       IF \E x \in Paths : dest[x] = i THEN Capture(history, 0, S) ELSE Torn]
    BY DEF Init
  <2>. QED  BY <1>1, <2>1 DEF TypeOK, Installed, Capture, Atomic!Shown
<1>. QED  BY <1>1, <1>2, <1>3 DEF Init, Atomic!Init

(* A snapshot, wherever it is, is what the abstract capture shows of some  *)
(* version that the file has had.                                          *)
LEMMA CaptureIsShown ==
    ASSUME TypeOK, NEW s \in Snapshots, IsCapture(s)
    PROVE  \E S \in Requests :
             /\ s = Atomic!Shown(s.version, S)
             /\ \A r \in S : history[s.version][r] # Absent
<1>1. PICK S \in Requests :
        /\ s.nodes \in [S -> Contents \cup Faults]
        /\ s = [version |-> s.version, nodes |-> s.nodes]
  BY SnapshotParts
<1>2. \A r \in S : s.nodes[r] = history[s.version][r] /\ s.nodes[r] # Absent
  BY <1>1 DEF IsCapture
<1>3. s.nodes = [r \in S |-> history[s.version][r]]
  BY <1>1, <1>2
<1>. QED  BY <1>1, <1>2, <1>3 DEF Atomic!Shown

(* Starting: refused because of what is at the path, or on the way beside  *)
(* whoever is at work there.                                               *)
LEMMA RefinesStart ==
    ASSUME FileInv, TypeOK', NEW p \in Procs, NEW S \in Requests, NEW f \in BOOLEAN, Start(p, S, f)
    PROVE  Atomic!Start(p)
<1>. DEFINE phase == [q \in Procs |-> Phase(q)]
            since == [q \in Procs |-> before[q]]
            installed == [x \in Paths |-> Installed(x)]
            others == {q \in Procs \ {p} : Out[q] = Out[p] /\ phase[q] \in {"started", "running"}}
<1>0. TypeOK /\ Out[p] \in Paths
  BY OutAssumption DEF FileInv, CaptureInv
<1>1. /\ pc[p] = "idle" /\ force' = [force EXCEPT ![p] = f]
      /\ \/ pc' = [pc EXCEPT ![p] = "exit2"] /\ beside' = beside /\ dest[Out[p]] # NoFile /\ ~f
         \/ pc' = [pc EXCEPT ![p] = "meta"] /\ Join(p) /\ (dest[Out[p]] = NoFile \/ f)
      /\ UNCHANGED <<version, history, before, dest, content>>
  BY DEF Start, Goto, designVars, netVars, fileVars
<1>2. UNCHANGED <<since, installed>> /\ Phase(p) = "idle"
  BY <1>0, <1>1, PhaseOfStage DEF Installed
<1>3. installed[Out[p]] = NoFile <=> dest[Out[p]] = NoFile
  BY <1>0, NoFileAssumption, TornAssumption DEF Installed, TypeOK
<1>4. \A stage : pc' = [pc EXCEPT ![p] = stage] => phase' = [phase EXCEPT ![p] = Phase(p)']
  BY <1>0 DEF Phase, TypeOK
<1>5. force'[p] = f /\ force' \in {[force EXCEPT ![p] = g] : g \in BOOLEAN}
  BY <1>0, <1>1 DEF TypeOK
<1>6. CASE pc' = [pc EXCEPT ![p] = "exit2"] /\ beside' = beside /\ dest[Out[p]] # NoFile /\ ~f
  <2>1. Phase(p)' = "failed"
    BY <1>0, <1>6 DEF Phase, TypeOK
  <2>2. phase' = [phase EXCEPT ![p] = "failed"]
    BY <1>4, <1>6, <2>1
  <2>3. installed[Out[p]] # NoFile /\ ~force'[p]
    BY <1>3, <1>5, <1>6
  <2>. HIDE DEF phase, since, installed
  <2>. QED  BY <1>1, <1>2, <1>5, <1>6, <2>2, <2>3 DEF Atomic!Start, phase, since, installed
<1>7. CASE pc' = [pc EXCEPT ![p] = "meta"] /\ Join(p) /\ (dest[Out[p]] = NoFile \/ f)
  <2>1. Phase(p)' = "started"
    BY <1>0, <1>7 DEF Phase, TypeOK
  <2>2. phase' = [phase EXCEPT ![p] = "started"]
    BY <1>4, <1>7, <2>1
  <2>3. installed[Out[p]] = NoFile \/ force'[p]
    BY <1>3, <1>5, <1>7
  <2>4. others = Others(p)
    <3>1. \A q \in Procs : phase[q] \in {"started", "running"} <=> Running(q)
      BY <1>0, PhaseOfStage DEF Running, Terminal, TypeOK, Stages
    <3>. QED  BY <3>1 DEF Others
  <2>5. beside' = [q \in Procs |-> IF q = p THEN others
                                   ELSE IF q \in others THEN beside[q] \cup {p}
                                   ELSE beside[q]]
    BY <1>7, <2>4 DEF Join
  <2>. QED  BY <1>1, <1>2, <1>5, <2>2, <2>3, <2>5 DEF Atomic!Start
<1>. QED  BY <1>1, <1>6, <1>7

(* The rename: one moment of the file for who was alone, a mixture for who *)
(* was not.                                                                *)
LEMMA RefinesRename ==
    ASSUME FileInv, TypeOK', NEW p \in Procs, RenamePartial(p)
    PROVE  Atomic!Install(p) \/ Atomic!Mix(p)
<1>. DEFINE phase == [q \in Procs |-> Phase(q)]
            since == [q \in Procs |-> before[q]]
            installed == [x \in Paths |-> Installed(x)]
<1>0. TypeOK /\ Out[p] \in Paths
  BY OutAssumption DEF FileInv, CaptureInv
<1>1. /\ UNCHANGED <<version, history, force, beside, before, content>> /\ pc[p] = "rename"
      /\ dest' = [dest EXCEPT ![Out[p]] = partial[Out[p]]] /\ partial[Out[p]] \in Inodes
      /\ pc' = [pc EXCEPT ![p] = "exit0"]
  BY <1>0 DEF RenamePartial, designVars, netVars, Goto, TypeOK
<1>2. UNCHANGED since
  BY <1>1
<1>3. Phase(p) = "running" /\ phase' = [phase EXCEPT ![p] = "installed"]
  BY <1>0, <1>1 DEF Phase, TypeOK
<1>4. installed' = [installed EXCEPT ![Out[p]] = content[partial[Out[p]]]]
  BY <1>0, <1>1, NoFileAssumption DEF Installed, TypeOK
<1>5. Atomic!MayReplace(p)
  <2>1. dest[Out[p]] = NoFile \/ force[p] \/ \E q \in beside[p] : pc[q] = "exit0"
    BY <1>1 DEF FileInv, Permission, Running, Terminal
  <2>2. \A q \in beside[p] : pc[q] = "exit0" => q \in Procs /\ phase[q] = "installed"
    BY <1>0, PhaseOfStage DEF TypeOK
  <2>3. dest[Out[p]] = NoFile => installed[Out[p]] = NoFile
    BY <1>0 DEF Installed
  <2>. QED  BY <2>1, <2>2, <2>3 DEF Atomic!MayReplace
<1>6. CASE beside[p] = {}
  <2>1. /\ content[partial[Out[p]]] = held[p]
        /\ held[p] \in Snapshots /\ held[p].version = before[p]
    BY <1>1, <1>6 DEF FileInv, Undisturbed, Handles
  <2>2. PICK S \in Requests :
          /\ held[p] = Atomic!Shown(before[p], S)
          /\ \A r \in S : history[before[p]][r] # Absent
    BY <1>0, <2>1, CaptureIsShown, TornAssumption DEF FileInv, CaptureInv, OneVersion
  <2>3. before[p] \in since[p]..version
    BY <1>0, MaxVersionAssumption DEF TypeOK, Versions, FileInv, CaptureInv, Reading
  <2>4. installed' = [installed EXCEPT ![Out[p]] = Atomic!Shown(before[p], S)]
    BY <1>4, <2>1, <2>2
  <2>. QED  BY <1>1, <1>2, <1>3, <1>5, <2>2, <2>3, <2>4 DEF Atomic!Install
<1>7. CASE beside[p] # {}
  <2>1. content[partial[Out[p]]] \in Atomic!Readings
    <3>1. CASE content[partial[Out[p]]] # Torn
      <4>1. content[partial[Out[p]]] \in Snapshots /\ IsCapture(content[partial[Out[p]]])
        BY <1>0, <1>1, <3>1 DEF TypeOK, FileInv, CaptureInv, OneVersion
      <4>2. content[partial[Out[p]]].version \in 0..version
        BY <1>0, <4>1, SnapshotParts, MaxVersionAssumption DEF IsCapture, Versions, TypeOK
      <4>. QED  BY <1>0, <4>1, <4>2, CaptureIsShown DEF Atomic!Readings
    <3>. QED  BY <3>1 DEF Atomic!Readings
  <2>2. \E t \in Atomic!Readings : installed' = [installed EXCEPT ![Out[p]] = t]
    BY <1>4, <2>1
  <2>3. phase' \in {phase, [phase EXCEPT ![p] = "installed"]} /\ phase[p] = "running"
    BY <1>3
  <2>. QED  BY <1>1, <1>2, <1>5, <1>7, <2>2, <2>3, Zenon DEF Atomic!Mix
<1>. QED  BY <1>6, <1>7

(* A write to a file that another invocation has renamed to the path.      *)
LEMMA RefinesMixing ==
    ASSUME FileInv, TypeOK', NEW p \in Procs, WritePartial(p) \/ WriteFails(p),
           beside[p] # {}, pc[p] = "write", dest[Out[p]] # NoFile,
           ~ UNCHANGED [x \in Paths |-> Installed(x)]
    PROVE  Atomic!Mix(p)
<1>. DEFINE phase == [q \in Procs |-> Phase(q)]
            since == [q \in Procs |-> before[q]]
            installed == [x \in Paths |-> Installed(x)]
            s == content'[dest[Out[p]]]
<1>0. TypeOK /\ Out[p] \in Paths
  BY OutAssumption DEF FileInv, CaptureInv
<1>1. /\ UNCHANGED <<version, history, force, beside, before, dest, held>>
      /\ \E stage \in {"rename", "cleanup"} : pc' = [pc EXCEPT ![p] = stage]
      /\ \E c \in {held[p], Torn} : content' = [content EXCEPT ![fd[p]] = c]
  BY DEF WritePartial, WriteFails, designVars, netVars, Goto
<1>2. UNCHANGED since
  BY <1>1
<1>3. phase[p] = "running" /\ UNCHANGED phase
  BY <1>0, <1>1 DEF Phase, TypeOK
<1>4. \A x \in Paths : x # Out[p] => Installed(x)' = Installed(x)
  BY <1>0, <1>1, NoFileAssumption DEF Installed, FileInv, Handles, TypeOK
<1>5. installed' = [installed EXCEPT ![Out[p]] = s]
  BY <1>0, <1>1, <1>4 DEF Installed
<1>6. Atomic!MayReplace(p)
  <2>1. force[p] \/ \E q \in beside[p] : pc[q] = "exit0"
    BY DEF FileInv, Permission, Running, Terminal
  <2>2. \A q \in beside[p] : pc[q] = "exit0" => q \in Procs /\ phase[q] = "installed"
    BY <1>0, PhaseOfStage DEF TypeOK
  <2>. QED  BY <2>1, <2>2 DEF Atomic!MayReplace
<1>7. s \in Atomic!Readings
  <2>1. s \in {held[p], Torn, content[dest[Out[p]]]} /\ dest[Out[p]] \in Inodes
    BY <1>0, <1>1 DEF TypeOK
  <2>2. s # Torn => s \in Snapshots /\ IsCapture(s)
    BY <1>0, <2>1 DEF TypeOK, FileInv, CaptureInv, OneVersion
  <2>3. s # Torn => s.version \in 0..version
    BY <1>0, <2>2, SnapshotParts, MaxVersionAssumption DEF IsCapture, Versions, TypeOK
  <2>. HIDE DEF s
  <2>. QED  BY <1>0, <2>2, <2>3, CaptureIsShown DEF Atomic!Readings
<1>8. \E t \in Atomic!Readings : installed' = [installed EXCEPT ![Out[p]] = t]
  BY <1>5, <1>7
<1>9. phase' \in {phase, [phase EXCEPT ![p] = "installed"]}
  BY <1>3
<1>. QED  BY <1>1, <1>2, <1>3, <1>6, <1>8, <1>9, Zenon DEF Atomic!Mix

LEMMA RefinesNext ==
    ASSUME FileInv, FileInv', [Next]_vars
    PROVE  [Atomic!Next]_(Atomic!vars)
<1>. DEFINE phase == [q \in Procs |-> Phase(q)]
            since == [q \in Procs |-> before[q]]
            installed == [x \in Paths |-> Installed(x)]
<1>0. /\ TypeOK /\ TypeOK'
      /\ \A q \in Procs : pc[q] \in Stages
  BY DEF FileInv, CaptureInv, TypeOK
<1>1. CASE UNCHANGED vars
  <2>1. UNCHANGED <<version, history, force, beside, phase, since, installed>>
    BY <1>1 DEF vars, Phase, Installed
  <2>. QED  BY <2>1 DEF Atomic!vars
<1>2. CASE Save
  <2>1. UNCHANGED <<force, beside, phase, since, installed>>
    BY <1>2 DEF Save, netVars, fileVars, Phase, Installed
  <2>2. version' = version + 1 /\ \E d \in Designs : history' = [history EXCEPT ![version + 1] = d]
    BY <1>2 DEF Save
  <2>. QED  BY <2>1, <2>2 DEF Atomic!Next, Atomic!Save
<1>3. ASSUME NEW p \in Procs, NEW S \in Requests, NEW f \in BOOLEAN, Start(p, S, f)
      PROVE  Atomic!Start(p)
  BY <1>0, <1>3, RefinesStart
<1>4. ASSUME NEW p \in Procs, ReadBefore(p)  PROVE Atomic!Begin(p)
  <2>1. UNCHANGED <<version, history, force, beside, dest, content>> /\ pc[p] = "meta"
        /\ before' = [before EXCEPT ![p] = version]
    BY <1>4 DEF ReadBefore, designVars, fileVars
  <2>2. UNCHANGED installed
    BY <2>1 DEF Installed
  <2>3. Phase(p) = "started" /\ phase' = [phase EXCEPT ![p] = "running"]
    BY <1>4, <1>0, <2>1 DEF ReadBefore, Goto, Phase, TypeOK
  <2>4. since' = [since EXCEPT ![p] = version]
    BY <1>0, <2>1 DEF TypeOK
  <2>. QED  BY <2>1, <2>2, <2>3, <2>4 DEF Atomic!Begin
<1>5. ASSUME NEW p \in Procs, RenamePartial(p)  PROVE Atomic!Install(p) \/ Atomic!Mix(p)
  BY <1>0, <1>5, RefinesRename
<1>6. ASSUME NEW p \in Procs,
             RefuseArguments(p) \/ RefuseResponse(p) \/ RequestFails(p) \/ Cleanup(p) \/ Kill(p)
      PROVE  Atomic!Fail(p)
  <2>1. UNCHANGED <<version, history, force, beside, before, dest, content>>
    BY <1>6 DEF RefuseArguments, RefuseResponse, RequestFails, Cleanup, Kill, designVars,
       netVars, fileVars
  <2>2. UNCHANGED <<since, installed>>
    BY <2>1 DEF Installed
  <2>3. Phase(p) \in {"idle", "started", "running"}
    BY <1>6, <1>0, PhaseOfStage DEF RefuseArguments, RefuseResponse, RequestFails, Cleanup, Kill,
       Running, Terminal, Stages
  <2>4. \E stage \in {"exit2", "killed"} : pc' = [pc EXCEPT ![p] = stage]
    BY <1>6 DEF RefuseArguments, RefuseResponse, RequestFails, Cleanup, Kill, Goto
  <2>5. phase' = [phase EXCEPT ![p] = "failed"]
    BY <1>0, <2>4 DEF Phase, TypeOK
  <2>. QED  BY <2>1, <2>2, <2>3, <2>5 DEF Atomic!Fail
<1>7. ASSUME NEW p \in Procs,
             \/ \E r \in Roots : ServeRoot(p, r)
             \/ AcceptResponse(p) \/ OpenPartial(p) \/ WritePartial(p) \/ WriteFails(p)
      PROVE  UNCHANGED Atomic!vars \/ Atomic!Mix(p)
  <2>1. UNCHANGED <<version, history, force, beside, before>>
    BY <1>7 DEF ServeRoot, AcceptResponse, OpenPartial, WritePartial, WriteFails, designVars, netVars
  <2>2. UNCHANGED since
    BY <2>1
  <2>3. \/ UNCHANGED pc
        \/ \E stage \in {"open", "write", "rename", "cleanup"} :
             /\ pc[p] \in {"nodes", "open", "write", "rename"}
             /\ pc' = [pc EXCEPT ![p] = stage]
    BY <1>7 DEF ServeRoot, AcceptResponse, OpenPartial, WritePartial, WriteFails, Goto
  <2>4. UNCHANGED phase
    BY <1>0, <2>3 DEF Phase, TypeOK
  <2>5. CASE UNCHANGED installed
    BY <2>1, <2>2, <2>4, <2>5 DEF Atomic!vars
  <2>6. CASE ~ UNCHANGED installed
    <3>1. PICK x \in Paths : Installed(x)' # Installed(x)
      BY <2>6
    <3>2. ASSUME NEW q \in Procs, q # p \/ RenamePartial(q)
          PROVE  ~RenamePartial(q) /\ ~((WritePartial(q) \/ WriteFails(q)) /\ pc[q] = "write")
      <4>1. q # p => pc'[q] = pc[q]
        BY <1>0, <2>3 DEF TypeOK
      <4>2. RenamePartial(q) => pc[q] = "rename" /\ pc'[q] = "exit0"
        BY <1>0 DEF RenamePartial, Goto, TypeOK
      <4>3. (WritePartial(q) \/ WriteFails(q)) /\ pc[q] = "write" => pc'[q] # pc[q]
        BY <1>0 DEF WritePartial, WriteFails, Goto, TypeOK
      <4>4. ~RenamePartial(p)
        BY <1>0, <2>3 DEF RenamePartial, Goto, TypeOK
      <4>. QED  BY <3>2, <4>1, <4>2, <4>3, <4>4
    <3>3. ~(dest'[x] = dest[x] /\ (dest[x] # NoFile => content'[dest[x]] = content[dest[x]]))
      BY <3>1 DEF Installed
    <3>4. PICK q \in Procs :
            \/ RenamePartial(q)
            \/ /\ WritePartial(q) \/ WriteFails(q)
               /\ Out[q] = x /\ beside[q] # {} /\ pc[q] = "write" /\ dest[x] # NoFile
      BY <3>3, PathStep
    <3>5. q = p /\ ~RenamePartial(q)
      BY <3>2, <3>4
    <3>. QED  BY <1>0, <2>6, <3>4, <3>5, RefinesMixing
  <2>. QED  BY <2>5, <2>6
<1>. HIDE DEF phase, since, installed
<1>8. CASE Next
  <2>1. CASE \E p \in Procs : Step(p)
    <3>1. PICK p \in Procs : Step(p)
      BY <2>1
    <3>. QED  BY <3>1, <1>4, <1>5, <1>6, <1>7 DEF Step, Atomic!Next
  <2>2. CASE \E p \in Procs, S \in Requests, f \in BOOLEAN : Start(p, S, f)
    BY <1>3, <2>2 DEF Atomic!Next
  <2>3. CASE \E p \in Procs : RefuseArguments(p) \/ Kill(p)
    BY <1>6, <2>3 DEF Atomic!Next
  <2>. QED  BY <1>2, <1>8, <2>1, <2>2, <2>3 DEF Next
<1>. QED  BY <1>1, <1>8

(* The whole of acquire - requests, bracket, temporary file, rename and    *)
(* clean-up - implements the atomic capture of AtomicCapture, for any      *)
(* number of invocations beside each other.                                *)
THEOREM AcquireImplementsAtomicCapture == SafeSpec => ImplementsAtomicCapture
<1>1. FileInv /\ FileInv' /\ [Next]_vars => [Atomic!Next]_(Atomic!vars)
  BY RefinesNext
<1>. QED
  BY <1>1, RefinesInit, FileInvariant, PTL
     DEF SafeSpec, ImplementsAtomicCapture, Atomic!Spec
=============================================================================
