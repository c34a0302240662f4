------------------------------- MODULE Acquire -------------------------------
(***************************************************************************)
(* The `acquire` command: several command line processes fetch the same    *)
(* Figma file while a designer keeps saving it, and each installs what it  *)
(* saw at its --out path.                                                  *)
(*                                                                         *)
(* A process is one invocation of                                          *)
(*     figma-ir acquire --file F --roots ... --out X [--force]             *)
(* and its steps are the points where the single-threaded program hands    *)
(* control to something shared: three HTTP requests (file metadata, nodes, *)
(* file metadata again) and the file system calls exists, open, write,     *)
(* rename and unlink.  Everything between two such points is synchronous   *)
(* and belongs to the step that follows the answer.                        *)
(*                                                                         *)
(* The design is abstracted to what a root looks like in each version of   *)
(* the file; the file system to inodes, because a process that has the     *)
(* temporary file open keeps writing to it after somebody renamed it.      *)
(***************************************************************************)
EXTENDS Integers, FiniteSets

CONSTANTS
    Procs,      \* invocations of the command
    Paths,      \* the --out paths
    Out,        \* Out[p]: the --out path of invocation p
    Roots,      \* node ids
    Requests,   \* the sets of roots an invocation may ask for
    Designs,    \* what the file may look like: a content for each root
    Absent,     \* the content of a root that is not in the file
    Faults,     \* entries of a nodes response that describe no coherent file:
                \* filed under another id, or a style defined twice
    Inodes,     \* supply of inodes
    NoFile,     \* no inode: the name does not exist
    Torn,       \* content of a file that is not one whole snapshot
    MaxVersion  \* bound: the designer saves at most MaxVersion times

Contents == (UNION {{d[r] : r \in Roots} : d \in Designs}) \cup {Absent}
Versions == 0..MaxVersion

ASSUME OutAssumption == Out \in [Procs -> Paths]
ASSUME RequestsAssumption == Requests \subseteq (SUBSET Roots) \ {{}}
ASSUME DesignsAssumption ==
    Designs # {} /\ \A d \in Designs : DOMAIN d = Roots
ASSUME FaultsAssumption == Faults \cap Contents = {}
ASSUME MaxVersionAssumption == MaxVersion \in Nat

(***************************************************************************)
(* A snapshot: the version it claims and the content of each root it was   *)
(* asked for.  The digests and the snapshot id are functions of these two. *)
(***************************************************************************)
Snapshots == UNION {[version : Versions, nodes : [S -> Contents \cup Faults]] : S \in Requests}

ASSUME NoFileAssumption == NoFile \notin Inodes \cup Snapshots \cup {Torn}
ASSUME TornAssumption == Torn \notin Snapshots

VARIABLES
    version,    \* the file's current version
    history,    \* history[v]: the design saved as version v
    pc,         \* where each invocation stands
    force,      \* whether it was given --force
    want,       \* the roots it asked for
    before,     \* the version its first metadata read returned
    resp,       \* the entries of its nodes response the service has filled in
    served,     \* the roots those are
    held,       \* the snapshot it holds in memory once validated
    fd,         \* the inode it has open for writing
    dest,       \* dest[x]: the inode named x
    partial,    \* partial[x]: the inode named x.partial
    content,    \* content of each inode
    beside      \* history: the invocations for its path it has run beside;
                \* no step depends on it

designVars == <<version, history>>
netVars == <<before, resp, served>>
fileVars == <<dest, partial, content>>
vars == <<version, history, pc, force, want, before, resp, served, held, fd,
          dest, partial, content, beside>>

Stages == {"idle", "meta", "nodes", "open", "write", "rename", "cleanup",
           "exit0", "exit2", "killed"}
Terminal == {"exit0", "exit2", "killed"}

Running(p) == pc[p] \notin Terminal \cup {"idle"}

Goto(p, stage) == pc' = [pc EXCEPT ![p] = stage]

(* The running invocations for the path of p.  The code keeps nobody from  *)
(* starting while there are some.                                          *)
Others(p) == {q \in Procs \ {p} : Out[q] = Out[p] /\ Running(q)}

(* From now on p runs beside them, and they beside p.                      *)
Join(p) ==
    beside' = [q \in Procs |-> IF q = p THEN Others(p)
                               ELSE IF q \in Others(p) THEN beside[q] \cup {p}
                               ELSE beside[q]]

-----------------------------------------------------------------------------
(***************************************************************************)
(* The design as a snapshot of roots S at version v would show it.         *)
(***************************************************************************)
Capture(h, v, S) == [version |-> v, nodes |-> [r \in S |-> h[v][r]]]

-----------------------------------------------------------------------------
(***************************************************************************)
(* Slips: what an edit of the code could make of an operation.  They are   *)
(* no part of the specification; the property that notices each of them is *)
(* shown by putting it in the place of the operation it is named after.    *)
(***************************************************************************)
(* Start without the look at the destination.                              *)
StartUnasked(p, S, f) ==
    /\ pc[p] = "idle"
    /\ force' = [force EXCEPT ![p] = f]
    /\ want' = [want EXCEPT ![p] = S]
    /\ Goto(p, "meta")
    /\ Join(p)
    /\ UNCHANGED <<designVars, netVars, held, fd, fileVars>>

(* Bracketed without the second look at the version.                       *)
BracketedOnce(p) == TRUE

(* Coherent with a null entry read as "nothing there".                     *)
CoherentWithHoles(p) == \A r \in want[p] : resp[p][r] \notin Faults

(* RefuseResponse that retries by itself.                                  *)
RefuseAndRetry(p) ==
    /\ pc[p] = "nodes"
    /\ served[p] = want[p]
    /\ before[p] # version \/ \E r \in want[p] : resp[p][r] \in Faults \cup {Absent}
    /\ served' = [served EXCEPT ![p] = {}]
    /\ Goto(p, "meta")
    /\ UNCHANGED <<designVars, force, want, before, resp, held, fd, fileVars, beside>>

(* RequestFails with the exit code of a verdict.                           *)
RequestFailsAsVerdict(p) ==
    /\ pc[p] \in {"meta", "nodes"}
    /\ Goto(p, "exit1")
    /\ UNCHANGED <<designVars, force, want, netVars, held, fd, fileVars, beside>>

(* OpenPartial that opens the destination itself when there is one.        *)
OpenDestination(p) ==
    /\ pc[p] = "open"
    /\ \E i \in Inodes :
         /\ IF dest[Out[p]] # NoFile THEN i = dest[Out[p]]
            ELSE IF partial[Out[p]] # NoFile THEN i = partial[Out[p]]
            ELSE /\ \A x \in Paths : i \notin {dest[x], partial[x]}
                 /\ \A q \in Procs : fd[q] # i
         /\ partial' = [partial EXCEPT ![Out[p]] = i]
         /\ content' = [content EXCEPT ![i] = Torn]
         /\ fd' = [fd EXCEPT ![p] = i]
    /\ Goto(p, "write")
    /\ UNCHANGED <<designVars, force, want, netVars, held, dest, beside>>

-----------------------------------------------------------------------------
Init ==
    /\ version = 0
    /\ history \in {[v \in Versions |-> d] : d \in Designs}
    /\ pc = [p \in Procs |-> "idle"]
    /\ force = [p \in Procs |-> FALSE]
    /\ want = [p \in Procs |-> {}]
    /\ before = [p \in Procs |-> 0]
    /\ resp = [p \in Procs |-> [r \in Roots |-> Absent]]
    /\ served = [p \in Procs |-> {}]
    /\ held = [p \in Procs |-> Torn]
    /\ fd = [p \in Procs |-> NoFile]
    /\ beside = [p \in Procs |-> {}]
    /\ partial = [x \in Paths |-> NoFile]
    /\ dest \in [Paths -> Inodes \cup {NoFile}]
    /\ \A x, y \in Paths : dest[x] = dest[y] => x = y \/ dest[x] = NoFile
    \* A path that is taken holds a capture of the file as it still is.
    /\ \E S \in Requests :
         /\ \A x \in Paths : dest[x] # NoFile => \A r \in S : history[0][r] # Absent
         /\ content = [i \in Inodes |->
                         IF \E x \in Paths : dest[x] = i THEN Capture(history, 0, S) ELSE Torn]

(***************************************************************************)
(* The designer saves the file: a new version, never one used before.  The *)
(* roots may look the same in it, if something else was changed.           *)
(***************************************************************************)
Save ==
    /\ version < MaxVersion
    /\ \E d \in Designs : history' = [history EXCEPT ![version + 1] = d]
    /\ version' = version + 1
    /\ UNCHANGED <<pc, force, want, netVars, held, fd, fileVars, beside>>

(***************************************************************************)
(* The command starts: an existing destination is refused before the       *)
(* network is used, unless --force; it is not looked for again.            *)
(***************************************************************************)
Start(p, S, f) ==
    /\ pc[p] = "idle"
    /\ force' = [force EXCEPT ![p] = f]
    /\ want' = [want EXCEPT ![p] = S]
    /\ \/ /\ dest[Out[p]] # NoFile /\ ~f
          /\ Goto(p, "exit2")
          /\ UNCHANGED beside
       \/ /\ dest[Out[p]] = NoFile \/ f
          /\ Goto(p, "meta")
          /\ Join(p)
    /\ UNCHANGED <<designVars, netVars, held, fd, fileVars>>

(* No token, a malformed or repeated root, an unknown geometry mode.       *)
RefuseArguments(p) ==
    /\ pc[p] = "idle"
    /\ Goto(p, "exit2")
    /\ UNCHANGED <<designVars, force, want, netVars, held, fd, fileVars, beside>>

(***************************************************************************)
(* acquireSnapshot.  The service answers the nodes request one root at a   *)
(* time: nothing says that one response describes one moment of the file,  *)
(* which is why the request is bracketed by two reads of the version.      *)
(***************************************************************************)
ReadBefore(p) ==
    /\ pc[p] = "meta"
    /\ before' = [before EXCEPT ![p] = version]
    /\ Goto(p, "nodes")
    /\ UNCHANGED <<designVars, force, want, resp, served, held, fd, fileVars, beside>>

ServeRoot(p, r) ==
    /\ pc[p] = "nodes"
    /\ r \in want[p] \ served[p]
    /\ \E e \in Faults \cup {history[version][r]} :
         resp' = [resp EXCEPT ![p] = [@ EXCEPT ![r] = e]]
    /\ served' = [served EXCEPT ![p] = @ \cup {r}]
    /\ UNCHANGED <<designVars, pc, force, want, before, held, fd, fileVars, beside>>

(* What the answers must look like to become a snapshot.                   *)
Bracketed(p) == before[p] = version
Coherent(p) == \A r \in want[p] : resp[p][r] \notin Faults \cup {Absent}

AcceptResponse(p) ==
    /\ pc[p] = "nodes"
    /\ served[p] = want[p]
    /\ Bracketed(p) /\ Coherent(p)
    /\ held' = [held EXCEPT ![p] =
                  [version |-> before[p], nodes |-> [r \in want[p] |-> resp[p][r]]]]
    /\ Goto(p, "open")
    /\ UNCHANGED <<designVars, force, want, netVars, fd, fileVars, beside>>

RefuseResponse(p) ==
    /\ pc[p] = "nodes"
    /\ served[p] = want[p]
    /\ ~(Bracketed(p) /\ Coherent(p))
    /\ Goto(p, "exit2")
    /\ UNCHANGED <<designVars, force, want, netVars, held, fd, fileVars, beside>>

(* A request is refused, times out, or answers something unreadable.       *)
RequestFails(p) ==
    /\ pc[p] \in {"meta", "nodes"}
    /\ Goto(p, "exit2")
    /\ UNCHANGED <<designVars, force, want, netVars, held, fd, fileVars, beside>>

(***************************************************************************)
(* nodeIO.writeFile: write x.partial, then rename it to x.                 *)
(***************************************************************************)
Free(i) ==
    /\ \A x \in Paths : i \notin {dest[x], partial[x]}
    /\ \A q \in Procs : fd[q] # i

OpenPartial(p) ==
    /\ pc[p] = "open"
    /\ \E i \in Inodes :
         /\ IF partial[Out[p]] = NoFile THEN Free(i) ELSE i = partial[Out[p]]
         /\ partial' = [partial EXCEPT ![Out[p]] = i]
         /\ content' = [content EXCEPT ![i] = Torn]
         /\ fd' = [fd EXCEPT ![p] = i]
    /\ Goto(p, "write")
    /\ UNCHANGED <<designVars, force, want, netVars, held, dest, beside>>

(***************************************************************************)
(* The write lands on the inode that was opened, whatever it is named by   *)
(* now.  On a file that another invocation has open as well, or has        *)
(* already written, the two texts may end up mixed.                        *)
(***************************************************************************)
WritePartial(p) ==
    /\ pc[p] = "write"
    /\ \E c \in {held[p], Torn} :
         /\ c = Torn => \/ content[fd[p]] # Torn
                        \/ \E q \in Procs \ {p} : fd[q] = fd[p]
         /\ content' = [content EXCEPT ![fd[p]] = c]
    /\ fd' = [fd EXCEPT ![p] = NoFile]
    /\ Goto(p, "rename")
    /\ UNCHANGED <<designVars, force, want, netVars, held, dest, partial, beside>>

RenamePartial(p) ==
    LET x == Out[p] IN
    /\ pc[p] = "rename"
    /\ partial[x] # NoFile
    /\ dest' = [dest EXCEPT ![x] = partial[x]]
    /\ partial' = [partial EXCEPT ![x] = NoFile]
    /\ Goto(p, "exit0")
    /\ UNCHANGED <<designVars, force, want, netVars, held, fd, content, beside>>

(* The open, the write (a full disk, say) or the rename fails; the rename  *)
(* of a name that somebody else has renamed already always does.           *)
WriteFails(p) ==
    /\ pc[p] \in {"open", "write", "rename"}
    /\ content' = IF pc[p] = "write" THEN [content EXCEPT ![fd[p]] = Torn] ELSE content
    /\ fd' = [fd EXCEPT ![p] = NoFile]
    /\ Goto(p, "cleanup")
    /\ UNCHANGED <<designVars, force, want, netVars, held, dest, partial, beside>>

(* The catch block: a failed unlink is ignored, the first error is thrown. *)
Cleanup(p) ==
    /\ pc[p] = "cleanup"
    /\ \/ partial' = [partial EXCEPT ![Out[p]] = NoFile]
       \/ UNCHANGED partial
    /\ Goto(p, "exit2")
    /\ UNCHANGED <<designVars, force, want, netVars, held, fd, dest, content, beside>>

(* The process is killed; the system closes what it had open.              *)
Kill(p) ==
    /\ Running(p)
    /\ fd' = [fd EXCEPT ![p] = NoFile]
    /\ Goto(p, "killed")
    /\ UNCHANGED <<designVars, force, want, netVars, held, fileVars, beside>>

-----------------------------------------------------------------------------
(* What an invocation does once it runs.                                   *)
Step(p) ==
    \/ ReadBefore(p)
    \/ \E r \in Roots : ServeRoot(p, r)
    \/ AcceptResponse(p)
    \/ RefuseResponse(p)
    \/ RequestFails(p)
    \/ OpenPartial(p)
    \/ WritePartial(p)
    \/ RenamePartial(p)
    \/ WriteFails(p)
    \/ Cleanup(p)

Next ==
    \/ Save
    \/ \E p \in Procs :
         \/ \E S \in Requests, f \in BOOLEAN : Start(p, S, f)
         \/ RefuseArguments(p)
         \/ Step(p)
         \/ Kill(p)

(* A running process is scheduled and a request is answered or fails.      *)
Fairness == \A p \in Procs : WF_vars(Step(p))

SafeSpec == Init /\ [][Next]_vars
Spec == SafeSpec /\ Fairness

-----------------------------------------------------------------------------
(***************************************************************************)
(* Properties                                                              *)
(***************************************************************************)
(* What a reader finds at path x.                                          *)
Installed(x) == IF dest[x] = NoFile THEN NoFile ELSE content[dest[x]]

(* Every variable has its type.                                            *)
TypeOK ==
    /\ version \in Versions
    /\ history \in [Versions -> Designs]
    /\ pc \in [Procs -> Stages]
    /\ force \in [Procs -> BOOLEAN]
    /\ want \in [Procs -> Requests \cup {{}}]
    /\ before \in [Procs -> Versions]
    /\ resp \in [Procs -> [Roots -> Contents \cup Faults]]
    /\ served \in [Procs -> SUBSET Roots]
    /\ held \in [Procs -> Snapshots \cup {Torn}]
    /\ fd \in [Procs -> Inodes \cup {NoFile}]
    /\ dest \in [Paths -> Inodes \cup {NoFile}]
    /\ partial \in [Paths -> Inodes \cup {NoFile}]
    /\ content \in [Inodes -> Snapshots \cup {Torn}]
    /\ beside \in [Procs -> SUBSET Procs]

(* A snapshot is a capture when it shows the file as it was in the version *)
(* it names, with every root that was asked for present.                   *)
IsCapture(s) ==
    /\ s.version <= version
    /\ \A r \in DOMAIN s.nodes : s.nodes[r] = history[s.version][r] /\ s.nodes[r] # Absent

(* acquireSnapshot: no snapshot spans two versions of the file, has a hole *)
(* in it, or was made from an entry that belongs to another node - neither *)
(* in memory nor anywhere on disk, whatever was saved between the requests *)
(* and whoever else was writing.                                           *)
OneVersion ==
    /\ \A p \in Procs : held[p] # Torn => IsCapture(held[p])
    /\ \A i \in Inodes : content[i] # Torn => IsCapture(content[i])

(* nodeIO.writeFile: "the destination is either the old file or the whole  *)
(* new one", at every moment, after a crash and after a failed write too.  *)
(* Invocations that run beside each other break it: see MCAcquireTorn.     *)
DestinationWhole == \A x \in Paths : dest[x] # NoFile => content[dest[x]] # Torn

(* A path that two invocations have been at work on at once.               *)
Shared(x) == \E p \in Procs : Out[p] = x /\ beside[p] # {}

(* What is left of it: at a path that invocations have for themselves, one *)
(* after the other, the destination is whole after every crash and every   *)
(* failed write, whoever is at work on other paths.                        *)
UnsharedWhole ==
    \A x \in Paths : dest[x] # NoFile /\ ~Shared(x) => content[dest[x]] # Torn

(* USAGE, acquire: "Refuses to replace an existing file unless --force is  *)
(* given."  The code looks once, before it uses the network: an invocation *)
(* without --force replaces a file only if another one, which it has run   *)
(* beside, has installed a capture; never a file that was there when it    *)
(* looked.                                                                 *)
ReplacedOnlyByForce ==
    [][\A x \in Paths :
          dest[x] # NoFile /\ dest'[x] # dest[x]
             => \E p \in Procs :
                  /\ Out[p] = x /\ pc[p] = "rename"
                  /\ force[p] \/ \E q \in beside[p] : pc[q] = "exit0"]_vars

(* A capture gives way to an older one, with or without --force, only      *)
(* while an invocation that was not alone at the path is writing there.    *)
NeverOlder ==
    [][\A x \in Paths :
          Installed(x) \in Snapshots /\ Installed(x)' \in Snapshots
             => \/ Installed(x)'.version >= Installed(x).version
                \/ \E p \in Procs : /\ Out[p] = x /\ beside[p] # {}
                                    /\ pc[p] \in {"write", "rename"} /\ pc'[p] # pc[p]]_vars

(* Both together: what becomes of a capture that is at a path.  The look   *)
(* at the destination and the rename are two moments, and all that the     *)
(* code promises is lost to invocations that meet between them; nothing    *)
(* else loses a capture.                                                   *)
CapturesAreKept == ReplacedOnlyByForce /\ NeverOlder

(* main: every invocation that starts ends, on every error path.           *)
Terminates == \A p \in Procs : Running(p) ~> pc[p] \in Terminal

(***************************************************************************)
(* The command as its caller sees it: see AtomicCapture.                   *)
(***************************************************************************)
Phase(p) ==
    CASE pc[p] = "idle" -> "idle"
      [] pc[p] = "meta" -> "started"
      [] pc[p] = "exit0" -> "installed"
      [] pc[p] \in {"exit2", "killed"} -> "failed"
      [] OTHER -> "running"

Atomic == INSTANCE AtomicCapture WITH
    phase <- [p \in Procs |-> Phase(p)],
    since <- [p \in Procs |-> before[p]],
    installed <- [x \in Paths |-> Installed(x)]

(* Requests, validation, temporary file, rename and clean-up together      *)
(* implement one atomic capture for every invocation that is alone at its  *)
(* path; those that are not may in addition mix what they install.         *)
ImplementsAtomicCapture == Atomic!Spec
=============================================================================
