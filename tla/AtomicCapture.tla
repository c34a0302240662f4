---------------------------- MODULE AtomicCapture ----------------------------
(***************************************************************************)
(* What `acquire` promises its caller: between the first look at the file  *)
(* and the end of the command there is one moment whose design is at the   *)
(* path from then on - or the path is as it was.  There are no requests,   *)
(* no temporary file and no half-written text here.                        *)
(*                                                                         *)
(* That is the promise to an invocation that is alone at its path from its *)
(* start to its end.  Of invocations that run beside each other for one    *)
(* path all that is promised is said in Mix.                               *)
(***************************************************************************)
EXTENDS Integers

CONSTANTS Procs, Paths, Out, Roots, Requests, Designs, Absent, NoFile, Torn, MaxVersion

Versions == 0..MaxVersion

VARIABLES
    version,    \* the file's current version
    history,    \* history[v]: the design saved as version v
    phase,      \* "idle", "started", "running", "installed" or "failed"
    force,      \* whether the caller allowed the path to be replaced
    beside,     \* the invocations for its path it has run beside
    since,      \* the version current when the command first saw the file
    installed   \* what a reader finds at each path

vars == <<version, history, phase, force, beside, since, installed>>

(* The design at version v, as a capture of roots S shows it.              *)
Shown(v, S) == [version |-> v, nodes |-> [r \in S |-> history[v][r]]]

Init ==
    /\ version = 0
    /\ history \in [Versions -> Designs]
    /\ phase = [p \in Procs |-> "idle"]
    /\ force = [p \in Procs |-> FALSE]
    /\ beside = [p \in Procs |-> {}]
    /\ since = [p \in Procs |-> 0]
    /\ \A x \in Paths :
         installed[x] \in {NoFile} \cup {Shown(0, S) : S \in Requests}

Save ==
    /\ version' = version + 1
    /\ \E d \in Designs : history' = [history EXCEPT ![version + 1] = d]
    /\ UNCHANGED <<phase, force, beside, since, installed>>

(* The caller says whether a file in the way may be replaced, and is       *)
(* refused if there is one that may not.                                   *)
Start(p) ==
    LET others == {q \in Procs \ {p} : Out[q] = Out[p] /\ phase[q] \in {"started", "running"}} IN
    /\ phase[p] = "idle"
    /\ force' \in {[force EXCEPT ![p] = f] : f \in BOOLEAN}
    /\ \/ /\ installed[Out[p]] # NoFile /\ ~force'[p]
          /\ phase' = [phase EXCEPT ![p] = "failed"]
          /\ UNCHANGED beside
       \/ /\ installed[Out[p]] = NoFile \/ force'[p]
          /\ phase' = [phase EXCEPT ![p] = "started"]
          /\ beside' = [q \in Procs |-> IF q = p THEN others
                                       ELSE IF q \in others THEN beside[q] \cup {p}
                                       ELSE beside[q]]
    /\ UNCHANGED <<version, history, since, installed>>

Begin(p) ==
    /\ phase[p] = "started"
    /\ phase' = [phase EXCEPT ![p] = "running"]
    /\ since' = [since EXCEPT ![p] = version]
    /\ UNCHANGED <<version, history, force, beside, installed>>

(* What is at the path may be replaced if the caller said so, or if it was *)
(* put there by an invocation that has run beside this one.                *)
MayReplace(p) ==
    \/ installed[Out[p]] = NoFile
    \/ force[p]
    \/ \E q \in beside[p] : phase[q] = "installed"

(* One moment of the file, no older than the command, takes the path.      *)
Install(p) ==
    /\ phase[p] = "running"
    /\ MayReplace(p)
    /\ \E v \in since[p]..version, S \in Requests :
         /\ \A r \in S : history[v][r] # Absent
         /\ installed' = [installed EXCEPT ![Out[p]] = Shown(v, S)]
    /\ phase' = [phase EXCEPT ![p] = "installed"]
    /\ UNCHANGED <<version, history, force, beside, since>>

(* What a file written by several may read as: torn, or any one capture.   *)
Readings == {Torn} \cup {Shown(v, S) : v \in 0..version, S \in Requests}

(* An invocation that was not alone leaves a torn text at the path, or a   *)
(* capture that may be the one of another invocation - before its own end  *)
(* or with it.                                                             *)
Mix(p) ==
    /\ phase[p] = "running"
    /\ beside[p] # {}
    /\ MayReplace(p)
    /\ \E s \in Readings : installed' = [installed EXCEPT ![Out[p]] = s]
    /\ phase' \in {phase, [phase EXCEPT ![p] = "installed"]}
    /\ UNCHANGED <<version, history, force, beside, since>>

Fail(p) ==
    /\ phase[p] \in {"idle", "started", "running"}
    /\ phase' = [phase EXCEPT ![p] = "failed"]
    /\ UNCHANGED <<version, history, force, beside, since, installed>>

Next == Save \/ \E p \in Procs : Start(p) \/ Begin(p) \/ Install(p) \/ Mix(p) \/ Fail(p)

Spec == Init /\ [][Next]_vars
=============================================================================
