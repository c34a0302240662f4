------------------------------ MODULE MCAcquire ------------------------------
(***************************************************************************)
(* Instances of Acquire for TLC.                                           *)
(***************************************************************************)
EXTENDS Acquire, TLC

CONSTANTS p1, p2, x1, r1, r2, red, blue

(* Both invocations write the same path.                                   *)
OnePath == [p \in Procs |-> x1]

(* From one save to the next both roots change, one changes, one is        *)
(* deleted, or nothing does, so that equal contents are no equal versions. *)
SomeDesigns ==
    { (r1 :> red) @@ (r2 :> red), (r1 :> blue) @@ (r2 :> blue),
      (r1 :> blue) @@ (r2 :> Absent) }

BothRoots == {{r1, r2}}
=============================================================================
