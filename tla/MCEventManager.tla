--------------------------- MODULE MCEventManager ---------------------------
(***************************************************************************)
(* Model checking EventManager: how many updates the runs emit besides     *)
(* those of their tool calls and their ends, and symmetry: nothing in      *)
(* EventManager chooses among connections, or among runs with one bound.   *)
(***************************************************************************)
EXTENDS EventManager, TLC

CONSTANTS r1, r2, r3

OneLonger  == r1 :> 3 @@ r2 :> 0 @@ r3 :> 0
NoUpdates  == r1 :> 0
TwoUpdates == r1 :> 2

OtherRunsSymmetry == Permutations({r2, r3}) \cup Permutations(Conns)
=============================================================================
