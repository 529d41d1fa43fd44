----------------------------- MODULE MCCoreRun ------------------------------
(***************************************************************************)
(* Model checking CoreRun.                                                 *)
(***************************************************************************)
EXTENDS CoreRun, TLC

RunSymmetry == Permutations(Posts) \cup Permutations(Runs) \cup Permutations(Users)
=============================================================================
