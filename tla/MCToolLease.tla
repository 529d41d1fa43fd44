---------------------------- MODULE MCToolLease -----------------------------
(***************************************************************************)
(* Model checking ToolLease: symmetry sets.                                *)
(***************************************************************************)
EXTENDS ToolLease, TLC

InvocationSymmetry == Permutations(Invocations)
=============================================================================
