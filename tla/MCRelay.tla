------------------------------ MODULE MCRelay -------------------------------
(***************************************************************************)
(* Model checking Relay.  Liveness is checked, so no symmetry is used.     *)
(***************************************************************************)
EXTENDS Relay
=============================================================================
