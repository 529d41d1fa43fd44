---------------------------- MODULE MCApprovals -----------------------------
(***************************************************************************)
(* Model checking Approvals.  A call id comes back with a request of other *)
(* arguments.                                                              *)
(***************************************************************************)
EXTENDS Approvals, TLC

CONSTANTS e1, e2, c1, critical, high, d1, d2

TwoRequests == c1 :> {critical, high}
OwnArgs     == critical :> "these" @@ high :> "those"
=============================================================================
