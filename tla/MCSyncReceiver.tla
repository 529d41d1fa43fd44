--------------------------- MODULE MCSyncReceiver ---------------------------
(***************************************************************************)
(* Model checking SyncReceiver.  Events 2, 3 and 4 come under one key, the *)
(* second of them with a body: once event 2 is recorded, the other two are *)
(* a page of repeats, which stands before event 5.  Until then no id is    *)
(* dropped; after damage to the file, event 6 is one too many in a.        *)
(***************************************************************************)
EXTENDS SyncReceiver, TLC

CONSTANTS a, b, k1, k2, k3, k4, p1, p2

TwoConvs   == <<a, b, b, b, a, a>>
ThreeOfOne == <<k1, k2, k2, k2, k3, k4>>
HaveBodies == {3, 5}

Both          == p1 :> "feed" @@ p2 :> "firestore"
OnlyFirestore == p1 :> "firestore"
=============================================================================
