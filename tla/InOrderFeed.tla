----------------------------- MODULE InOrderFeed -----------------------------
(***************************************************************************)
(* What a device may rely on when it reads an account's events with a      *)
(* cursor for each conversation (realtime_sync_client_service.py): bodies  *)
(* arrive of events that were published; a cursor is set to an event only  *)
(* when every body before it has arrived, and moves forward, one at a      *)
(* time.  Damage to the state file, or an id it does not keep, may set     *)
(* cursors back or to any place that is not ahead of what has arrived.     *)
(* Pages, copies, retries and the invocations do not show.  SyncReceiver   *)
(* implements this module.                                                 *)
(***************************************************************************)
EXTENDS Naturals

CONSTANTS
  Events,   \* the account's events, in the order of their cursors
  Convs,    \* conversations
  ConvOf,   \* conversation_id of an event
  KeyOf,    \* idempotency_key of an event
  Bodies    \* events that have a body to fetch

VARIABLES
  published, \* the last event published
  arrived,   \* events whose body arrived
  cursor,    \* the cursor of a conversation
  intact     \* the file was not damaged so far

vars == <<published, arrived, cursor, intact>>

Init ==
  /\ published = 0
  /\ arrived = {}
  /\ cursor = [c \in Convs |-> 0]
  /\ intact = TRUE

\* The body of every event up to n, or of a repetition of it, is there.
ArrivedTo(n) ==
  \A e \in Bodies : e <= n =>
    \E f \in arrived : ConvOf[f] = ConvOf[e] /\ (f = e \/ KeyOf[f] = KeyOf[e])

Publish ==
  /\ published + 1 \in Events
  /\ published' = published + 1
  /\ UNCHANGED <<arrived, cursor, intact>>

Arrive(e) ==
  /\ e <= published
  /\ arrived' = arrived \cup {e}
  /\ UNCHANGED <<published, cursor, intact>>

Record(e) ==
  /\ e <= published
  /\ cursor[ConvOf[e]] < e
  /\ ArrivedTo(e)
  /\ cursor' = [cursor EXCEPT ![ConvOf[e]] = e]
  /\ UNCHANGED <<published, arrived, intact>>

Damage ==
  /\ intact' = FALSE
  /\ cursor' \in [Convs -> 0 .. published]
  /\ \A c \in Convs : ArrivedTo(cursor'[c])
  /\ UNCHANGED <<published, arrived>>

Next ==
  \/ Publish
  \/ Damage
  \/ \E e \in Bodies : Arrive(e)
  \/ \E e \in Events : Record(e)

Spec == Init /\ [][Next]_vars
=============================================================================
