------------------------------ MODULE RunStream ------------------------------
(***************************************************************************)
(* What a client may rely on at GET /v1/runs/{run_id}/events, as           *)
(* docs/contracts/sse-run-events.md presents it: a run has one ordered     *)
(* stream of events, whose terminal event occurs exactly once and is the   *)
(* last; a connection receives an unbroken piece of it, in order.  How     *)
(* events are buffered, replayed and taken over by other connections does  *)
(* not show.  EventManager implements this module.                         *)
(***************************************************************************)
EXTENDS Naturals, Sequences

CONSTANTS
  Runs,     \* run ids
  Conns,    \* connections, each for one run
  NoRun     \* the run of a connection that is not open yet

VARIABLES
  length,   \* how many events a run has published
  told,     \* the terminal event of a run, "open" before it is published
  runOf,    \* the run of a connection
  got       \* what a connection has received, as positions in the stream

vars == <<length, told, runOf, got>>

Init ==
  /\ length = [r \in Runs |-> 0]
  /\ told = [r \in Runs |-> "open"]
  /\ runOf = [c \in Conns |-> NoRun]
  /\ got = [c \in Conns |-> <<>>]

\* The next event of a run that has not ended; "open" is one that does not end
\* it.
Publish(r, end) ==
  /\ told[r] = "open"
  /\ length' = [length EXCEPT ![r] = @ + 1]
  /\ told' = [told EXCEPT ![r] = end]
  /\ UNCHANGED <<runOf, got>>

Open(c, r) ==
  /\ runOf[c] = NoRun
  /\ runOf' = [runOf EXCEPT ![c] = r]
  /\ UNCHANGED <<length, told, got>>

\* A connection starts anywhere in what is published and goes on from there.
Follows(n, s) == s # <<>> => n = s[Len(s)] + 1

Receive(c) ==
  /\ runOf[c] \in Runs
  /\ \E n \in 1 .. length[runOf[c]] :
       /\ Follows(n, got[c])
       /\ got' = [got EXCEPT ![c] = Append(@, n)]
  /\ UNCHANGED <<length, told, runOf>>

Next ==
  \/ \E r \in Runs, end \in {"open", "final", "error"} : Publish(r, end)
  \/ \E c \in Conns, r \in Runs : Open(c, r)
  \/ \E c \in Conns : Receive(c)

Spec == Init /\ [][Next]_vars
=============================================================================
