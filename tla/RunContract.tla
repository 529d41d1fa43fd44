----------------------------- MODULE RunContract -----------------------------
(***************************************************************************)
(* What the Core API promises of a run, as docs/contracts/                 *)
(* sse-run-events.md and the status column of the runs table present it: a *)
(* run is told to have ended once, as "final" or as "error"; an error is   *)
(* stored before it is told, an answer is stored before "final" is told,   *)
(* and a run is stored as completed only after that.  CoreRun implements   *)
(* this module.  The insert of an answer may raise although the answer is   *)
(* stored; the Core then takes the run for failed.                         *)
(***************************************************************************)
CONSTANTS
  Runs      \* run ids

VARIABLES
  status,       \* status of the row of a run, "none" before there is one
  answers,      \* the runs whose answer is stored in the conversation
  unconfirmed,  \* those of them that the Core does not know to be stored
  told          \* the terminal event of a run, "open" before it is published

vars == <<status, answers, unconfirmed, told>>

Init ==
  /\ status = [r \in Runs |-> "none"]
  /\ answers = {}
  /\ unconfirmed = {}
  /\ told = [r \in Runs |-> "open"]

Move(r, from, to) ==
  /\ status[r] \in from
  /\ status' = [status EXCEPT ![r] = to]
  /\ UNCHANGED <<answers, unconfirmed, told>>

Accept(r) == Move(r, {"none"}, "queued")

Start(r) == Move(r, {"queued"}, "in_progress")

\* A run that failed is not taken up again; to fail twice changes nothing.  An
\* answer that is known to be stored is told before anything else of the run may
\* fail, the last thing after it was stored as completed.
Fail(r) ==
  /\ r \in answers \ unconfirmed => told[r] = "final"
  /\ Move(r, {"queued", "in_progress", "completed"}, "failed")

Complete(r) == told[r] = "final" /\ Move(r, {"in_progress"}, "completed")

Answer(r) ==
  /\ status[r] = "in_progress"
  /\ told[r] = "open"
  /\ r \notin answers
  /\ answers' = answers \cup {r}
  /\ unconfirmed' \in {unconfirmed, unconfirmed \cup {r}}
  /\ UNCHANGED <<status, told>>

Tell(r, event) ==
  /\ told[r] = "open"
  /\ \/ event = "final" /\ status[r] = "in_progress" /\ r \in answers \ unconfirmed
     \/ event = "error" /\ status[r] = "failed" /\ r \notin answers \ unconfirmed
  /\ told' = [told EXCEPT ![r] = event]
  /\ UNCHANGED <<status, answers, unconfirmed>>

Next ==
  \E r \in Runs :
    \/ Accept(r) \/ Start(r) \/ Fail(r) \/ Complete(r) \/ Answer(r)
    \/ \E event \in {"final", "error"} : Tell(r, event)

Spec == Init /\ [][Next]_vars

-----------------------------------------------------------------------------
TypeOK ==
  /\ status \in [Runs -> {"none", "queued", "in_progress", "failed", "completed"}]
  /\ answers \in SUBSET Runs
  /\ unconfirmed \in SUBSET answers
  /\ told \in [Runs -> {"open", "final", "error"}]

\* What a client that heard the end, or read the row, may conclude: after "final"
\* the answer can be read; after an error the row says so, and there is no answer
\* but one whose insert raised; a completed row has been told; and a run that
\* failed with its answer known to be stored has told its answer all the same.
Truthful ==
  \A r \in Runs :
    /\ told[r] = "final" => r \in answers \ unconfirmed
    /\ told[r] = "error" => status[r] = "failed" /\ r \notin answers \ unconfirmed
    /\ status[r] = "completed" => told[r] = "final"
    /\ status[r] = "failed" /\ r \in answers \ unconfirmed => told[r] = "final"
=============================================================================
