--------------------------- MODULE ResultHandover ---------------------------
(***************************************************************************)
(* What a run loop may rely on when it lets a client execute a tool call   *)
(* (ToolRunner.run_tool, the dispatch loop of MainProcess.run and          *)
(* POST /v1/runs/{run_id}/results): the call is asked for once; of the     *)
(* results posted, one at most is taken, and none any more once the wait   *)
(* has given up or the run has ended; the wait returns that one, or times  *)
(* out, or is cancelled.  Parking, futures and the order of posting and    *)
(* waiting do not show.                                                    *)
(* EventManager implements this module.                                    *)
(***************************************************************************)
CONSTANTS
  Runs,     \* run ids
  ToolIds,  \* tool_call ids
  Posts,    \* results posted, each by one request
  NoPost    \* no result

Keys == Runs \X ToolIds

VARIABLES
  state,    \* "new", "asked", "given", or "closed": nothing will be taken
  value,    \* the result taken for a call
  outcome   \* what the wait returned

vars == <<state, value, outcome>>

Init ==
  /\ state = [k \in Keys |-> "new"]
  /\ value = [k \in Keys |-> NoPost]
  /\ outcome = [k \in Keys |-> NoPost]

Ask(k) ==
  /\ state[k] = "new"
  /\ state' = [state EXCEPT ![k] = "asked"]
  /\ UNCHANGED <<value, outcome>>

\* A call whose result is known already is not asked for.
Reuse(k) ==
  /\ state[k] = "new"
  /\ state' = [state EXCEPT ![k] = "closed"]
  /\ UNCHANGED <<value, outcome>>

\* A result is taken for an open question, and for one only.
Give(k, p) ==
  /\ state[k] = "asked"
  /\ \A j \in Keys : value[j] # p
  /\ state' = [state EXCEPT ![k] = "given"]
  /\ value' = [value EXCEPT ![k] = p]
  /\ UNCHANGED outcome

\* The run ends: what it still asks for is not taken any more.
Close(r) ==
  /\ state' = [k \in Keys |->
                 IF k[1] = r /\ state[k] = "asked" THEN "closed" ELSE state[k]]
  /\ UNCHANGED <<value, outcome>>

\* The wait returns, once.
Return(k, o) ==
  /\ state[k] # "new"
  /\ outcome[k] = NoPost
  /\ outcome' = [outcome EXCEPT ![k] = o]
  /\ UNCHANGED value

Take(k) ==
  /\ state[k] = "given"
  /\ Return(k, value[k])
  /\ UNCHANGED state

\* The wait ends without a result.  One may have been taken meanwhile: it is
\* not handed over.
GiveUp(k, o) ==
  /\ Return(k, o)
  /\ state' = [state EXCEPT ![k] = IF @ = "asked" THEN "closed" ELSE @]

Next ==
  \/ \E r \in Runs : Close(r)
  \/ \E k \in Keys : Ask(k) \/ Reuse(k) \/ Take(k)
  \/ \E k \in Keys, o \in {"timeout", "cancelled"} : GiveUp(k, o)
  \/ \E k \in Keys, p \in Posts : Give(k, p)

Spec == Init /\ [][Next]_vars
=============================================================================
