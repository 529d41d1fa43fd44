---------------------------- MODULE ApprovalGate ----------------------------
(***************************************************************************)
(* What the owner and the bot may rely on when a tool needs an approval    *)
(* (ToolHandler.execute with request_approval): a call is asked for, and   *)
(* decided once, for all its executions; a tool runs only on an approval,  *)
(* and a call is refused as denied only on a denial.  Only a call id under *)
(* which two different requests came is contested: its approval may be     *)
(* withdrawn, or pass for withdrawn, and an execution that has seen it     *)
(* before may still run.                                                   *)
(* Codes, polling, expiry, storing again and restarts do not show.         *)
(* Approvals implements this module.                                       *)
(***************************************************************************)
CONSTANTS
  Execs,     \* executions of a tool
  CallIds,   \* tool_call ids
  Requests,  \* what an execution is to do
  NoCall     \* the call id of an execution that has not begun

VARIABLES
  callOf,    \* the call id of an execution
  asked,     \* the requests asked for under a call id
  verdict,   \* what was decided about a call, "open" before
  outcome    \* "runs", "denied", or "unguarded": the gate itself has failed

vars == <<callOf, asked, verdict, outcome>>

Init ==
  /\ callOf = [e \in Execs |-> NoCall]
  /\ asked = [c \in CallIds |-> {}]
  /\ verdict = [c \in CallIds |-> "open"]
  /\ outcome = [e \in Execs |-> "none"]

Contested(c) == \E r, s \in asked[c] : r # s

Dispatch(e, c, r) ==
  /\ callOf[e] = NoCall
  /\ callOf' = [callOf EXCEPT ![e] = c]
  /\ asked' = [asked EXCEPT ![c] = @ \cup {r}]
  /\ UNCHANGED <<verdict, outcome>>

Decide(c, v) ==
  /\ asked[c] # {}
  /\ verdict[c] = "open"
  /\ verdict' = [verdict EXCEPT ![c] = v]
  /\ UNCHANGED <<callOf, asked, outcome>>

\* An execution comes out, once.
ComesOut(e, o) ==
  /\ callOf[e] \in CallIds
  /\ outcome[e] = "none"
  /\ outcome' = [outcome EXCEPT ![e] = o]
  /\ UNCHANGED <<callOf, asked>>

Run(e) ==
  /\ ComesOut(e, "runs")
  /\ \/ verdict[callOf[e]] = "approved"
     \/ verdict[callOf[e]] = "denied" /\ Contested(callOf[e])
  /\ UNCHANGED verdict

Deny(e) ==
  /\ ComesOut(e, "denied")
  /\ \/ verdict[callOf[e]] = "denied" /\ UNCHANGED verdict
     \/ /\ verdict[callOf[e]] = "approved"
        /\ Contested(callOf[e])
        /\ verdict' \in {verdict, [verdict EXCEPT ![callOf[e]] = "denied"]}

Bypass(e) == ComesOut(e, "unguarded") /\ UNCHANGED verdict

Next ==
  \/ \E e \in Execs, c \in CallIds, r \in Requests : Dispatch(e, c, r)
  \/ \E c \in CallIds, v \in {"approved", "denied", "expired"} : Decide(c, v)
  \/ \E e \in Execs : Run(e) \/ Deny(e) \/ Bypass(e)

Spec == Init /\ [][Next]_vars
=============================================================================
