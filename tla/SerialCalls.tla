----------------------------- MODULE SerialCalls -----------------------------
(***************************************************************************)
(* What callers of ToolRunner.run_tool may rely on, for tools that do not  *)
(* use the GPU and whose results are not normalised: "DB-level Idempotency *)
(* (Atomic execution)".  Attempts at a call follow one another, the first  *)
(* that succeeds is the last, and every caller who is told that the call   *)
(* has completed is told its result, once and for all.  Lease tokens,      *)
(* expiry, the age of a claim and polling do not show.  ToolLease          *)
(* implements this module.                                                 *)
(***************************************************************************)
CONSTANTS
  Invocations,  \* calls of run_tool
  Calls,        \* tool_call ids
  Others,       \* tool_call ids of other tools
  Nobody        \* no invocation

VARIABLES
  callOf,   \* the call an invocation names
  working,  \* the invocations whose attempt may still succeed
  done,     \* the invocation that computed the result of a call
  told      \* the result an invocation has returned as completed

vars == <<callOf, working, done, told>>

Init ==
  /\ callOf \in [Invocations -> Calls \cup Others]
  /\ working = {}
  /\ done = [k \in Calls |-> Nobody]
  /\ told = [r \in Invocations |-> Nobody]

\* An attempt begins when no other is under way and none has succeeded.
Begin(r) ==
  /\ callOf[r] \in Calls
  /\ done[callOf[r]] = Nobody
  /\ \A q \in working : callOf[q] # callOf[r]
  /\ working' = working \cup {r}
  /\ UNCHANGED <<callOf, done, told>>

\* An attempt succeeds; its caller is told, or has been cancelled meanwhile.
Complete(r) ==
  /\ r \in working
  /\ working' = working \ {r}
  /\ done' = [done EXCEPT ![callOf[r]] = r]
  /\ \/ UNCHANGED told
     \/ told' = [told EXCEPT ![r] = r]
  /\ UNCHANGED callOf

\* Attempts fail, or a cancellation or a crash ends them.
Leave(R) ==
  /\ working' = working \ R
  /\ UNCHANGED <<callOf, done, told>>

Tell(r) ==
  /\ callOf[r] \in Calls
  /\ done[callOf[r]] # Nobody
  /\ told[r] = Nobody
  /\ told' = [told EXCEPT ![r] = done[callOf[r]]]
  /\ UNCHANGED <<callOf, working, done>>

Next ==
  \/ \E r \in Invocations : Begin(r) \/ Complete(r) \/ Tell(r)
  \/ \E R \in SUBSET working : Leave(R)

Spec == Init /\ [][Next]_vars
=============================================================================
