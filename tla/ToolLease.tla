----------------------------- MODULE ToolLease ------------------------------
(***************************************************************************)
(* Execution of tool calls in the Core API: ToolRunner.run_tool            *)
(* (core/src/ora_core/mcp/runner.py) over the tool_calls table             *)
(* (core/src/ora_core/database/repo.py, models.py).                        *)
(*                                                                         *)
(* Any number of invocations of run_tool may name the same tool call.  The *)
(* row of the call decides which of them executes the handler: it is       *)
(* claimed by a compare-and-set UPDATE that stores a fresh lease token and *)
(* an expiry time.  The others return the stored outcome or poll for it.   *)
(* A row whose lease has expired may be claimed again, and an update with  *)
(* a token that is no longer the row's changes nothing.                    *)
(*                                                                         *)
(* Every database statement is one action; between two of them other       *)
(* invocations run.  An invocation stands for its own lease token.         *)
(*                                                                         *)
(* Time is relative: left[k] is how long the lease of k still runs, age[r] *)
(* how long invocation r has been where it is.  So no clock value bounds a *)
(* run.                                                                    *)
(***************************************************************************)
EXTENDS Integers, Sequences, FiniteSets

CONSTANTS
  Invocations,  \* calls of run_tool, each with a lease token of its own
  Calls,        \* tool_call ids
  GpuCalls,     \* the calls whose tool has gpu_required
  NormalizedCalls, \* those whose result is normalised first (runtime.enabled)
  Users,        \* user ids
  Nobody,       \* no invocation, no user
  Timeout,      \* ToolDefinition.timeout_sec
  Slack,        \* added to the timeout for the lease (60)
  Lag,          \* longest a claim, or one update of the row, takes
  PollLimit     \* how long poll_for_result polls (30)

\* A statement waits at most 30 seconds for the database (busy_timeout), half
\* of the slack.
ASSUME LeaseAssumption ==
  /\ GpuCalls \subseteq Calls
  /\ NormalizedCalls \subseteq Calls
  /\ Nobody \notin Invocations \cup Users
  /\ Timeout \in Nat
  /\ Slack \in Nat
  /\ Lag \in Nat
  /\ PollLimit \in Nat
  /\ 2 * Lag <= Slack

VARIABLES
  status,   \* tool_calls.status, "none" before the row is inserted
  owner,    \* tool_calls.user_id
  lease,    \* tool_calls.lease_token
  left,     \* tool_calls.expires_at, as the time until then, while running
  result,   \* tool_calls.result_json: the invocation that computed it
  pc,       \* where an invocation stands
  callOf,   \* its tool_call_id
  userOf,   \* its user_id
  age,      \* time since it got there
  verdict,  \* the status it is about to store
  answer,   \* the status it returned
  shown,    \* the result it returned
  gpuQueue  \* those at gpu_semaphore, in order; the first may hold it

row    == <<status, owner, lease, left, result>>
caller == <<pc, callOf, userOf, age, verdict, answer, shown>>
vars   == <<row, caller, gpuQueue>>

Settled == {"completed", "failed"}
Timed   == {"claiming", "executing", "storing", "polling"}
Labels  == {"idle", "queueing", "normalizing", "done", "raised", "crashed"} \cup Timed
States  == {"none", "queued", "running"} \cup Settled

TypeOK ==
  /\ status \in [Calls -> States]
  /\ owner \in [Calls -> Users \cup {Nobody}]
  /\ lease \in [Calls -> Invocations \cup {Nobody}]
  /\ left \in [Calls -> -(Lag + 1) .. Timeout + Slack]
  /\ result \in [Calls -> Invocations \cup {Nobody}]
  /\ pc \in [Invocations -> Labels]
  /\ callOf \in [Invocations -> Calls]
  /\ userOf \in [Invocations -> Users]
  /\ age \in [Invocations -> Nat]
  /\ verdict \in [Invocations -> Settled]
  /\ answer \in [Invocations -> {"none", "pending"} \cup Settled]
  /\ shown \in [Invocations -> Invocations \cup {Nobody}]
  /\ gpuQueue \in Seq(Invocations)

Init ==
  /\ status = [k \in Calls |-> "none"]
  /\ owner = [k \in Calls |-> Nobody]
  /\ lease = [k \in Calls |-> Nobody]
  /\ left = [k \in Calls |-> 0]
  /\ result = [k \in Calls |-> Nobody]
  /\ pc = [r \in Invocations |-> "idle"]
  /\ callOf \in [Invocations -> Calls]
  /\ userOf \in [Invocations -> Users]
  /\ age = [r \in Invocations |-> 0]
  /\ verdict = [r \in Invocations |-> "failed"]
  /\ answer = [r \in Invocations |-> "none"]
  /\ shown = [r \in Invocations |-> Nobody]
  /\ gpuQueue = <<>>

-----------------------------------------------------------------------------
GoTo(r, label) ==
  /\ pc' = [pc EXCEPT ![r] = label]
  /\ age' = [age EXCEPT ![r] = 0]

Return(r, st, res) ==
  /\ GoTo(r, "done")
  /\ answer' = [answer EXCEPT ![r] = st]
  /\ shown' = [shown EXCEPT ![r] = res]

ReturnStored(r) == Return(r, status[callOf[r]], result[callOf[r]])

\* Operators named after a mistake are mutants of the definition that follows
\* them; no action uses them.
NeverExpired(k, ago) == FALSE

\* The lease of k had run out a time ago.
ExpiredBefore(k, ago) == left[k] < -ago

(***************************************************************************)
(* get_or_create_tool_call and the decision on the record it returns.  A   *)
(* row of another user makes the insert fail and is not found afterwards:  *)
(* the exception leaves run_tool.                                          *)
(***************************************************************************)
Register(r) ==
  LET k == callOf[r] IN
  /\ pc[r] = "idle"
  /\ \/ /\ status[k] = "none"
        /\ status' = [status EXCEPT ![k] = "queued"]
        /\ owner' = [owner EXCEPT ![k] = userOf[r]]
        /\ GoTo(r, "claiming")
        /\ UNCHANGED <<answer, shown>>
     \/ /\ status[k] # "none"
        /\ owner[k] # userOf[r]
        /\ GoTo(r, "raised")
        /\ UNCHANGED <<status, owner, answer, shown>>
     \/ /\ owner[k] = userOf[r]
        /\ status[k] \in Settled
        /\ ReturnStored(r)
        /\ UNCHANGED <<status, owner>>
     \/ /\ owner[k] = userOf[r]
        /\ status[k] \in {"queued", "running"}
        /\ GoTo(r, IF status[k] = "running" /\ ~ExpiredBefore(k, 0)
                   THEN "polling" ELSE "claiming")
        /\ UNCHANGED <<status, owner, answer, shown>>
  /\ UNCHANGED <<lease, left, result, callOf, userOf, verdict, gpuQueue>>

ClaimableRunning(r) == status[callOf[r]] \in {"queued", "failed", "running"}

\* What claim_tool_call lets r claim.  The UPDATE compares with the time at
\* which the call was made, age[r] ago.
Claimable(r) ==
  LET k == callOf[r] IN
  \/ status[k] \in {"queued", "failed"}
  \/ status[k] = "running" /\ ExpiredBefore(k, age[r])

LeaseOfSlack(r) == Slack - age[r]

\* The lease, too, counts from the time of the call.
NewLease(r) == Timeout + Slack - age[r]

\* claim_tool_call, and on to the semaphore or the handler.
Claim(r) ==
  LET k == callOf[r] IN
  /\ pc[r] = "claiming"
  /\ \/ /\ Claimable(r)
        /\ status' = [status EXCEPT ![k] = "running"]
        /\ lease' = [lease EXCEPT ![k] = r]
        /\ left' = [left EXCEPT ![k] = NewLease(r)]
        /\ \/ k \in GpuCalls /\ GoTo(r, "queueing") /\ gpuQueue' = Append(gpuQueue, r)
           \/ k \notin GpuCalls /\ GoTo(r, "executing") /\ UNCHANGED gpuQueue
     \/ /\ ~Claimable(r)
        /\ GoTo(r, "polling")
        /\ UNCHANGED <<status, lease, left, gpuQueue>>
  /\ UNCHANGED <<owner, result, callOf, userOf, verdict, answer, shown>>

\* The semaphore is handed over in order; the timeout starts only now.
AcquireGpu(r) ==
  /\ pc[r] = "queueing"
  /\ gpuQueue # <<>> /\ Head(gpuQueue) = r
  /\ GoTo(r, "executing")
  /\ UNCHANGED <<row, callOf, userOf, verdict, answer, shown, gpuQueue>>

GpuKept(r) == UNCHANGED gpuQueue

ReleaseGpu(r) ==
  gpuQueue' = IF callOf[r] \in GpuCalls THEN Tail(gpuQueue) ELSE gpuQueue

\* The handler returns or raises, or wait_for cancels it; the semaphore is
\* free when its block is left, before the outcome is normalised or stored.
EndHandler(r, st) ==
  /\ pc[r] = "executing"
  /\ GoTo(r, IF st = "completed" /\ callOf[r] \in NormalizedCalls
             THEN "normalizing" ELSE "storing")
  /\ verdict' = [verdict EXCEPT ![r] = st]
  /\ ReleaseGpu(r)
  /\ UNCHANGED <<row, callOf, userOf, answer, shown>>

Finish(r)  == \E st \in Settled : EndHandler(r, st)
TimeOut(r) == age[r] = Timeout /\ EndHandler(r, "failed")

\* normalize_tool_result_for_run: statements and files, for which no time is
\* set; a violation of the file contract, or any exception, is a failure.
Normalize(r) ==
  /\ pc[r] = "normalizing"
  /\ GoTo(r, "storing")
  /\ \E st \in Settled : verdict' = [verdict EXCEPT ![r] = st]
  /\ UNCHANGED <<row, callOf, userOf, answer, shown, gpuQueue>>

HoldsAnyway(r) == TRUE

HoldsLease(r) == lease[callOf[r]] = r

\* update_tool_call: nothing is stored under a token that is not the row's.
StoreRow(r) ==
  LET k == callOf[r] IN
  /\ \/ /\ HoldsLease(r)
        /\ status' = [status EXCEPT ![k] = verdict[r]]
        /\ result' = IF verdict[r] = "completed"
                     THEN [result EXCEPT ![k] = r] ELSE result
     \/ ~HoldsLease(r) /\ UNCHANGED <<status, result>>
  /\ UNCHANGED <<owner, lease, left>>

\* The invocation returns its own outcome, stored or not.
Store(r) ==
  /\ pc[r] = "storing"
  /\ StoreRow(r)
  /\ Return(r, verdict[r], IF verdict[r] = "completed" THEN r ELSE Nobody)
  /\ UNCHANGED <<callOf, userOf, verdict, gpuQueue>>

\* The update to "completed" fails: the failure is stored instead, by an update
\* that waits for the database anew.
StoreFails(r) ==
  /\ pc[r] = "storing"
  /\ verdict[r] = "completed"
  /\ verdict' = [verdict EXCEPT ![r] = "failed"]
  /\ GoTo(r, "storing")
  /\ UNCHANGED <<row, callOf, userOf, answer, shown, gpuQueue>>

\* poll_for_result finds an outcome, or gives up.
Poll(r) ==
  /\ pc[r] = "polling"
  /\ \/ status[callOf[r]] \in Settled /\ ReturnStored(r)
     \/ age[r] = PollLimit /\ Return(r, "pending", Nobody)
  /\ UNCHANGED <<row, callOf, userOf, verdict, gpuQueue>>

Alive(r) == pc[r] \in Timed \cup {"queueing", "normalizing"}

\* r leaves the queue of the semaphore, wherever it stands.
LeaveGpu(r) ==
  \/ /\ \A i \in 1 .. Len(gpuQueue) : gpuQueue[i] # r
     /\ UNCHANGED gpuQueue
  \/ \E i \in 1 .. Len(gpuQueue) :
       /\ gpuQueue[i] = r
       /\ gpuQueue' = [j \in 1 .. Len(gpuQueue) - 1 |->
                         IF j < i THEN gpuQueue[j] ELSE gpuQueue[j + 1]]

\* An exception leaves run_tool: a statement fails for which there is no handler,
\* or the timer of the pass cancels the task.  The row stays as it is, unless an
\* update was under way, which the database may carry out all the same.
Abandon(r) ==
  /\ Alive(r)
  /\ GoTo(r, "raised")
  /\ LeaveGpu(r)
  /\ \/ UNCHANGED row
     \/ pc[r] = "storing" /\ StoreRow(r)
  /\ UNCHANGED <<callOf, userOf, verdict, answer, shown>>

\* The process ends and starts again: its invocations and the semaphore are
\* gone, the rows stay.
Crash ==
  /\ \E r \in Invocations : Alive(r)
  /\ pc' = [r \in Invocations |-> IF Alive(r) THEN "crashed" ELSE pc[r]]
  /\ age' = [r \in Invocations |-> IF Alive(r) THEN 0 ELSE age[r]]
  /\ gpuQueue' = <<>>
  /\ UNCHANGED <<row, callOf, userOf, verdict, answer, shown>>

-----------------------------------------------------------------------------
\* How long an invocation stays where it is before it must move.
Stay(r) ==
  CASE pc[r] = "executing" -> Timeout
    [] pc[r] = "polling"   -> PollLimit
    [] OTHER               -> Lag

\* Time passes for everybody, as long as nobody is overdue and the semaphore is
\* not free for somebody who waits.
Tick ==
  /\ \A r \in Invocations : pc[r] \in Timed => age[r] < Stay(r)
  /\ gpuQueue # <<>> => pc[Head(gpuQueue)] = "executing"
  /\ age' = [r \in Invocations |-> IF pc[r] \in Timed THEN age[r] + 1 ELSE age[r]]
  /\ left' = [k \in Calls |-> IF status[k] = "running" /\ left[k] >= -Lag
                              THEN left[k] - 1 ELSE left[k]]
  /\ UNCHANGED <<status, owner, lease, result, pc, callOf, userOf, verdict,
                 answer, shown, gpuQueue>>

Step(r) ==
  \/ Register(r) \/ Claim(r) \/ AcquireGpu(r) \/ Finish(r) \/ TimeOut(r)
  \/ Normalize(r) \/ Store(r) \/ StoreFails(r) \/ Poll(r) \/ Abandon(r)

Next == (\E r \in Invocations : Step(r)) \/ Crash \/ Tick

\* The loop runs what is ready, and time passes.  Nobody owes the system an
\* invocation, a handler its end, or a crash its absence.
Fairness ==
  /\ \A r \in Invocations : /\ WF_vars(Claim(r)) /\ WF_vars(AcquireGpu(r))
                            /\ WF_vars(TimeOut(r)) /\ WF_vars(Normalize(r))
                            /\ WF_vars(Store(r)) /\ WF_vars(Poll(r))
  /\ WF_vars(Tick)

Spec == Init /\ [][Next]_vars
FairSpec == Spec /\ Fairness

-----------------------------------------------------------------------------
(***************************************************************************)
(* What run_tool promises.                                                 *)
(***************************************************************************)
Running(k) == {r \in Invocations : pc[r] = "executing" /\ callOf[r] = k}

\* "DB-level Idempotency (Atomic execution)" (docstring of ToolRunner): the
\* lease outlives the handler, so that no second invocation can claim the call,
\* however late the clock of its claim was read.
HandlersDoNotOverlap == \A k \in Calls : \A r, q \in Running(k) : r = q

\* A call whose result is stored is not executed any more: not even by a holder
\* that lost its lease while it waited for the GPU, because the semaphore serves
\* those who wait in order and whoever took the lease over waits behind it.
NoExecutionAfterCompletion ==
  \A k \in Calls : status[k] = "completed" => Running(k) = {}

\* The calls that are executed as soon as they are claimed and whose result is
\* stored as soon as it is there: the time of a lease is meant for these.
PromptCalls == Calls \ (GpuCalls \cup NormalizedCalls)

\* "res_A and res_B are the same" (scripts/verify_step4_tools.py, case 5): all
\* who are told that such a call has completed are given one and the same
\* result.
AnswersAgree ==
  \A r, q \in Invocations :
    /\ callOf[r] = callOf[q] /\ callOf[r] \in PromptCalls
    /\ answer[r] = "completed" /\ answer[q] = "completed"
    => shown[r] = shown[q]

\* Once somebody has been told that such a call has completed, nobody executes
\* it again.
AnsweredCallsRest ==
  \A r, q \in Invocations :
    /\ callOf[r] = callOf[q] /\ callOf[r] \in PromptCalls
    /\ answer[r] = "completed"
    => pc[q] # "executing"

\* The invocations whose attempt at a prompt call may still succeed.
AtWork == {r \in Invocations :
             /\ callOf[r] \in PromptCalls
             /\ \/ pc[r] = "executing"
                \/ pc[r] = "storing" /\ verdict[r] = "completed"}

\* The result of such a call that an invocation has returned.
ToldResult(r) ==
  IF callOf[r] \in PromptCalls /\ answer[r] = "completed" THEN shown[r] ELSE Nobody

\* What callers see of the prompt calls.
Serial == INSTANCE SerialCalls WITH
            Calls   <- PromptCalls,
            Others  <- Calls \ PromptCalls,
            callOf  <- callOf,
            working <- AtWork,
            done    <- [k \in PromptCalls |-> result[k]],
            told    <- [r \in Invocations |-> ToldResult(r)]

\* Attempts at such a call follow one another and the first that succeeds is the
\* last, whose result everybody is told: the lease, whose expiry lets another
\* invocation take over, never lets an attempt begin while another may still
\* succeed, from the claim until its result is stored.  An attempt that has
\* failed may still be storing that.
CallsAreSerial == Serial!Spec

\* What is stored is what the holder of the lease computed: a holder that lost
\* its lease while it waited for the GPU overwrites nothing.
StoredByHolder ==
  \A k \in Calls :
    /\ status[k] = "completed" => result[k] = lease[k] /\ lease[k] # Nobody
    /\ status[k] # "completed" => result[k] = Nobody

\* A completed row is never claimed or changed again.
CompletedIsFinal ==
  [][\A k \in Calls : status[k] = "completed" =>
       /\ status'[k] = "completed"
       /\ lease'[k] = lease[k]
       /\ result'[k] = result[k]]_vars

\* "Limit to 1 concurrent GPU tool call" (comment on gpu_semaphore).
OneGpuHandler ==
  \A r, q \in Invocations :
    /\ pc[r] = "executing" /\ callOf[r] \in GpuCalls
    /\ pc[q] = "executing" /\ callOf[q] \in GpuCalls
    => r = q

\* Every invocation ends, with an answer or an exception.
EveryInvocationEnds ==
  \A r \in Invocations : Alive(r) ~> ~Alive(r)

\* Whoever claimed a call and is gone, the call can be claimed again some day
\* or has been.
LostCallIsClaimable ==
  \A k \in Calls, r \in Invocations :
    (status[k] = "running" /\ lease[k] = r /\ ~Alive(r))
      ~> (lease[k] # r \/ ExpiredBefore(k, 0))

-----------------------------------------------------------------------------
(***************************************************************************)
(* The inductive invariant behind the safety properties.                   *)
(***************************************************************************)

\* Nobody is overdue.
AgeInv ==
  \A r \in Invocations :
    /\ pc[r] \in {"claiming", "storing"} => age[r] <= Lag
    /\ pc[r] = "executing" => age[r] <= Timeout

\* The lease of a call that does not use the GPU covers what is left of the
\* handler, and that of a prompt call the update of its row as well, and the
\* lateness of another claim.
CoverInv ==
  \A r \in Invocations : LET k == callOf[r] IN
    /\ k \notin GpuCalls /\ pc[r] = "executing" =>
         lease[k] = r /\ left[k] + age[r] >= Timeout + Slack - Lag
    /\ r \in AtWork /\ pc[r] = "storing" =>
         lease[k] = r /\ left[k] + age[r] >= Slack - Lag

\* While its holder is at work the row is running.
HolderInv ==
  \A r \in Invocations :
    /\ lease[callOf[r]] = r
    /\ pc[r] \in {"queueing", "executing", "normalizing", "storing"}
    => status[callOf[r]] = "running"

\* Only calls that need the GPU wait for it, only those to be normalised are, and
\* whoever executes on the GPU is first in the queue.
QueueInv ==
  \A r \in Invocations :
    /\ pc[r] = "queueing" => callOf[r] \in GpuCalls
    /\ pc[r] = "normalizing" => callOf[r] \in NormalizedCalls
    /\ pc[r] = "executing" /\ callOf[r] \in GpuCalls =>
         gpuQueue # <<>> /\ Head(gpuQueue) = r

\* A "completed" that was returned for a prompt call is the stored one.
AnswerInv ==
  \A r \in Invocations : LET k == callOf[r] IN
    k \in PromptCalls /\ answer[r] = "completed" =>
      status[k] = "completed" /\ shown[r] = result[k]

\* Only an invocation that has returned has an answer.
DoneInv == \A r \in Invocations : pc[r] # "done" => answer[r] = "none"

LeaseInv ==
  /\ AgeInv
  /\ CoverInv
  /\ HolderInv
  /\ QueueInv
  /\ StoredByHolder
  /\ AnswerInv

\* Behind NoExecutionAfterCompletion: nobody is in the queue twice, those in it
\* wait or execute for a GPU call, and whoever holds the lease of a call comes
\* after the others who are in the queue for it, or has been cancelled there and
\* will store nothing.
HolderBehind(i) ==
  \E j \in i .. Len(gpuQueue) :
    /\ callOf[gpuQueue[j]] = callOf[gpuQueue[i]]
    /\ gpuQueue[j] = lease[callOf[gpuQueue[i]]]

HolderGone(k) ==
  /\ status[k] = "running"
  /\ lease[k] \in Invocations
  /\ pc[lease[k]] = "raised"

OrderInv ==
  /\ \A i, j \in 1 .. Len(gpuQueue) : gpuQueue[i] = gpuQueue[j] => i = j
  /\ \A i \in 1 .. Len(gpuQueue) :
       /\ pc[gpuQueue[i]] \in {"queueing", "executing"}
       /\ callOf[gpuQueue[i]] \in GpuCalls
       /\ HolderBehind(i) \/ HolderGone(callOf[gpuQueue[i]])
=============================================================================
