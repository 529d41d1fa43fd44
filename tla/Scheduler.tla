----------------------------- MODULE Scheduler ------------------------------
(***************************************************************************)
(* The scheduled tasks of the bot (cogs/scheduler.py, the scheduler part   *)
(* of storage.py): every instance of the cog runs a loop that looks for    *)
(* due tasks, claims each by a conditional update and starts a job for it; *)
(* a job waits for the semaphore of its instance, asks the Core, waits for *)
(* the answer on the event stream, posts it to the channel and settles its *)
(* row.  Instances (of several processes, or of one after the cog was      *)
(* reloaded) share the database and nothing else, so a job is named by its *)
(* instance, its task and the time it was claimed with.                    *)
(*                                                                         *)
(* The Core is RunContract, which CoreRun implements; the idempotency key  *)
(* of a request is the task and the second the job was started in, and the *)
(* run is named by its key.                                                *)
(***************************************************************************)
EXTENDS Naturals, Sequences, FiniteSets

CONSTANTS
  Workers,   \* loaded instances of the cog, in one process or in several
  Tasks,     \* rows of scheduled_tasks; ids are not used twice
  Interval,  \* interval_sec, 30 or more
  Limit,     \* tasks per tick, 5
  Cap,       \* ORA_SCHEDULER_MAX_CONCURRENCY
  MaxTime,   \* bound: the last second
  MaxFaults  \* bound: statements and traces that fail, and crashes

ASSUME SchedulerAssumption ==
  /\ IsFiniteSet(Tasks)
  /\ Interval \in Nat \ {0} /\ Limit \in Nat \ {0} /\ Cap \in Nat \ {0}
  /\ MaxTime \in Nat /\ MaxFaults \in Nat

VARIABLES
  clock,
  task,     \* scheduled_tasks
  worker,   \* the loop of an instance: the claims left of its tick
  job,      \* where a job stands, and the second it was started in
  row,      \* scheduled_task_runs, by job
  posted,   \* jobs whose answer is in the channel
  faults,
  status, answers, unconfirmed, told  \* of the Core's runs

core  == <<status, answers, unconfirmed, told>>
local == <<worker, job, row, posted>>
vars  == <<clock, task, local, faults, core>>

Times == 0 .. MaxTime
Jobs  == Workers \X Tasks \X Times
Runs  == Tasks \X Times

Core == INSTANCE RunContract

Held  == {"asking", "waiting", "posting", "storing", "failing"}
Live  == {"queued"} \cup Held
Ended == {"ok", "failed", "dropped", "stuck", "lost"}

TaskState   == [state : {"none", "here", "deleted"}, enabled : BOOLEAN, next : Nat]
WorkerState == [loop : {"up", "stopped", "down"}, due : Seq(Tasks \X Times)]
JobState    == [at : {"none"} \cup Live \cup Ended, started : Times]
RowState    == {"none", "running", "ok", "failed", "deleted"}

TypeOK ==
  /\ clock \in Times
  /\ task \in [Tasks -> TaskState]
  /\ worker \in [Workers -> WorkerState]
  /\ job \in [Jobs -> JobState]
  /\ row \in [Jobs -> RowState]
  /\ posted \in SUBSET Jobs
  /\ faults \in 0 .. MaxFaults
  /\ status \in [Runs -> {"none", "queued", "in_progress", "failed", "completed"}]
  /\ answers \in SUBSET Runs
  /\ unconfirmed \in SUBSET answers
  /\ told \in [Runs -> {"open", "final", "error"}]

Init ==
  /\ clock = 0
  /\ task = [t \in Tasks |->
       [state |-> "none", enabled |-> FALSE, next |-> 0]]
  /\ \E loaded \in SUBSET Workers :
       worker = [w \in Workers |-> [loop |-> IF w \in loaded THEN "up" ELSE "down",
                                    due |-> <<>>]]
  /\ job = [j \in Jobs |-> [at |-> "none", started |-> 0]]
  /\ row = [j \in Jobs |-> "none"]
  /\ posted = {}
  /\ faults = 0
  /\ Core!Init

Fault == faults < MaxFaults /\ faults' = faults + 1

-----------------------------------------------------------------------------
(***************************************************************************)
(* The owner and the clock.                                                *)
(***************************************************************************)
Create(t) ==
  /\ task[t].state = "none"
  /\ \E enabled \in BOOLEAN :
       task' = [task EXCEPT ![t] =
                  [state |-> "here", enabled |-> enabled, next |-> clock + Interval]]
  /\ UNCHANGED <<clock, local, faults, core>>

\* set_scheduled_task_enabled: next_run_at is left as it is.
Toggle(t) ==
  /\ task[t].state = "here"
  /\ task' = [task EXCEPT ![t].enabled = ~@]
  /\ UNCHANGED <<clock, local, faults, core>>

\* delete_scheduled_task: the rows of the task's jobs go with it.
Delete(t) ==
  /\ task[t].state = "here"
  /\ task' = [task EXCEPT ![t].state = "deleted"]
  /\ row' = [j \in Jobs |-> IF j[2] = t /\ row[j] # "none" THEN "deleted" ELSE row[j]]
  /\ UNCHANGED <<clock, worker, job, posted, faults, core>>

Second ==
  /\ clock < MaxTime
  /\ clock' = clock + 1
  /\ UNCHANGED <<task, local, faults, core>>

-----------------------------------------------------------------------------
(***************************************************************************)
(* The loop of a process: _tick.  Operators named after a mistake are      *)
(* mutants of the definition that follows them; no action uses them.       *)
(***************************************************************************)
Due(now) ==
  {t \in Tasks : task[t].state = "here" /\ task[t].enabled /\ task[t].next <= now}

\* The first n of the tasks of a set, in an order of their next_run_at.
FirstOf(due, n) ==
  {q \in [1 .. n -> due] :
     /\ \A i, k \in 1 .. n : i < k => q[i] # q[k] /\ task[q[i]].next <= task[q[k]].next
     /\ \A t \in due, i \in 1 .. n :
          (\A k \in 1 .. n : q[k] # t) => task[q[i]].next <= task[t].next}

Places(now) ==
  IF Cardinality(Due(now)) < Limit THEN Cardinality(Due(now)) ELSE Limit

BatchesUnordered(now) ==
  {q \in [1 .. Places(now) -> Due(now)] :
     \A i, k \in 1 .. Places(now) : i < k => q[i] # q[k]}

\* The due tasks in the order of next_run_at, at most Limit of them.
Batches(now) == FirstOf(Due(now), Places(now))

Tick(w) ==
  /\ worker[w].loop = "up"
  /\ worker[w].due = <<>>
  /\ Due(clock) # {}
  /\ \E q \in Batches(clock) :
       worker' = [worker EXCEPT ![w].due = [i \in DOMAIN q |-> <<q[i], clock>>]]
  /\ UNCHANGED <<clock, task, job, row, posted, faults, core>>

ClaimableUntimed(t, now) == task[t].state = "here" /\ task[t].enabled

\* The condition of the update, with the time the tick began with.
Claimable(t, now) ==
  task[t].state = "here" /\ task[t].enabled /\ task[t].next <= now

TriesAgain(w) == UNCHANGED worker

\* Somebody else has the task: on to the next.
Skips(w) == worker' = [worker EXCEPT ![w].due = Tail(@)]

\* claim_scheduled_task finds the task due.
Takes(w, step) ==
  LET t   == Head(worker[w].due)[1]
      now == Head(worker[w].due)[2]
  IN
  /\ Claimable(t, now)
  /\ task' = [task EXCEPT ![t].next = now + Interval]
  /\ job' = [job EXCEPT ![<<w, t, now>>].at = step]

\* The next task of the tick is claimed, and a job is started for it.
Claim(w) ==
  /\ worker[w].loop = "up"
  /\ worker[w].due # <<>>
  /\ \/ /\ Takes(w, "queued")
        /\ worker' = [worker EXCEPT ![w].due = Tail(@)]
     \/ /\ ~Claimable(Head(worker[w].due)[1], Head(worker[w].due)[2])
        /\ Skips(w)
        /\ UNCHANGED <<task, job>>
  /\ UNCHANGED <<clock, row, posted, faults, core>>

\* A statement of the tick fails: _run_loop logs it, drops the rest of the tick
\* and goes on with the next.
TickFails(w) ==
  /\ worker[w].loop = "up"
  /\ worker[w].due # <<>> \/ Due(clock) # {}
  /\ Fault
  /\ worker' = [worker EXCEPT ![w].due = <<>>]
  /\ UNCHANGED <<clock, task, job, row, posted, core>>

\* cog_unload cancels the loop, not the jobs; a claim that the database carries
\* out all the same gets no job.
Unload(w) ==
  /\ worker[w].loop = "up"
  /\ worker' = [worker EXCEPT ![w].due = <<>>, ![w].loop = "stopped"]
  /\ \/ UNCHANGED <<task, job>>
     \/ worker[w].due # <<>> /\ Takes(w, "dropped")
  /\ UNCHANGED <<clock, row, posted, faults, core>>

\* The instance ends with all its jobs.
Crash(w) ==
  /\ worker[w].loop # "down"
  /\ Fault
  /\ worker' = [worker EXCEPT ![w].due = <<>>, ![w].loop = "down"]
  /\ job' = [j \in Jobs |-> IF j[1] = w /\ job[j].at \in Live
                            THEN [job[j] EXCEPT !.at = "lost"] ELSE job[j]]
  /\ UNCHANGED <<clock, task, row, posted, core>>

\* cog_load, at the start of a process or after an instance was unloaded.
Load(w) ==
  /\ worker[w].loop = "down"
  /\ worker' = [worker EXCEPT ![w].loop = "up"]
  /\ UNCHANGED <<clock, task, job, row, posted, faults, core>>

-----------------------------------------------------------------------------
(***************************************************************************)
(* A job: _execute_task.                                                   *)
(***************************************************************************)
Run(j) == <<j[2], job[j].started>>

Goto(j, step) == job' = [job EXCEPT ![j].at = step]

InHand(w) == {j \in Jobs : j[1] = w /\ job[j].at \in Held}

\* The job has the semaphore and stores its row, also when its task is deleted
\* by now; without the row it ends unseen, and when its first trace cannot be
\* written it leaves before anything would settle the row.
Begin(j) ==
  /\ job[j].at = "queued"
  /\ Cardinality(InHand(j[1])) < Cap
  /\ \/ /\ \/ /\ job' = [job EXCEPT ![j] = [at |-> "asking", started |-> clock]]
              /\ UNCHANGED faults
           \/ /\ job' = [job EXCEPT ![j] = [at |-> "stuck", started |-> clock]]
              /\ Fault
        /\ row' = [row EXCEPT ![j] = "running"]
     \/ Fault /\ Goto(j, "dropped") /\ UNCHANGED row
  /\ UNCHANGED <<clock, task, worker, posted, core>>

\* POST /v1/messages: a new key makes a run, a known one finds it; the response
\* may be lost.
Ask(j) ==
  /\ job[j].at = "asking"
  /\ \/ Core!Accept(Run(j))
     \/ status[Run(j)] # "none" /\ UNCHANGED core
  /\ \E step \in {"waiting", "failing"} : Goto(j, step)
  /\ UNCHANGED <<clock, task, worker, row, posted, faults>>

\* The channel is not there, or the Core cannot be reached.
AskFails(j) ==
  /\ job[j].at = "asking"
  /\ Goto(j, "failing")
  /\ UNCHANGED <<clock, task, worker, row, posted, faults, core>>

HeardAnyEnd(r) == told[r] # "open"

\* get_final_response returns the text of the event "final".
Heard(r) == told[r] = "final"

Hear(j) ==
  /\ job[j].at = "waiting"
  /\ Heard(Run(j))
  /\ Goto(j, "posting")
  /\ UNCHANGED <<clock, task, worker, row, posted, faults, core>>

\* The run failed, the answer is empty, the stream is refused or five minutes are
\* over: there is no text.
HearNothing(j) ==
  /\ job[j].at = "waiting"
  /\ Goto(j, "failing")
  /\ UNCHANGED <<clock, task, worker, row, posted, faults, core>>

\* channel.send; one that fails may have been carried out.
Post(j) ==
  /\ job[j].at = "posting"
  /\ \/ posted' = posted \cup {j} /\ \E step \in {"storing", "failing"} : Goto(j, step)
     \/ posted' = posted /\ Goto(j, "failing")
  /\ UNCHANGED <<clock, task, worker, row, faults, core>>

\* finish_task_run: an update by id, which does not find a deleted row.
Settle(j, outcome) == row' = [row EXCEPT ![j] = IF @ = "deleted" THEN @ ELSE outcome]

UnsettledAnyway(j) == Goto(j, "ok")

\* An error of the update is handled like one of the job.
SettleFails(j) == Goto(j, "failing")

\* So is one of the trace that follows the update: the job fails with its row at
\* "ok".
Store(j) ==
  /\ job[j].at = "storing"
  /\ \/ Settle(j, "ok") /\ Goto(j, "ok") /\ UNCHANGED faults
     \/ Fault /\ SettleFails(j) /\ (UNCHANGED row \/ Settle(j, "ok"))
  /\ UNCHANGED <<clock, task, worker, posted, core>>

SettleFailed(j) == Settle(j, "failed")

\* An error of this update leaves the job, which gives its slot back.
StoreFailure(j) ==
  /\ job[j].at = "failing"
  /\ \/ SettleFailed(j) /\ Goto(j, "failed") /\ UNCHANGED faults
     \/ Fault /\ Goto(j, "stuck") /\ UNCHANGED row
  /\ UNCHANGED <<clock, task, worker, posted, core>>

-----------------------------------------------------------------------------
\* What a run does while nobody listens can as well happen when somebody does; a
\* job does not see whether its run is stored as completed.
CoreStep ==
  /\ \E r \in {Run(j) : j \in {k \in Jobs : job[k].at = "waiting"}} :
       \/ Core!Start(r) \/ Core!Fail(r) \/ Core!Answer(r)
       \/ \E event \in {"final", "error"} : Core!Tell(r, event)
  /\ UNCHANGED <<clock, task, local, faults>>

JobStep(j) ==
  \/ Begin(j) \/ Ask(j) \/ AskFails(j) \/ Hear(j) \/ HearNothing(j)
  \/ Post(j) \/ Store(j) \/ StoreFailure(j)

Next ==
  \/ \E t \in Tasks : Create(t) \/ Toggle(t) \/ Delete(t)
  \/ Second
  \/ \E w \in Workers :
       Tick(w) \/ Claim(w) \/ TickFails(w) \/ Unload(w) \/ Crash(w) \/ Load(w)
  \/ \E j \in Jobs : JobStep(j)
  \/ CoreStep

\* The loop of an instance keeps ticking.  The owner, the clock, the Core and the
\* jobs owe nothing.
Fairness == \A w \in Workers : WF_vars(Tick(w)) /\ WF_vars(Claim(w))

Spec == Init /\ [][Next]_vars
FairSpec == Spec /\ Fairness

-----------------------------------------------------------------------------
(***************************************************************************)
(* What the scheduler promises.                                            *)
(***************************************************************************)

\* "Atomically move next_run_at forward" (claim_scheduled_task): however many
\* instances tick at once, with whatever idea of the time, and however often the
\* task is switched off and on, a task is claimed once per interval.
ClaimsAreApart ==
  \A i, j \in Jobs :
    /\ i # j /\ i[2] = j[2] /\ job[i].at # "none" /\ job[j].at # "none"
    => i[3] + Interval <= j[3] \/ j[3] + Interval <= i[3]

\* The audit trail does not claim more than happened: a row says ok only if the
\* answer is in the channel, and it is the answer the Core has stored.
OkIsTrue ==
  \A j \in Jobs : row[j] = "ok" =>
    j \in posted /\ Run(j) \in answers /\ told[Run(j)] = "final"

\* A row that says running is of a job at work, unless the process crashed, the
\* update that failed was the last one the job tries, or the trace failed that is
\* written before the job starts to catch errors.
RunningIsInHand ==
  \A j \in Jobs : row[j] = "running" => job[j].at \in Held \cup {"stuck", "lost"}

\* A task as its owner sees it.
Switch(t) ==
  CASE task[t].state = "here"    -> IF task[t].enabled THEN "on" ELSE "off"
    [] task[t].state = "deleted" -> "gone"
    [] OTHER                     -> "none"

Begun == {j \in Jobs : job[j].at # "none"}

Schedule == INSTANCE Timetable WITH
              switch   <- [t \in Tasks |-> Switch(t)],
              begun    <- Begun,
              record   <- row,
              started  <- [j \in Jobs |-> job[j].started],
              answered <- {r \in Runs : told[r] = "final"},
              sent     <- posted

\* Whoever ticks, with whatever stale list and clock, and wherever a job fails or
\* is lost: a task occurs once per interval and only while it is switched on, an
\* occurrence sends one message at most, and its row follows what was done.
KeepsTimetable == Schedule!Spec

\* While some instance is loaded a due task does not stay due, however many are
\* due before it and whatever fails in a tick: it is claimed, or its owner switched
\* it off.  The owners do not switch tasks on and off for ever: one that is on
\* whenever a tick looks and off before each claim could take a place of every tick.
DueTasksAreClaimed ==
  LET Loaded  == \E w \in Workers : worker[w].loop = "up"
      Settled == <>[][\A t \in Tasks : task'[t].enabled = task[t].enabled]_vars
  IN  Settled =>
        \A t \in Tasks : Loaded /\ t \in Due(clock) ~> ~Loaded \/ t \notin Due(clock)

-----------------------------------------------------------------------------
(***************************************************************************)
(* The inductive invariant.                                                *)
(***************************************************************************)

\* The next time of a task is past the interval of every claim.
ClaimInv ==
  /\ \A j \in Jobs : job[j].at # "none" =>
       task[j[2]].state # "none" /\ j[3] + Interval <= task[j[2]].next
  /\ ClaimsAreApart

\* What a job knows of its answer.
AnswerInv ==
  /\ \A r \in Runs : told[r] = "final" => r \in answers
  /\ \A j \in Jobs :
       job[j].at \in {"posting", "storing"} =>
         Run(j) \in answers /\ told[Run(j)] = "final"
  /\ \A j \in Jobs : job[j].at = "storing" => j \in posted
  /\ OkIsTrue

\* There is no row before the job has its slot.
RowInv ==
  /\ \A j \in Jobs : job[j].at \in {"none", "queued"} => row[j] = "none"
  /\ RunningIsInHand

\* A job has its row while it is at work, and has sent nothing before it posts.
WorkInv ==
  \A j \in Jobs :
    /\ job[j].at \in Held \ {"failing"} => row[j] \in {"running", "deleted"}
    /\ job[j].at = "failing" => row[j] \in {"running", "ok", "deleted"}
    /\ job[j].at \in Live \ {"storing", "failing"} => j \notin posted
    /\ job[j].at = "none" => j \notin posted

SchedulerInv == ClaimInv /\ AnswerInv /\ RowInv /\ WorkInv

=============================================================================
