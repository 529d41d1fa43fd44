-------------------------- MODULE SchedulerProofs ---------------------------
(***************************************************************************)
(* Proofs about Scheduler: its types, that claims of a task are an         *)
(* interval apart, and that the audit trail says what happened.            *)
(***************************************************************************)
EXTENDS Scheduler, FiniteSetTheorems, TLAPS

\* A job is named by its instance, its task and its time.
LEMMA JobFacts ==
  ASSUME NEW j \in Jobs
  PROVE  /\ j[1] \in Workers /\ j[2] \in Tasks /\ j[3] \in Times
         /\ j = <<j[1], j[2], j[3]>>
BY DEF Jobs

LEMMA NewJob ==
  ASSUME NEW w \in Workers, NEW t \in Tasks, NEW now \in Times
  PROVE  /\ <<w, t, now>> \in Jobs
         /\ <<w, t, now>>[1] = w /\ <<w, t, now>>[2] = t /\ <<w, t, now>>[3] = now
BY DEF Jobs

\* The run of a job is one of the Core's.
LEMMA RunFacts ==
  ASSUME TypeOK, NEW j \in Jobs
  PROVE  Run(j) \in Runs
BY JobFacts DEF TypeOK, JobState, Run, Runs

\* What a tick selects is a finite list of due tasks.
LEMMA BatchFacts ==
  ASSUME TypeOK, NEW now, NEW q \in Batches(now)
  PROVE  \E n \in Nat : q \in [1 .. n -> Tasks]
<1>1. Due(now) \subseteq Tasks
  BY DEF Due
<1>2. Cardinality(Due(now)) \in Nat
  BY <1>1, FS_Subset, FS_CardinalityType, SchedulerAssumption
<1>3. Places(now) \in Nat
  BY <1>2, SchedulerAssumption DEF Places
<1>4. q \in [1 .. Places(now) -> Due(now)]
  BY DEF Batches, FirstOf
<1>. QED BY <1>1, <1>3, <1>4

\* The head of the list of claims.
LEMMA ClaimFacts ==
  ASSUME TypeOK, NEW w \in Workers, worker[w].due # <<>>
  PROVE  /\ Head(worker[w].due)[1] \in Tasks /\ Head(worker[w].due)[2] \in Times
         /\ Tail(worker[w].due) \in Seq(Tasks \X Times)
<1>1. worker[w].due \in Seq(Tasks \X Times)
  BY DEF TypeOK, WorkerState
<1>2. Head(worker[w].due) \in Tasks \X Times
  BY <1>1
<1>. QED BY <1>1, <1>2

\* A claim makes one job of a task that was due.
LEMMA TakesFacts ==
  ASSUME TypeOK, NEW w \in Workers, worker[w].due # <<>>,
         NEW step \in {"queued", "dropped"}, Takes(w, step)
  PROVE  \E t \in Tasks, now \in Times, k \in Jobs :
           /\ k[2] = t /\ k[3] = now
           /\ Claimable(t, now)
           /\ task' = [task EXCEPT ![t].next = now + Interval]
           /\ job' = [job EXCEPT ![k].at = step]
<1>. DEFINE t == Head(worker[w].due)[1]
            now == Head(worker[w].due)[2]
            k == <<w, t, now>>
<1>1. t \in Tasks /\ now \in Times
  BY ClaimFacts
<1>2. k \in Jobs /\ k[2] = t /\ k[3] = now
  BY <1>1, NewJob
<1>3. /\ Claimable(t, now)
      /\ task' = [task EXCEPT ![t].next = now + Interval]
      /\ job' = [job EXCEPT ![k].at = step]
  BY DEF Takes
<1>. HIDE DEF t, now, k
<1>. QED BY <1>1, <1>2, <1>3

\* The loop of an instance moves jobs by claims only.
LEMMA LoopTakes ==
  ASSUME TypeOK, NEW w \in Workers, Claim(w) \/ Unload(w)
  PROVE  \/ UNCHANGED <<task, job>>
         \/ \E step \in {"queued", "dropped"}, t \in Tasks, now \in Times, k \in Jobs :
              /\ k[2] = t /\ k[3] = now
              /\ Claimable(t, now)
              /\ task' = [task EXCEPT ![t].next = now + Interval]
              /\ job' = [job EXCEPT ![k].at = step]
<1>1. ASSUME NEW step \in {"queued", "dropped"}, worker[w].due # <<>>, Takes(w, step)
      PROVE  \E t \in Tasks, now \in Times, k \in Jobs :
               /\ k[2] = t /\ k[3] = now
               /\ Claimable(t, now)
               /\ task' = [task EXCEPT ![t].next = now + Interval]
               /\ job' = [job EXCEPT ![k].at = step]
  BY <1>1, TakesFacts
<1>2. \/ UNCHANGED <<task, job>>
      \/ \E step \in {"queued", "dropped"} : worker[w].due # <<>> /\ Takes(w, step)
  BY DEF Claim, Unload
<1>. QED BY <1>1, <1>2

-----------------------------------------------------------------------------
\* A fault is counted up to its bound.
LEMMA FaultType ==
  ASSUME TypeOK, Fault \/ UNCHANGED faults
  PROVE  faults' \in 0 .. MaxFaults
BY SchedulerAssumption DEF TypeOK, Fault

\* The Core's own steps keep the types of its runs.
LEMMA CoreType ==
  ASSUME TypeOK, NEW r \in Runs,
         \/ Core!Accept(r) \/ Core!Start(r) \/ Core!Fail(r) \/ Core!Answer(r)
         \/ \E event \in {"final", "error"} : Core!Tell(r, event)
  PROVE  /\ status' \in [Runs -> {"none", "queued", "in_progress", "failed", "completed"}]
         /\ answers' \in SUBSET Runs
         /\ unconfirmed' \in SUBSET answers'
         /\ told' \in [Runs -> {"open", "final", "error"}]
BY DEF TypeOK, Core!Accept, Core!Start, Core!Fail, Core!Answer, Core!Tell, Core!Move

\* A move of one job.
LEMMA GotoType ==
  ASSUME TypeOK, NEW j \in Jobs, NEW step \in Live \cup Ended, Goto(j, step)
  PROVE  job' \in [Jobs -> JobState]
BY DEF TypeOK, Goto, JobState

LEMMA SettleType ==
  ASSUME TypeOK, NEW j \in Jobs, NEW outcome \in {"ok", "failed"}, Settle(j, outcome)
  PROVE  row' \in [Jobs -> RowState]
BY DEF TypeOK, Settle, RowState

\* Every step of a job keeps the types.
LEMMA JobStepType ==
  ASSUME TypeOK, NEW j \in Jobs, JobStep(j)
  PROVE  TypeOK'
<1>. USE DEF Live, Held, Ended
<1>1. CASE Begin(j)
  <2>1. job' \in [Jobs -> JobState]
    BY <1>1, GotoType DEF Begin, TypeOK, JobState
  <2>2. row' \in [Jobs -> RowState]
    BY <1>1 DEF Begin, TypeOK, RowState
  <2>. QED BY <1>1, <2>1, <2>2, FaultType DEF Begin, TypeOK, core
<1>2. CASE Ask(j)
  <2>1. job' \in [Jobs -> JobState]
    BY <1>2, GotoType DEF Ask
  <2>2. CASE Core!Accept(Run(j))
    BY <1>2, <2>1, <2>2, CoreType, RunFacts DEF Ask, TypeOK
  <2>3. CASE UNCHANGED core
    BY <1>2, <2>1, <2>3 DEF Ask, TypeOK, core
  <2>. QED BY <1>2, <2>2, <2>3 DEF Ask
<1>3. CASE AskFails(j) \/ Hear(j) \/ HearNothing(j)
  <2>1. job' \in [Jobs -> JobState]
    BY <1>3, GotoType DEF AskFails, Hear, HearNothing
  <2>. QED BY <1>3, <2>1 DEF AskFails, Hear, HearNothing, TypeOK, core
<1>4. CASE Post(j)
  <2>1. job' \in [Jobs -> JobState]
    BY <1>4, GotoType DEF Post
  <2>. QED BY <1>4, <2>1 DEF Post, TypeOK, core
<1>5. CASE Store(j)
  <2>1. job' \in [Jobs -> JobState]
    BY <1>5, GotoType DEF Store, SettleFails
  <2>2. row' \in [Jobs -> RowState]
    BY <1>5, SettleType DEF Store, TypeOK
  <2>. QED BY <1>5, <2>1, <2>2, FaultType DEF Store, TypeOK, core
<1>6. CASE StoreFailure(j)
  <2>1. job' \in [Jobs -> JobState]
    BY <1>6, GotoType DEF StoreFailure
  <2>2. row' \in [Jobs -> RowState]
    BY <1>6, SettleType DEF StoreFailure, SettleFailed, TypeOK
  <2>. QED BY <1>6, <2>1, <2>2, FaultType DEF StoreFailure, TypeOK, core
<1>. QED BY <1>1, <1>2, <1>3, <1>4, <1>5, <1>6 DEF JobStep

\* What the loop of an instance does keeps the types.
LEMMA LoopType ==
  ASSUME TypeOK, NEW w \in Workers,
         Tick(w) \/ Claim(w) \/ TickFails(w) \/ Unload(w) \/ Crash(w) \/ Load(w)
  PROVE  TypeOK'
<1>. USE DEF WorkerState
<1>1. CASE Tick(w)
  <2>1. PICK q \in Batches(clock) :
          worker' = [worker EXCEPT ![w].due = [i \in DOMAIN q |-> <<q[i], clock>>]]
    BY <1>1 DEF Tick
  <2>2. PICK n \in Nat : q \in [1 .. n -> Tasks]
    BY <2>1, BatchFacts
  <2>3. clock \in Times
    BY DEF TypeOK
  <2>4. [i \in DOMAIN q |-> <<q[i], clock>>] \in Seq(Tasks \X Times)
    BY <2>2, <2>3
  <2>5. worker' \in [Workers -> WorkerState]
    BY <2>1, <2>4 DEF TypeOK
  <2>. QED BY <1>1, <2>5 DEF Tick, TypeOK, core
<1>2. ASSUME Claim(w) \/ Unload(w)
      PROVE  task' \in [Tasks -> TaskState] /\ job' \in [Jobs -> JobState]
  <2>1. CASE UNCHANGED <<task, job>>
    BY <2>1 DEF TypeOK
  <2>2. ASSUME NEW step \in {"queued", "dropped"}, NEW t \in Tasks, NEW now \in Times,
               NEW k \in Jobs,
               task' = [task EXCEPT ![t].next = now + Interval],
               job' = [job EXCEPT ![k].at = step]
        PROVE  task' \in [Tasks -> TaskState] /\ job' \in [Jobs -> JobState]
    <3>1. now + Interval \in Nat
      BY SchedulerAssumption DEF Times
    <3>2. \A x \in TaskState, n \in Nat : [x EXCEPT !.next = n] \in TaskState
      BY DEF TaskState
    <3>3. \A x \in JobState : [x EXCEPT !.at = step] \in JobState
      BY DEF JobState, Live, Ended
    <3>4. task \in [Tasks -> TaskState] /\ job \in [Jobs -> JobState]
      BY DEF TypeOK
    <3>. QED BY <2>2, <3>1, <3>2, <3>3, <3>4
  <2>. QED BY <1>2, <2>1, <2>2, LoopTakes
<1>7. CASE Claim(w)
  <2>1. Tail(worker[w].due) \in Seq(Tasks \X Times)
    BY <1>7, ClaimFacts DEF Claim
  <2>2. \A x \in WorkerState, d \in Seq(Tasks \X Times) : [x EXCEPT !.due = d] \in WorkerState
    BY DEF WorkerState
  <2>3. worker \in [Workers -> WorkerState] /\ worker[w] \in WorkerState
    BY DEF TypeOK
  <2>4. worker' = [worker EXCEPT ![w].due = Tail(@)]
    BY <1>7 DEF Claim, Skips
  <2>5. worker' \in [Workers -> WorkerState]
    BY <2>1, <2>2, <2>3, <2>4
  <2>. QED BY <1>2, <1>7, <2>5 DEF Claim, TypeOK, core
<1>0. <<>> \in Seq(Tasks \X Times)
  OBVIOUS
<1>3. CASE TickFails(w)
  <2>1. worker' \in [Workers -> WorkerState]
    BY <1>3, <1>0 DEF TickFails, TypeOK
  <2>. QED BY <1>3, <2>1, FaultType DEF TickFails, TypeOK, core
<1>4. CASE Unload(w)
  <2>1. worker' \in [Workers -> WorkerState]
    BY <1>4, <1>0 DEF Unload, TypeOK
  <2>. QED BY <1>2, <1>4, <2>1 DEF Unload, TypeOK, core
<1>5. CASE Crash(w)
  <2>1. worker' \in [Workers -> WorkerState]
    BY <1>5 DEF Crash, TypeOK
  <2>2. job' \in [Jobs -> JobState]
    BY <1>5 DEF Crash, TypeOK, JobState, Ended
  <2>. QED BY <1>5, <2>1, <2>2, FaultType DEF Crash, TypeOK, core
<1>6. CASE Load(w)
  BY <1>6 DEF Load, TypeOK, core
<1>. QED BY <1>1, <1>3, <1>4, <1>5, <1>6, <1>7

\* What the owner does keeps the types.
LEMMA OwnerType ==
  ASSUME TypeOK, NEW t \in Tasks, Create(t) \/ Toggle(t) \/ Delete(t)
  PROVE  TypeOK'
<1>1. CASE Create(t)
  <2>1. clock + Interval \in Nat
    BY SchedulerAssumption DEF TypeOK, Times
  <2>2. task' \in [Tasks -> TaskState]
    BY <1>1, <2>1 DEF Create, TypeOK, TaskState
  <2>. QED BY <1>1, <2>2 DEF Create, TypeOK, local, core
<1>2. CASE Toggle(t)
  <2>1. task' \in [Tasks -> TaskState]
    <3>1. \A x \in TaskState : [x EXCEPT !.enabled = ~x.enabled] \in TaskState
      BY DEF TaskState
    <3>2. task \in [Tasks -> TaskState] /\ task[t] \in TaskState
      BY DEF TypeOK
    <3>. QED BY <1>2, <3>1, <3>2 DEF Toggle
  <2>. QED BY <1>2, <2>1 DEF Toggle, TypeOK, local, core
<1>3. CASE Delete(t)
  <2>1. task' \in [Tasks -> TaskState]
    BY <1>3 DEF Delete, TypeOK, TaskState
  <2>2. row' \in [Jobs -> RowState]
    BY <1>3 DEF Delete, TypeOK, RowState
  <2>. QED BY <1>3, <2>1, <2>2 DEF Delete, TypeOK, core
<1>. QED BY <1>1, <1>2, <1>3

LEMMA InitType == Init => TypeOK
BY SchedulerAssumption, JobFacts
   DEF Init, TypeOK, Core!Init, TaskState, WorkerState, JobState, RowState, Times, Live

LEMMA NextType == TypeOK /\ [Next]_vars => TypeOK'
<1>. SUFFICES ASSUME TypeOK, [Next]_vars  PROVE TypeOK'
  OBVIOUS
<1>1. ASSUME NEW t \in Tasks, Create(t) \/ Toggle(t) \/ Delete(t)  PROVE TypeOK'
  BY <1>1, OwnerType
<1>2. CASE Second
  BY <1>2, SchedulerAssumption DEF Second, TypeOK, Times, local, core
<1>3. ASSUME NEW w \in Workers,
             Tick(w) \/ Claim(w) \/ TickFails(w) \/ Unload(w) \/ Crash(w) \/ Load(w)
      PROVE  TypeOK'
  BY <1>3, LoopType
<1>4. ASSUME NEW j \in Jobs, JobStep(j)  PROVE TypeOK'
  BY <1>4, JobStepType
<1>5. CASE CoreStep
  <2>1. PICK j \in Jobs :
          \/ Core!Start(Run(j)) \/ Core!Fail(Run(j)) \/ Core!Answer(Run(j))
          \/ \E event \in {"final", "error"} : Core!Tell(Run(j), event)
    BY <1>5 DEF CoreStep
  <2>. QED BY <1>5, <2>1, RunFacts, CoreType DEF CoreStep, TypeOK, local
<1>6. CASE UNCHANGED vars
  BY <1>6 DEF vars, local, core, TypeOK
<1>. QED BY <1>1, <1>2, <1>3, <1>4, <1>5, <1>6 DEF Next

\* The types of the rows, jobs and loops, for every number of tasks and
\* of instances of the cog.
THEOREM SchedulerTypes == Spec => []TypeOK
BY InitType, NextType, PTL DEF Spec

-----------------------------------------------------------------------------
(***************************************************************************)
(* Claims.                                                                 *)
(***************************************************************************)


\* A step of a job, and the end of an instance, makes no job.
LEMMA JobStepBegun ==
  ASSUME TypeOK, NEW j \in Jobs, JobStep(j)
  PROVE  \A i \in Jobs : job'[i].at # "none" => job[i].at # "none"
BY DEF JobStep, Begin, Ask, AskFails, Hear, HearNothing, Post, Store, StoreFailure,
       Goto, SettleFails, TypeOK, JobState

LEMMA CrashBegun ==
  ASSUME TypeOK, NEW w \in Workers, Crash(w)
  PROVE  \A i \in Jobs : job'[i].at # "none" => job[i].at # "none"
BY DEF Crash, TypeOK, JobState, Live, Held

\* Steps that make no job and take no task back keep what is known of claims.
LEMMA ClaimsKept ==
  ASSUME ClaimInv,
         \A i \in Jobs : job'[i].at # "none" => job[i].at # "none",
         \A t \in Tasks : task[t].state # "none" =>
           task'[t].state # "none" /\ task'[t].next = task[t].next
  PROVE  ClaimInv'
<1>1. ASSUME NEW j \in Jobs, job'[j].at # "none"
      PROVE  task'[j[2]].state # "none" /\ j[3] + Interval <= task'[j[2]].next
  BY <1>1, JobFacts DEF ClaimInv
<1>2. ClaimsAreApart'
  BY DEF ClaimInv, ClaimsAreApart
<1>. QED BY <1>1, <1>2 DEF ClaimInv

\* A claim: earlier claims of the task are an interval before the time it is
\* claimed with.
LEMMA ClaimStep ==
  ASSUME TypeOK, ClaimInv, NEW t \in Tasks, NEW now \in Times, NEW k \in Jobs,
         k[2] = t, k[3] = now,
         Claimable(t, now),
         task' = [task EXCEPT ![t].next = now + Interval],
         NEW step, job' = [job EXCEPT ![k].at = step]
  PROVE  ClaimInv'
<1>1. now \in Nat /\ Interval \in Nat /\ \A j \in Jobs : j[3] \in Nat
  BY SchedulerAssumption, JobFacts DEF Times
<1>2. \A i \in Jobs : i # k => job'[i] = job[i]
  BY DEF TypeOK
<1>3. ASSUME NEW i \in Jobs, i # k, job[i].at # "none", i[2] = t
      PROVE  i[3] + Interval <= now
  <2>1. i[3] + Interval <= task[t].next /\ task[t].next <= now /\ task[t].next \in Nat
    BY <1>3 DEF ClaimInv, Claimable, TypeOK, TaskState
  <2>. QED BY <2>1, <1>1
<1>4. ASSUME NEW j \in Jobs, job'[j].at # "none"
      PROVE  task'[j[2]].state # "none" /\ j[3] + Interval <= task'[j[2]].next
  <2>1. CASE j[2] = t
    <3>1. task'[t].next = now + Interval /\ task'[t].state = "here"
      BY DEF TypeOK, TaskState, Claimable
    <3>2. j[3] <= now
      BY <1>1, <1>2, <1>3, <1>4, <2>1
    <3>. QED BY <1>1, <2>1, <3>1, <3>2
  <2>2. CASE j[2] # t
    <3>1. j # k /\ task'[j[2]] = task[j[2]]
      BY <2>2, JobFacts DEF TypeOK
    <3>. QED BY <1>2, <1>4, <3>1 DEF ClaimInv
  <2>. QED BY <2>1, <2>2
<1>5. ASSUME NEW i \in Jobs, NEW j \in Jobs, i # j, i[2] = j[2],
             job'[i].at # "none", job'[j].at # "none"
      PROVE  i[3] + Interval <= j[3] \/ j[3] + Interval <= i[3]
  <2>1. CASE i = k
    BY <1>2, <1>3, <1>5, <2>1
  <2>2. CASE j = k
    BY <1>2, <1>3, <1>5, <2>2
  <2>3. CASE i # k /\ j # k
    BY <1>2, <1>5, <2>3 DEF ClaimInv, ClaimsAreApart
  <2>. QED BY <2>1, <2>2, <2>3
<1>. QED BY <1>4, <1>5 DEF ClaimInv, ClaimsAreApart

\* The job a claim makes was not there.
LEMMA FreshClaim ==
  ASSUME TypeOK, ClaimInv, NEW t \in Tasks, NEW now \in Times, NEW k \in Jobs,
         k[2] = t, k[3] = now, Claimable(t, now)
  PROVE  job[k].at = "none"
<1>1. task[t].next <= now /\ task[t].next \in Nat
  BY DEF Claimable, TypeOK, TaskState
<1>2. now \in Nat /\ Interval \in Nat \ {0}
  BY SchedulerAssumption DEF Times
<1>. QED BY <1>1, <1>2 DEF ClaimInv

LEMMA ClaimNext == TypeOK /\ ClaimInv /\ [Next]_vars => ClaimInv'
<1>. SUFFICES ASSUME TypeOK, ClaimInv, [Next]_vars  PROVE ClaimInv'
  OBVIOUS
<1>1. ASSUME NEW t \in Tasks, Create(t) \/ Toggle(t) \/ Delete(t)  PROVE ClaimInv'
  BY <1>1, ClaimsKept DEF Create, Toggle, Delete, TypeOK, TaskState, local
<1>2. ASSUME NEW w \in Workers, Claim(w) \/ Unload(w)  PROVE ClaimInv'
  <2>1. CASE UNCHANGED <<task, job>>
    BY <2>1, ClaimsKept
  <2>2. ASSUME NEW step \in {"queued", "dropped"}, NEW t \in Tasks, NEW now \in Times,
               NEW k \in Jobs, k[2] = t, k[3] = now,
               Claimable(t, now),
               task' = [task EXCEPT ![t].next = now + Interval],
               job' = [job EXCEPT ![k].at = step]
        PROVE  ClaimInv'
    BY <2>2, ClaimStep
  <2>. QED BY <1>2, <2>1, <2>2, LoopTakes
<1>3. ASSUME NEW w \in Workers, Crash(w)  PROVE ClaimInv'
  <2>1. UNCHANGED task
    BY <1>3 DEF Crash
  <2>. QED BY <1>3, <2>1, CrashBegun, ClaimsKept
<1>4. ASSUME NEW j \in Jobs, JobStep(j)  PROVE ClaimInv'
  <2>1. UNCHANGED task
    BY <1>4 DEF JobStep, Begin, Ask, AskFails, Hear, HearNothing, Post, Store,
                StoreFailure
  <2>. QED BY <1>4, <2>1, JobStepBegun, ClaimsKept
<1>5. CASE UNCHANGED <<task, job>>
  BY <1>5, ClaimsKept
<1>6. CASE \/ Second \/ CoreStep \/ UNCHANGED vars
           \/ \E w \in Workers : Tick(w) \/ TickFails(w) \/ Load(w)
  BY <1>5, <1>6 DEF Second, CoreStep, vars, local, Tick, TickFails, Load
<1>. QED BY <1>1, <1>2, <1>3, <1>4, <1>6 DEF Next

-----------------------------------------------------------------------------
(***************************************************************************)
(* Rows.                                                                   *)
(***************************************************************************)
LEMMA RowNext == TypeOK /\ ClaimInv /\ RowInv /\ [Next]_vars => RowInv'
<1>. SUFFICES ASSUME TypeOK, ClaimInv, RowInv, [Next]_vars  PROVE RowInv'
  OBVIOUS
<1>. USE DEF RowInv, RunningIsInHand, Held, Live
<1>5. CASE UNCHANGED <<job, row>>
  BY <1>5
<1>1. ASSUME NEW t \in Tasks, Delete(t)  PROVE RowInv'
  BY <1>1 DEF Delete, TypeOK
<1>2. ASSUME NEW w \in Workers, Claim(w) \/ Unload(w)  PROVE RowInv'
  <2>1. UNCHANGED row
    BY <1>2 DEF Claim, Unload
  <2>2. ASSUME NEW step \in {"queued", "dropped"}, NEW k \in Jobs, job[k].at = "none",
               job' = [job EXCEPT ![k].at = step]
        PROVE  RowInv'
    BY <2>1, <2>2 DEF TypeOK, JobState
  <2>. QED BY <1>2, <1>5, <2>1, <2>2, LoopTakes, FreshClaim
<1>3. ASSUME NEW w \in Workers, Crash(w)  PROVE RowInv'
  BY <1>3 DEF Crash, TypeOK, JobState
<1>4. ASSUME NEW j \in Jobs, JobStep(j)  PROVE RowInv'
  <2>1. CASE Begin(j)
    BY <1>4, <2>1 DEF Begin, Goto, TypeOK, JobState
  <2>2. CASE Ask(j) \/ AskFails(j) \/ Hear(j) \/ HearNothing(j) \/ Post(j)
    <3>1. PICK step \in Held : Goto(j, step)
      BY <2>2 DEF Ask, AskFails, Hear, HearNothing, Post
    <3>2. job[j].at \in Held /\ UNCHANGED row
      BY <2>2 DEF Ask, AskFails, Hear, HearNothing, Post
    <3>. QED BY <1>4, <3>1, <3>2 DEF Goto, TypeOK, JobState
  <2>3. CASE Store(j)
    <3>1. /\ \A i \in Jobs \ {j} : job'[i] = job[i] /\ row'[i] = row[i]
          /\ job'[j].at \in {"ok", "failing"}
      BY <2>3 DEF Store, Settle, SettleFails, Goto, TypeOK, JobState
    <3>2. job'[j].at = "ok" => row'[j] # "running"
      BY <2>3 DEF Store, Settle, SettleFails, Goto, TypeOK, JobState
    <3>. QED BY <3>1, <3>2
  <2>4. CASE StoreFailure(j)
    BY <1>4, <2>4 DEF StoreFailure, SettleFailed, Settle, Goto, TypeOK, JobState
  <2>. QED BY <1>4, <2>1, <2>2, <2>3, <2>4 DEF JobStep
<1>6. CASE \/ Second \/ CoreStep \/ UNCHANGED vars
           \/ \E t \in Tasks : Create(t) \/ Toggle(t)
           \/ \E w \in Workers : Tick(w) \/ TickFails(w) \/ Load(w)
  BY <1>5, <1>6 DEF Second, CoreStep, vars, local, Create, Toggle, Tick, TickFails,
                    Load
<1>. QED BY <1>1, <1>2, <1>3, <1>4, <1>6 DEF Next

-----------------------------------------------------------------------------
(***************************************************************************)
(* Answers.                                                                *)
(***************************************************************************)

\* The Core has stored an answer of the run and has told so.
Answered(r) == r \in answers /\ told[r] = "final"

\* The Core tells a run final only after it stored the answer, and takes neither
\* back.
LEMMA CoreKeeps ==
  ASSUME TypeOK, \A r \in Runs : told[r] = "final" => r \in answers,
         NEW s \in Runs,
         \/ Core!Accept(s) \/ Core!Start(s) \/ Core!Fail(s) \/ Core!Answer(s)
         \/ \E event \in {"final", "error"} : Core!Tell(s, event)
         \/ UNCHANGED core
  PROVE  /\ \A r \in Runs : told'[r] = "final" => r \in answers'
         /\ \A r \in Runs : Answered(r) => Answered(r)'
BY DEF TypeOK, Answered, core, Core!Accept, Core!Start, Core!Fail, Core!Answer,
       Core!Tell, Core!Move

\* Steps that bring no job nearer to its answer keep what the jobs know.
LEMMA AnswersKept ==
  ASSUME TypeOK, TypeOK', AnswerInv, posted \subseteq posted',
         \A r \in Runs : told'[r] = "final" => r \in answers',
         \A r \in Runs : Answered(r) => Answered(r)',
         \A j \in Jobs : job'[j].at \in {"posting", "storing"} => job'[j] = job[j],
         \A j \in Jobs : row'[j] = "ok" =>
           row[j] = "ok" /\ job'[j].started = job[j].started
  PROVE  AnswerInv'
<1>1. ASSUME NEW j \in Jobs, job'[j].started = job[j].started,
             Run(j) \in answers, told[Run(j)] = "final"
      PROVE  Run(j)' \in answers' /\ told'[Run(j)'] = "final"
  <2>1. Run(j)' = Run(j)
    BY <1>1 DEF Run
  <2>. QED BY <1>1, <2>1, RunFacts DEF Answered
<1>2. ASSUME NEW j \in Jobs, job'[j].at \in {"posting", "storing"}
      PROVE  Run(j)' \in answers' /\ told'[Run(j)'] = "final"
  BY <1>1, <1>2 DEF AnswerInv
<1>3. ASSUME NEW j \in Jobs, job'[j].at = "storing"  PROVE j \in posted'
  BY <1>3 DEF AnswerInv
<1>4. OkIsTrue'
  BY <1>1 DEF AnswerInv, OkIsTrue
<1>. QED BY <1>2, <1>3, <1>4 DEF AnswerInv

LEMMA AnswerNext ==
  TypeOK /\ TypeOK' /\ ClaimInv /\ RowInv /\ AnswerInv /\ [Next]_vars => AnswerInv'
<1>. SUFFICES ASSUME TypeOK, TypeOK', ClaimInv, RowInv, AnswerInv, [Next]_vars
              PROVE  AnswerInv'
  OBVIOUS
<1>0. \A r \in Runs : told[r] = "final" => r \in answers
  BY DEF AnswerInv
<1>1. CASE UNCHANGED <<job, row, posted, core>>
  BY <1>0, <1>1, AnswersKept DEF core, Answered
<1>2. ASSUME NEW t \in Tasks, Create(t) \/ Toggle(t) \/ Delete(t)  PROVE AnswerInv'
  <2>1. UNCHANGED <<job, posted, core>>
    BY <1>2 DEF Create, Toggle, Delete, local
  <2>2. \A j \in Jobs : row'[j] = "ok" => row[j] = "ok"
    BY <1>2 DEF Create, Toggle, Delete, local
  <2>. QED BY <1>0, <2>1, <2>2, AnswersKept DEF core, Answered
<1>3. ASSUME NEW w \in Workers, Claim(w) \/ Unload(w)  PROVE AnswerInv'
  <2>1. UNCHANGED <<row, posted, core>>
    BY <1>3 DEF Claim, Unload
  <2>2. ASSUME NEW step \in {"queued", "dropped"}, NEW k \in Jobs,
               job' = [job EXCEPT ![k].at = step]
        PROVE  AnswerInv'
    <3>1. \A j \in Jobs : /\ job'[j].at \in {"posting", "storing"} => job'[j] = job[j]
                         /\ job'[j].started = job[j].started
      BY <2>2 DEF TypeOK, JobState
    <3>. QED BY <1>0, <2>1, <3>1, AnswersKept DEF core, Answered
  <2>. QED BY <1>1, <1>3, <2>1, <2>2, LoopTakes
<1>4. ASSUME NEW w \in Workers, Crash(w)  PROVE AnswerInv'
  <2>1. UNCHANGED <<row, posted, core>>
    BY <1>4 DEF Crash
  <2>2. \A j \in Jobs : /\ job'[j].at \in {"posting", "storing"} => job'[j] = job[j]
                       /\ job'[j].started = job[j].started
    BY <1>4 DEF Crash, TypeOK, JobState
  <2>. QED BY <1>0, <2>1, <2>2, AnswersKept DEF core, Answered
<1>5. ASSUME NEW j \in Jobs, JobStep(j)  PROVE AnswerInv'
  <2>0. \A i \in Jobs : i # j => job'[i] = job[i] /\ row'[i] = row[i]
    BY <1>5 DEF JobStep, Begin, Ask, AskFails, Hear, HearNothing, Post, Store,
                StoreFailure, Goto, Settle, SettleFailed, SettleFails, TypeOK
  <2>1. CASE Begin(j)
    <3>1. UNCHANGED <<posted, core>>
      BY <2>1 DEF Begin
    <3>2. job'[j].at \in {"asking", "dropped", "stuck"} /\ row'[j] \in {"running", "none"}
      BY <2>1 DEF Begin, Goto, TypeOK, JobState, RowInv
    <3>. QED BY <1>0, <2>0, <3>1, <3>2, AnswersKept DEF core, Answered
  <2>2. CASE Ask(j)
    <3>1. job'[j].at \in {"waiting", "failing"} /\ job'[j].started = job[j].started
          /\ UNCHANGED <<row, posted>>
      BY <2>2 DEF Ask, Goto, TypeOK, JobState
    <3>2. Core!Accept(Run(j)) \/ UNCHANGED core
      BY <2>2 DEF Ask
    <3>3. /\ \A r \in Runs : told'[r] = "final" => r \in answers'
          /\ \A r \in Runs : Answered(r) => Answered(r)'
      BY <1>0, <3>2, RunFacts, CoreKeeps
    <3>. QED BY <2>0, <3>1, <3>3, AnswersKept
  <2>3. CASE AskFails(j) \/ HearNothing(j)
    <3>1. job'[j].at = "failing" /\ job'[j].started = job[j].started
          /\ UNCHANGED <<row, posted, core>>
      BY <2>3 DEF AskFails, HearNothing, Goto, TypeOK, JobState
    <3>. QED BY <1>0, <2>0, <3>1, AnswersKept DEF core, Answered
  <2>4. CASE Hear(j)
    <3>1. job'[j].at = "posting" /\ job'[j].started = job[j].started
          /\ UNCHANGED <<row, posted, core>>
      BY <2>4 DEF Hear, Goto, TypeOK, JobState
    <3>2. told[Run(j)] = "final" /\ Run(j) \in answers
      BY <2>4, <1>0, RunFacts DEF Hear, Heard
    <3>3. \A i \in Jobs : Run(i)' = Run(i)
      BY <2>0, <3>1 DEF Run
    <3>. QED BY <2>0, <3>1, <3>2, <3>3 DEF AnswerInv, OkIsTrue, core
  <2>5. CASE Post(j)
    <3>1. /\ job[j].at = "posting" /\ job'[j].started = job[j].started
          /\ UNCHANGED <<row, core>> /\ posted \subseteq posted'
          /\ job'[j].at \in {"storing", "failing"}
          /\ job'[j].at = "storing" => j \in posted'
      <4>1. /\ job[j].at = "posting" /\ UNCHANGED <<row, core>>
            /\ \/ /\ posted' = posted \cup {j}
                  /\ \E step \in {"storing", "failing"} : Goto(j, step)
               \/ posted' = posted /\ Goto(j, "failing")
        BY <2>5 DEF Post
      <4>2. PICK step \in {"storing", "failing"} : Goto(j, step)
        BY <4>1
      <4>3. job'[j].at = step /\ job'[j].started = job[j].started
        BY <4>2 DEF Goto, TypeOK, JobState
      <4>4. Goto(j, "failing") => job'[j].at = "failing"
        BY DEF Goto, TypeOK, JobState
      <4>5. CASE posted' = posted \cup {j}
        BY <4>1, <4>3, <4>5
      <4>6. CASE posted' = posted /\ Goto(j, "failing")
        <5>1. job'[j].at = "failing" /\ posted \subseteq posted'
          BY <4>4, <4>6
        <5>. QED BY <4>1, <4>3, <5>1
      <4>. QED BY <4>1, <4>5, <4>6
    <3>2. \A i \in Jobs : Run(i)' = Run(i)
      BY <2>0, <3>1 DEF Run
    <3>. QED BY <2>0, <3>1, <3>2 DEF AnswerInv, OkIsTrue, core
  <2>6. CASE Store(j)
    <3>1. /\ job[j].at = "storing" /\ job'[j].started = job[j].started
          /\ UNCHANGED <<posted, core>>
          /\ job'[j].at \in {"ok", "failing"}
      BY <2>6 DEF Store, SettleFails, Goto, TypeOK, JobState
    <3>2. \A i \in Jobs : Run(i)' = Run(i)
      BY <2>0, <3>1 DEF Run
    <3>. QED BY <2>0, <3>1, <3>2 DEF AnswerInv, OkIsTrue, core
  <2>7. CASE StoreFailure(j)
    <3>1. /\ job'[j].at \in {"failed", "stuck"} /\ job'[j].started = job[j].started
          /\ UNCHANGED <<posted, core>>
          /\ row'[j] = "ok" => row[j] = "ok"
      BY <2>7 DEF StoreFailure, SettleFailed, Settle, Goto, TypeOK, JobState
    <3>. QED BY <1>0, <2>0, <3>1, AnswersKept DEF core, Answered
  <2>. QED BY <1>5, <2>1, <2>2, <2>3, <2>4, <2>5, <2>6, <2>7 DEF JobStep
<1>6. CASE CoreStep
  <2>1. PICK j \in Jobs :
          \/ Core!Start(Run(j)) \/ Core!Fail(Run(j)) \/ Core!Answer(Run(j))
          \/ \E event \in {"final", "error"} : Core!Tell(Run(j), event)
    BY <1>6 DEF CoreStep
  <2>2. UNCHANGED <<job, row, posted>>
    BY <1>6 DEF CoreStep, local
  <2>3. /\ \A r \in Runs : told'[r] = "final" => r \in answers'
        /\ \A r \in Runs : Answered(r) => Answered(r)'
    BY <1>0, <2>1, RunFacts, CoreKeeps
  <2>. QED BY <2>2, <2>3, AnswersKept
<1>7. CASE \/ Second \/ UNCHANGED vars
           \/ \E w \in Workers : Tick(w) \/ TickFails(w) \/ Load(w)
  BY <1>1, <1>7 DEF Second, vars, local, Tick, TickFails, Load
<1>. QED BY <1>2, <1>3, <1>4, <1>5, <1>6, <1>7 DEF Next

-----------------------------------------------------------------------------
(***************************************************************************)
(* Rows and messages of a job at work.                                     *)
(***************************************************************************)
LEMMA WorkNext == TypeOK /\ ClaimInv /\ RowInv /\ WorkInv /\ [Next]_vars => WorkInv'
<1>. SUFFICES ASSUME TypeOK, ClaimInv, RowInv, WorkInv, [Next]_vars  PROVE WorkInv'
  OBVIOUS
<1>. USE DEF WorkInv, Held, Live
<1>1. CASE UNCHANGED <<job, row, posted>>
  BY <1>1
<1>2. ASSUME NEW t \in Tasks, Delete(t)  PROVE WorkInv'
  BY <1>2 DEF Delete, TypeOK
<1>3. ASSUME NEW w \in Workers, Claim(w) \/ Unload(w)  PROVE WorkInv'
  <2>1. UNCHANGED <<row, posted>>
    BY <1>3 DEF Claim, Unload
  <2>2. ASSUME NEW step \in {"queued", "dropped"}, NEW k \in Jobs, job[k].at = "none",
               job' = [job EXCEPT ![k].at = step]
        PROVE  WorkInv'
    <3>1. job'[k].at = step /\ \A i \in Jobs \ {k} : job'[i] = job[i]
      BY <2>2 DEF TypeOK, JobState
    <3>. QED BY <2>1, <2>2, <3>1
  <2>. QED BY <1>1, <1>3, <2>1, <2>2, LoopTakes, FreshClaim
<1>4. ASSUME NEW w \in Workers, Crash(w)  PROVE WorkInv'
  BY <1>4 DEF Crash, TypeOK, JobState
<1>5. ASSUME NEW j \in Jobs, JobStep(j)  PROVE WorkInv'
  <2>1. CASE Begin(j)
    BY <1>5, <2>1 DEF Begin, Goto, TypeOK, JobState
  <2>2. CASE Ask(j) \/ AskFails(j) \/ Hear(j) \/ HearNothing(j)
    <3>1. PICK step \in {"waiting", "posting", "failing"} : Goto(j, step)
      BY <2>2 DEF Ask, AskFails, Hear, HearNothing
    <3>2. job[j].at \in {"asking", "waiting"} /\ UNCHANGED <<row, posted>>
      BY <2>2 DEF Ask, AskFails, Hear, HearNothing
    <3>. QED BY <1>5, <3>1, <3>2 DEF Goto, TypeOK, JobState
  <2>3. CASE Post(j)
    BY <1>5, <2>3 DEF Post, Goto, TypeOK, JobState
  <2>4. CASE Store(j)
    BY <1>5, <2>4 DEF Store, Settle, SettleFails, Goto, TypeOK, JobState
  <2>5. CASE StoreFailure(j)
    BY <1>5, <2>5 DEF StoreFailure, SettleFailed, Settle, Goto, TypeOK, JobState
  <2>. QED BY <1>5, <2>1, <2>2, <2>3, <2>4, <2>5 DEF JobStep
<1>6. CASE \/ Second \/ CoreStep \/ UNCHANGED vars
           \/ \E t \in Tasks : Create(t) \/ Toggle(t)
           \/ \E w \in Workers : Tick(w) \/ TickFails(w) \/ Load(w)
  BY <1>1, <1>6 DEF Second, CoreStep, vars, local, Create, Toggle, Tick, TickFails,
                    Load
<1>. QED BY <1>2, <1>3, <1>4, <1>5, <1>6 DEF Next

-----------------------------------------------------------------------------
(***************************************************************************)
(* The theorems.                                                           *)
(***************************************************************************)
LEMMA InitInv == Init => SchedulerInv
BY DEF Init, Core!Init, SchedulerInv, ClaimInv, ClaimsAreApart, AnswerInv, OkIsTrue,
       RowInv, RunningIsInHand, WorkInv, Held, Live

\* The inductive invariant: claims are before the next time of their
\* task, a job that posts or stores has an answer of the Core, and a row is of a
\* job that has had its slot.
THEOREM SchedulerInvariant == Spec => []SchedulerInv
<1>1. TypeOK /\ TypeOK' /\ SchedulerInv /\ [Next]_vars => SchedulerInv'
  BY ClaimNext, RowNext, AnswerNext, WorkNext DEF SchedulerInv
<1>. QED BY <1>1, InitInv, SchedulerTypes, PTL DEF Spec

\* However many instances of the cog tick at once, claims of one task are
\* an interval apart.
THEOREM TasksKeepTheirPace == Spec => []ClaimsAreApart
<1>1. SchedulerInv => ClaimsAreApart
  BY DEF SchedulerInv, ClaimInv
<1>. QED BY <1>1, SchedulerInvariant, PTL

\* A row that says ok is of an answer the Core has stored and the channel
\* has seen.
THEOREM AuditIsTrue == Spec => []OkIsTrue
<1>1. SchedulerInv => OkIsTrue
  BY DEF SchedulerInv, AnswerInv
<1>. QED BY <1>1, SchedulerInvariant, PTL

\* A row is left running only by a crash, by the failure of the last update its
\* job tries, or by that of the trace before the job catches errors.
THEOREM RowsAreSettled == Spec => []RunningIsInHand
<1>1. SchedulerInv => RunningIsInHand
  BY DEF SchedulerInv, RowInv
<1>. QED BY <1>1, SchedulerInvariant, PTL

-----------------------------------------------------------------------------
(***************************************************************************)
(* The scheduler implements Timetable.                                     *)
(***************************************************************************)
ScheduleStep == [Schedule!Next]_(Schedule!vars)

\* A step that the owner does not see.
LEMMA QuietSchedule ==
  ASSUME \A t \in Tasks : Switch(t)' = Switch(t),
         Begun' = Begun,
         UNCHANGED <<row, told, posted>>,
         \A j \in Jobs : job'[j].started = job[j].started
  PROVE  ScheduleStep
BY DEF ScheduleStep, Schedule!vars

\* The steps of a job, and the end of its instance, begin no occurrence.
LEMMA BegunStays ==
  ASSUME TypeOK,
         \/ \E j \in Jobs : JobStep(j)
         \/ \E w \in Workers : Crash(w)
  PROVE  Begun' = Begun
<1>1. ASSUME NEW j \in Jobs, JobStep(j), NEW i \in Jobs
      PROVE  job'[i].at # "none" <=> job[i].at # "none"
  BY <1>1 DEF JobStep, Begin, Ask, AskFails, Hear, HearNothing, Post, Store,
              StoreFailure, Goto, SettleFails, TypeOK, JobState
<1>2. ASSUME NEW w \in Workers, Crash(w), NEW i \in Jobs
      PROVE  job'[i].at # "none" <=> job[i].at # "none"
  BY <1>2 DEF Crash, TypeOK, JobState, Live, Held
<1>. QED BY <1>1, <1>2 DEF Begun

LEMMA OwnerIsSeen ==
  ASSUME TypeOK, NEW t \in Tasks, Create(t) \/ Toggle(t) \/ Delete(t)
  PROVE  ScheduleStep
<1>1. UNCHANGED <<job, told, posted>>
  BY DEF Create, Toggle, Delete, local, core
<1>2. \A u \in Tasks \ {t} : Switch(u)' = Switch(u)
  BY DEF Create, Toggle, Delete, Switch, TypeOK, TaskState
<1>3. Begun' = Begun
  BY <1>1 DEF Begun
<1>4. CASE Create(t)
  <2>1. Switch(t) = "none" /\ Switch(t)' \in {"on", "off"} /\ UNCHANGED row
    BY <1>4 DEF Create, Switch, TypeOK, TaskState, local
  <2>2. Schedule!Switch(t)
    BY <1>1, <1>2, <1>3, <2>1 DEF Schedule!Switch, Schedule!Turn
  <2>. QED BY <2>2 DEF ScheduleStep, Schedule!Next
<1>5. CASE Toggle(t)
  <2>1. /\ <<Switch(t), Switch(t)'>> \in {<<"on", "off">>, <<"off", "on">>}
        /\ UNCHANGED row
    BY <1>5 DEF Toggle, Switch, TypeOK, TaskState, local
  <2>2. Schedule!Switch(t)
    BY <1>1, <1>2, <1>3, <2>1 DEF Schedule!Switch, Schedule!Turn
  <2>. QED BY <2>2 DEF ScheduleStep, Schedule!Next
<1>6. CASE Delete(t)
  <2>1. Switch(t) \in {"on", "off"} /\ Switch(t)' = "gone"
    BY <1>6 DEF Delete, Switch, TypeOK, TaskState
  <2>2. row' = [j \in Jobs |-> IF j[2] = t /\ row[j] # "none" THEN "deleted" ELSE row[j]]
    BY <1>6 DEF Delete
  <2>3. Schedule!Remove(t)
    BY <1>1, <1>2, <1>3, <2>1, <2>2
       DEF Schedule!Remove, Schedule!Turn, Schedule!Occurrences, Jobs
  <2>. QED BY <2>3 DEF ScheduleStep, Schedule!Next
<1>. QED BY <1>4, <1>5, <1>6

\* A claim is an occurrence, in its time.
LEMMA ClaimOccurs ==
  ASSUME TypeOK, SchedulerInv, NEW w \in Workers, Claim(w) \/ Unload(w)
  PROVE  ScheduleStep
<1>1. UNCHANGED <<row, told, posted>>
  BY DEF Claim, Unload, core
<1>2. CASE UNCHANGED <<task, job>>
  BY <1>1, <1>2, QuietSchedule DEF Switch, Begun
<1>3. ASSUME NEW step \in {"queued", "dropped"}, NEW t \in Tasks, NEW now \in Times,
             NEW k \in Jobs, k[2] = t, k[3] = now,
             Claimable(t, now),
             task' = [task EXCEPT ![t].next = now + Interval],
             job' = [job EXCEPT ![k].at = step]
      PROVE  ScheduleStep
  <2>1. Switch(t) = "on" /\ \A u \in Tasks : Switch(u)' = Switch(u)
    BY <1>3 DEF Switch, Claimable, TypeOK, TaskState
  <2>2. Begun' = Begun \cup {k}
    BY <1>3 DEF Begun, TypeOK, JobState
  <2>3. \A j \in Jobs : job'[j].started = job[j].started
    BY <1>3 DEF TypeOK, JobState
  <2>4. ASSUME NEW p \in Begun, p[2] = t  PROVE p[3] + Interval <= now
    <3>1. p \in Jobs /\ p[3] + Interval <= task[t].next
      BY <2>4 DEF Begun, SchedulerInv, ClaimInv
    <3>2. task[t].next <= now /\ task[t].next \in Nat
      BY <1>3 DEF Claimable, TypeOK, TaskState
    <3>3. p[3] \in Nat /\ now \in Nat /\ Interval \in Nat
      BY <3>1, JobFacts, SchedulerAssumption DEF Times
    <3>. QED BY <3>1, <3>2, <3>3
  <2>5. Schedule!Occur(k)
    BY <1>1, <1>3, <2>1, <2>2, <2>3, <2>4 DEF Schedule!Occur
  <2>. QED BY <2>5 DEF ScheduleStep, Schedule!Next, Schedule!Occurrences, Jobs
<1>. QED BY <1>2, <1>3, LoopTakes

\* What a job knows of its request, in the owner's terms.
LEMMA RequestIsRun ==
  ASSUME TypeOK, NEW j \in Jobs
  PROVE  Schedule!RequestOf(j) = Run(j)
BY DEF Schedule!RequestOf, Run

LEMMA JobAtWork ==
  ASSUME TypeOK, SchedulerInv, NEW j \in Jobs, job[j].at \in Held \ {"failing"}
  PROVE  j \in Begun /\ Schedule!AtWork(j)
BY DEF SchedulerInv, WorkInv, Begun, Held, Schedule!AtWork

\* The steps of a job that leave its row and its message alone.
LEMMA QuietJob ==
  ASSUME TypeOK, NEW j \in Jobs, JobStep(j), NEW step, Goto(j, step),
         UNCHANGED <<row, told, posted>>
  PROVE  ScheduleStep
<1>1. UNCHANGED task
  BY DEF JobStep, Begin, Ask, AskFails, Hear, HearNothing, Post, Store, StoreFailure
<1>2. \A i \in Jobs : job'[i].started = job[i].started
  BY DEF Goto, TypeOK, JobState
<1>. QED BY <1>1, <1>2, BegunStays, QuietSchedule DEF Switch

LEMMA BeginRegisters ==
  ASSUME TypeOK, SchedulerInv, NEW j \in Jobs, Begin(j)
  PROVE  ScheduleStep
<1>1. JobStep(j) /\ UNCHANGED <<told, posted, task>>
  BY DEF JobStep, Begin, core
<1>2. CASE UNCHANGED row /\ Goto(j, "dropped")
  BY <1>1, <1>2, QuietJob
<1>3. ASSUME NEW step \in {"asking", "stuck"},
             job' = [job EXCEPT ![j] = [at |-> step, started |-> clock]],
             row' = [row EXCEPT ![j] = "running"]
      PROVE  ScheduleStep
  <2>1. j \in Begun /\ row[j] = "none" /\ clock \in Times
    BY DEF Begin, Begun, SchedulerInv, RowInv, TypeOK
  <2>2. /\ [i \in Jobs |-> job'[i].started]
              = [[i \in Jobs |-> job[i].started] EXCEPT ![j] = clock]
        /\ Begun' = Begun
        /\ \A t \in Tasks : Switch(t)' = Switch(t)
    BY <1>1, <1>3, BegunStays DEF TypeOK, JobState, Switch
  <2>3. Schedule!Register(j, clock)
    BY <1>1, <1>3, <2>1, <2>2 DEF Schedule!Register
  <2>. DEFINE R(now) == Schedule!Register(j, now)
  <2>4. \E now \in Times : R(now)
    <3>1. R(clock)
      BY <2>3
    <3>. HIDE DEF R
    <3>. QED BY <2>1, <3>1
  <2>. QED BY <2>1, <2>4 DEF ScheduleStep, Schedule!Next
<1>. QED BY <1>2, <1>3 DEF Begin

LEMMA PostSends ==
  ASSUME TypeOK, SchedulerInv, NEW j \in Jobs, Post(j)
  PROVE  ScheduleStep
<1>1. JobStep(j) /\ UNCHANGED <<row, told, task>> /\ job[j].at = "posting"
  BY DEF JobStep, Post, core
<1>2. PICK step : Goto(j, step)
  BY DEF Post
<1>3. CASE UNCHANGED posted
  BY <1>1, <1>2, <1>3, QuietJob
<1>4. CASE posted' = posted \cup {j}
  <2>1. /\ \A i \in Jobs : job'[i].started = job[i].started
        /\ Begun' = Begun
        /\ \A t \in Tasks : Switch(t)' = Switch(t)
    BY <1>1, <1>2, BegunStays DEF Goto, TypeOK, JobState, Switch
  <2>2. j \in Begun /\ Schedule!AtWork(j) /\ j \notin posted
    BY <1>1, JobAtWork DEF SchedulerInv, WorkInv, Held, Live
  <2>3. Schedule!RequestOf(j) \in {r \in Runs : told[r] = "final"}
    BY <1>1, RequestIsRun, RunFacts DEF SchedulerInv, AnswerInv
  <2>4. Schedule!Send(j)
    BY <1>1, <1>4, <2>1, <2>2, <2>3 DEF Schedule!Send
  <2>. QED BY <2>2, <2>4 DEF ScheduleStep, Schedule!Next
<1>. QED BY <1>3, <1>4 DEF Post

LEMMA SettleIsSeen ==
  ASSUME TypeOK, SchedulerInv, NEW j \in Jobs, Store(j) \/ StoreFailure(j)
  PROVE  ScheduleStep
<1>1. /\ JobStep(j) /\ UNCHANGED <<told, posted, task>>
      /\ job[j].at \in {"storing", "failing"}
  BY DEF JobStep, Store, StoreFailure, core
<1>2. PICK step : Goto(j, step)
  BY DEF Store, StoreFailure, SettleFails
<1>3. CASE UNCHANGED row
  BY <1>1, <1>2, <1>3, QuietJob
<1>4. ASSUME NEW outcome \in {"ok", "failed"}, Settle(j, outcome),
             outcome = (IF job[j].at = "storing" THEN "ok" ELSE "failed")
      PROVE  ScheduleStep
  <2>1. CASE row[j] = "deleted"
    <3>1. UNCHANGED row
      BY <1>4, <2>1 DEF Settle, TypeOK
    <3>. QED BY <1>3, <3>1
  <2>2. CASE row[j] = "running" \/ (row[j] = "ok" /\ outcome = "failed")
    <3>1. row' = [row EXCEPT ![j] = outcome]
      BY <1>4, <2>2 DEF Settle, TypeOK
    <3>2. /\ \A i \in Jobs : job'[i].started = job[i].started
          /\ Begun' = Begun
          /\ \A t \in Tasks : Switch(t)' = Switch(t)
      BY <1>1, <1>2, BegunStays DEF Goto, TypeOK, JobState, Switch
    <3>3. outcome = "ok" => j \in posted
      BY <1>4 DEF SchedulerInv, AnswerInv
    <3>4. j \in Begun /\ Schedule!Settle(j, outcome)
      BY <1>1, <2>2, <3>1, <3>2, <3>3 DEF Schedule!Settle, Begun
    <3>. QED BY <3>4 DEF ScheduleStep, Schedule!Next
  <2>3. /\ job[j].at = "storing" => row[j] \in {"running", "deleted"}
        /\ job[j].at = "failing" => row[j] \in {"running", "ok", "deleted"}
    BY DEF SchedulerInv, WorkInv, Held
  <2>4. job[j].at = "failing" => outcome = "failed"
    BY <1>4
  <2>. QED BY <1>1, <2>1, <2>2, <2>3, <2>4
<1>5. CASE Store(j)
  BY <1>3, <1>4, <1>5 DEF Store, SettleFails
<1>6. CASE StoreFailure(j)
  BY <1>3, <1>4, <1>6 DEF StoreFailure, SettleFailed
<1>. QED BY <1>5, <1>6

LEMMA CoreStepAnswers ==
  ASSUME TypeOK, SchedulerInv, CoreStep
  PROVE  ScheduleStep
<1>1. UNCHANGED <<task, job, row, posted>>
  BY DEF CoreStep, local
<1>2. PICK j \in Jobs :
        /\ job[j].at = "waiting"
        /\ \/ Core!Start(Run(j)) \/ Core!Fail(Run(j)) \/ Core!Answer(Run(j))
           \/ \E event \in {"final", "error"} : Core!Tell(Run(j), event)
  BY DEF CoreStep
<1>. DEFINE r == Run(j)
<1>3. r \in Runs
  BY RunFacts
<1>4. CASE Core!Start(r) \/ Core!Fail(r) \/ Core!Answer(r)
  <2>1. UNCHANGED told
    BY <1>4 DEF Core!Start, Core!Fail, Core!Answer, Core!Move
  <2>. QED BY <1>1, <2>1, QuietSchedule DEF Switch, Begun
<1>5. ASSUME NEW event \in {"final", "error"}, Core!Tell(r, event)
      PROVE  ScheduleStep
  <2>1. told[r] = "open" /\ told' = [told EXCEPT ![r] = event]
    BY <1>5 DEF Core!Tell
  <2>. DEFINE Answered1 == {q \in Runs : told[q] = "final"}
  <2>2. Answered1' = IF event = "final" THEN Answered1 \cup {r} ELSE Answered1
    BY <1>3, <2>1 DEF TypeOK
  <2>3. /\ Begun' = Begun
        /\ \A t \in Tasks : Switch(t)' = Switch(t)
    BY <1>1 DEF Begun, Switch
  <2>4. CASE event = "final"
    <3>1. j \in Begun /\ Schedule!AtWork(j) /\ Schedule!RequestOf(j) = r
      BY <1>2, JobAtWork, RequestIsRun DEF Held
    <3>2. Schedule!Answer(j)
      BY <1>1, <2>2, <2>3, <2>4, <3>1 DEF Schedule!Answer
    <3>. QED BY <3>1, <3>2 DEF ScheduleStep, Schedule!Next
  <2>5. CASE event = "error"
    BY <1>1, <2>2, <2>3, <2>5 DEF ScheduleStep, Schedule!vars
  <2>. QED BY <2>4, <2>5
<1>. QED BY <1>2, <1>4, <1>5

LEMMA StepIsScheduled ==
  ASSUME TypeOK, SchedulerInv, [Next]_vars
  PROVE  ScheduleStep
<1>1. ASSUME NEW j \in Jobs, JobStep(j)  PROVE ScheduleStep
  <2>1. CASE Ask(j) \/ AskFails(j) \/ Hear(j) \/ HearNothing(j)
    <3>1. \E step : Goto(j, step)
      BY <2>1 DEF Ask, AskFails, Hear, HearNothing
    <3>2. UNCHANGED <<row, told, posted>>
      BY <2>1 DEF Ask, AskFails, Hear, HearNothing, core, Core!Accept, Core!Move
    <3>. QED BY <1>1, <3>1, <3>2, QuietJob
  <2>. QED BY <1>1, <2>1, BeginRegisters, PostSends, SettleIsSeen DEF JobStep
<1>2. ASSUME NEW w \in Workers, Crash(w)  PROVE ScheduleStep
  <2>1. /\ UNCHANGED <<task, row, told, posted>>
        /\ \A i \in Jobs : job'[i].started = job[i].started
    BY <1>2 DEF Crash, core, TypeOK, JobState
  <2>. QED BY <1>2, <2>1, BegunStays, QuietSchedule DEF Switch
<1>3. CASE \/ Second \/ UNCHANGED vars
           \/ \E w \in Workers : Tick(w) \/ TickFails(w) \/ Load(w)
  <2>1. UNCHANGED <<task, job, row, told, posted>>
    BY <1>3 DEF Second, vars, local, core, Tick, TickFails, Load
  <2>. QED BY <2>1, QuietSchedule DEF Switch, Begun
<1>. QED BY <1>1, <1>2, <1>3, OwnerIsSeen, ClaimOccurs, CoreStepAnswers DEF Next

\* The owner of a task need not know of instances, slots and lost responses: a
\* task occurs once per interval and only while it is switched on, each occurrence
\* sends one message at most, a final answer to its own request, and its row says
\* ok only after that, though it may end as failed all the same.  This holds for any
\* number of instances, tasks and slots, with any crash and failing statement, over
\* whatever the Core does within RunContract.
THEOREM SchedulerKeepsTimetable == Spec => KeepsTimetable
<1>1. Init => Schedule!Init
  BY DEF Init, Core!Init, Schedule!Init, Switch, Begun, Schedule!Occurrences, Jobs, Runs
<1>2. TypeOK /\ SchedulerInv /\ [Next]_vars => ScheduleStep
  BY StepIsScheduled
<1>. QED BY <1>1, <1>2, SchedulerTypes, SchedulerInvariant, PTL
         DEF Spec, KeepsTimetable, Schedule!Spec, ScheduleStep
=============================================================================
