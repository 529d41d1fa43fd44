--------------------------- MODULE MCSchedulerDue ---------------------------
(***************************************************************************)
(* Model checking the order in which Scheduler claims its tasks, with many *)
(* of them due at once.  The jobs stay where they were made: none of their *)
(* steps touches the clock, the tasks or a loop, so they only multiply the *)
(* states.  The owner changes some of the tasks only.  A history variable  *)
(* remembers which were switched off since they were made or claimed last. *)
(***************************************************************************)
EXTENDS Scheduler

CONSTANTS
  w1, t1, t2, t3,
  Changing \* bound: tasks the owner switches off and on or deletes

VARIABLE switchedOff

DueInit == Init /\ switchedOff = {}

DueNext ==
  /\ \/ \E t \in Tasks : Create(t)
     \/ \E t \in Changing : Toggle(t) \/ Delete(t)
     \/ Second
     \/ \E w \in Workers :
          Tick(w) \/ Claim(w) \/ TickFails(w) \/ Unload(w) \/ Crash(w) \/ Load(w)
  /\ switchedOff' =
       {t \in switchedOff : task'[t].next = task[t].next}
         \cup {t \in Tasks : task'[t].state = "here" /\ ~task'[t].enabled}

DueSpec == DueInit /\ [][DueNext]_<<vars, switchedOff>> /\ Fairness

\* However few tasks a tick takes, however many are due, and wherever a tick
\* breaks off: while a task waits to be claimed by the only instance, no other
\* task is claimed twice, for get_due_scheduled_tasks takes the oldest ones.
NobodyIsOvertakenTwice ==
  \A t \in Due(clock) \ switchedOff, i, j \in Jobs :
    /\ i[2] = j[2] /\ i[2] # t /\ i[3] < j[3]
    /\ job[i].at # "none" /\ job[j].at # "none"
    => i[3] < task[t].next
=============================================================================
