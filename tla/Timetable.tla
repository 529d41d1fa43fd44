----------------------------- MODULE Timetable ------------------------------
(***************************************************************************)
(* What the owner of a scheduled task may rely on (storage.py: "Atomically *)
(* move next_run_at forward so multiple workers don't run the same task    *)
(* concurrently", and the rows of scheduled_task_runs): a task occurs only *)
(* while it is switched on, once per interval; an occurrence sends one     *)
(* message at most, which is a final answer to its request; its row is     *)
(* there before, says ok only after that, and may say failed of a message  *)
(* that was sent, not the reverse.  Instances, stale lists of due tasks,   *)
(* slots, lost responses and crashes do not show.  Scheduler implements    *)
(* this module.                                                            *)
(***************************************************************************)
EXTENDS Naturals

CONSTANTS
  Workers,   \* who may execute a task
  Tasks,
  Times,     \* seconds
  Interval   \* seconds between two occurrences of a task, at least

\* Who executes which task, claimed at what time.
Occurrences == Workers \X Tasks \X Times

VARIABLES
  switch,    \* "on", "off", or "none" before and "gone" after the task is there
  begun,     \* the occurrences so far
  record,    \* the row of an occurrence
  started,   \* the second the row was stored in
  answered,  \* the requests with a final answer: a task, and that second
  sent       \* the occurrences whose answer was sent to the channel

vars == <<switch, begun, record, started, answered, sent>>

Init ==
  /\ switch = [t \in Tasks |-> "none"]
  /\ begun = {}
  /\ record = [o \in Occurrences |-> "none"]
  /\ started = [o \in Occurrences |-> 0]
  /\ answered = {}
  /\ sent = {}

Turn(t, from, to) ==
  /\ switch[t] \in from
  /\ switch' = [switch EXCEPT ![t] = to]
  /\ UNCHANGED <<begun, started, answered, sent>>

\* The owner creates a task, or switches it on or off.
Switch(t) ==
  /\ \/ \E to \in {"on", "off"} : Turn(t, {"none"}, to)
     \/ Turn(t, {"on"}, "off")
     \/ Turn(t, {"off"}, "on")
  /\ UNCHANGED record

\* The rows of a task go with it.
Remove(t) ==
  /\ Turn(t, {"on", "off"}, "gone")
  /\ record' = [o \in Occurrences |->
                  IF o[2] = t /\ record[o] # "none" THEN "deleted" ELSE record[o]]

Occur(o) ==
  /\ switch[o[2]] = "on"
  /\ \A p \in begun : p[2] = o[2] => p[3] + Interval <= o[3]
  /\ begun' = begun \cup {o}
  /\ UNCHANGED <<switch, record, started, answered, sent>>

\* A row is also stored of a task that was removed meanwhile.
Register(o, now) ==
  /\ record[o] = "none"
  /\ record' = [record EXCEPT ![o] = "running"]
  /\ started' = [started EXCEPT ![o] = now]
  /\ UNCHANGED <<switch, begun, answered, sent>>

AtWork(o) == record[o] \in {"running", "deleted"}

RequestOf(o) == <<o[2], started[o]>>

\* The request of an occurrence gets its final answer.
Answer(o) ==
  /\ AtWork(o)
  /\ answered' = answered \cup {RequestOf(o)}
  /\ UNCHANGED <<switch, begun, record, started, sent>>

Send(o) ==
  /\ AtWork(o)
  /\ o \notin sent
  /\ RequestOf(o) \in answered
  /\ sent' = sent \cup {o}
  /\ UNCHANGED <<switch, begun, record, started, answered>>

\* What follows the "ok" of a row may still fail.
Settle(o, outcome) ==
  /\ \/ record[o] = "running"
     \/ record[o] = "ok" /\ outcome = "failed"
  /\ outcome = "ok" => o \in sent
  /\ record' = [record EXCEPT ![o] = outcome]
  /\ UNCHANGED <<switch, begun, started, answered, sent>>

Next ==
  \/ \E t \in Tasks : Switch(t) \/ Remove(t)
  \/ \E o \in Occurrences : Occur(o)
  \/ \E o \in begun :
       \/ Answer(o) \/ Send(o)
       \/ \E now \in Times : Register(o, now)
       \/ \E outcome \in {"ok", "failed"} : Settle(o, outcome)

Spec == Init /\ [][Next]_vars
=============================================================================
