------------------------------ MODULE CoreRun -------------------------------
(***************************************************************************)
(* The life of a run in the Core API: POST /v1/messages with its           *)
(* idempotency key (api/routes/messages.py), the linking of two accounts,  *)
(* which moves identities and runs from one user to another                *)
(* (api/routes/auth.py), and the background task that works on the run     *)
(* (MainProcess.run, brain/process.py).                                    *)
(*                                                                         *)
(* All of it runs on one asyncio loop over one SQLite database.  A handler *)
(* is interrupted at its awaits only; a statement that writes starts a     *)
(* transaction that keeps other writers out until it is committed, and     *)
(* what was read before may be stale by then.  The process may crash: the  *)
(* rows stay, the tasks do not.                                            *)
(*                                                                         *)
(* Of the event bus only the terminal event is kept: the bus drops what is *)
(* published after it (module EventManager).                               *)
(***************************************************************************)
EXTENDS Naturals

CONSTANTS
  Runs,       \* run ids, one for every run that is created
  Users,      \* rows of the users table
  Ids,        \* identities (provider, provider_id)
  Keys,       \* idempotency keys
  Posts,      \* POST /v1/messages requests
  Links,      \* POST /auth/link requests
  Codes,      \* link codes
  NoRun, NoUser, NoId, NoKey, NoCode,
  MaxTurns,   \* max_turns of the route
  MaxFaults   \* bound: failures of the database and of the trace file

ASSUME CoreAssumption ==
  /\ NoRun \notin Runs
  /\ NoUser \notin Users
  /\ NoId \notin Ids
  /\ NoKey \notin Keys
  /\ NoCode \notin Codes
  /\ MaxTurns \in Nat \ {0}
  /\ MaxFaults \in Nat

VARIABLES
  identity,  \* user_identities.user_id
  codes,     \* identity_link_requests.user_id of the codes that are valid
  status,    \* runs.status, "none" while there is no row
  owner,     \* runs.user_id
  keyOf,     \* runs.idempotency_key
  answers    \* runs whose answer is in the messages table

rows == <<status, owner, keyOf>>

VARIABLES
  post,      \* where a request stands, and what it has read
  link,      \* the same of a request to link accounts
  pc,        \* where the task of a run stands
  turn,      \* turns of its generation pass
  timer,     \* asyncio.wait_for runs around its pass
  band,      \* its route band
  told,      \* the terminal event published for a run (history)
  unconfirmed,  \* runs whose answer was inserted by a call that raised (history)
  raced,     \* identities that moved under a request of theirs (history)
  faults,    \* failures so far
  down       \* the process has crashed

task == <<turn, timer, band>>
vars == <<identity, codes, rows, answers, post, link, pc, task, told,
          unconfirmed, raced, faults, down>>

PostSteps == {"idle", "resolved", "checked", "answered", "refused", "lost"}
LinkSteps == {"idle", "verified", "merged", "done", "refused", "lost"}
Ended     == {"none", "done", "dead", "crashed"}
Labels    == Ended \cup
  {"scheduled", "routing", "generating", "tool", "waiting", "critique",
   "delivering", "remembering", "finishing", "completing", "reporting",
   "timedOut", "tellTimeout", "expired", "tellExpired", "fault", "tellFault"}

PostState == [step : PostSteps, id : Ids \cup {NoId}, key : Keys \cup {NoKey},
              user : Users \cup {NoUser}, run : Runs \cup {NoRun}]
LinkState == [step : LinkSteps, from : Users \cup {NoUser},
              to : Users \cup {NoUser}, code : Codes \cup {NoCode}]

TypeOK ==
  /\ identity \in [Ids -> Users]
  /\ codes \in [Codes -> Users \cup {NoUser}]
  /\ status \in [Runs -> {"none", "queued", "in_progress", "completed", "failed"}]
  /\ owner \in [Runs -> Users \cup {NoUser}]
  /\ keyOf \in [Runs -> Keys \cup {NoKey}]
  /\ answers \in SUBSET Runs
  /\ post \in [Posts -> PostState]
  /\ link \in [Links -> LinkState]
  /\ pc \in [Runs -> Labels]
  /\ turn \in [Runs -> 1 .. MaxTurns]
  /\ timer \in [Runs -> BOOLEAN]
  /\ band \in [Runs -> {"task", "agent"}]
  /\ told \in [Runs -> {"open", "final", "error"}]
  /\ unconfirmed \in SUBSET Runs
  /\ raced \in SUBSET Ids
  /\ faults \in 0 .. MaxFaults
  /\ down \in BOOLEAN

Init ==
  /\ identity \in [Ids -> Users]
  /\ codes = [c \in Codes |-> NoUser]
  /\ status = [r \in Runs |-> "none"]
  /\ owner = [r \in Runs |-> NoUser]
  /\ keyOf = [r \in Runs |-> NoKey]
  /\ answers = {}
  /\ post = [p \in Posts |->
       [step |-> "idle", id |-> NoId, key |-> NoKey, user |-> NoUser, run |-> NoRun]]
  /\ link = [l \in Links |->
       [step |-> "idle", from |-> NoUser, to |-> NoUser, code |-> NoCode]]
  /\ pc = [r \in Runs |-> "none"]
  /\ turn = [r \in Runs |-> 1]
  /\ timer = [r \in Runs |-> FALSE]
  /\ band = [r \in Runs |-> "task"]
  /\ told = [r \in Runs |-> "open"]
  /\ unconfirmed = {}
  /\ raced = {}
  /\ faults = 0
  /\ down = FALSE

-----------------------------------------------------------------------------
(***************************************************************************)
(* POST /v1/messages.                                                      *)
(***************************************************************************)
postsOnly == <<identity, codes, rows, answers, link, pc, task, told,
               unconfirmed, raced, faults, down>>

\* get_or_create_user: whose is the identity?
Resolve(p, i, k) ==
  /\ post[p].step = "idle"
  /\ post' = [post EXCEPT ![p].step = "resolved", ![p].id = i, ![p].key = k,
                          ![p].user = identity[i]]
  /\ UNCHANGED postsOnly

\* The rows the unique index of (user_id, idempotency_key) allows one of.
Matches(u, k) == {r \in Runs : status[r] # "none" /\ owner[r] = u /\ keyOf[r] = k}

\* Mutants of the definition below are operators named after the mistake; no
\* action uses them.
AnyonesRun(u, k) == {r \in Runs : status[r] # "none" /\ keyOf[r] = k}

\* get_run_by_idempotency.
Known(u, k) == Matches(u, k)

Answer(p, r) ==
  post' = [post EXCEPT ![p].step = "answered", ![p].user = NoUser, ![p].run = r]

\* A run that is there is the answer; otherwise the conversation is resolved.
Check(p) ==
  /\ post[p].step = "resolved"
  /\ \/ \E r \in Known(post[p].user, post[p].key) : Answer(p, r)
     \/ /\ Known(post[p].user, post[p].key) = {}
        /\ post' = [post EXCEPT ![p].step = "checked"]
  /\ UNCHANGED postsOnly

OneMoreFault == faults < MaxFaults /\ faults' = faults + 1

\* The row of a new run, and where its task is then.
Insert(p, r, label) ==
  /\ status[r] = "none"
  /\ status' = [status EXCEPT ![r] = "queued"]
  /\ owner' = [owner EXCEPT ![r] = post[p].user]
  /\ keyOf' = [keyOf EXCEPT ![r] = post[p].key]
  /\ pc' = [pc EXCEPT ![r] = label]

\* Status 500.
Refuse(p) == post' = [post EXCEPT ![p].step = "refused", ![p].user = NoUser]

\* create_user_message_and_run: one transaction.  The request is answered and
\* the task scheduled; a second row under the key is refused by the index.  A
\* failure refuses the request before the row is there, or after it, when what
\* was committed cannot be read back: then no task works on the run.
Create(p) ==
  /\ post[p].step = "checked"
  /\ \/ /\ Matches(post[p].user, post[p].key) = {}
        /\ \E r \in Runs : Insert(p, r, "scheduled") /\ Answer(p, r)
        /\ UNCHANGED faults
     \/ /\ Matches(post[p].user, post[p].key) = {}
        /\ OneMoreFault
        /\ Refuse(p)
        /\ \/ UNCHANGED <<rows, pc>>
           \/ \E r \in Runs : Insert(p, r, "dead")
     \/ /\ Matches(post[p].user, post[p].key) # {}
        /\ Refuse(p)
        /\ UNCHANGED <<rows, pc, faults>>
  /\ UNCHANGED <<identity, codes, answers, link, task, told, unconfirmed, raced, down>>

-----------------------------------------------------------------------------
(***************************************************************************)
(* Linking accounts.  A code is issued for the user an identity belongs to *)
(* and used by another user, whose identities and runs then move to it.    *)
(***************************************************************************)
linksOnly == <<answers, post, pc, task, told, unconfirmed, faults, down>>

IssueCode(c, i) ==
  /\ codes[c] = NoUser
  /\ codes' = [codes EXCEPT ![c] = identity[i]]
  /\ UNCHANGED <<identity, rows, link, raced, linksOnly>>

ExpireCode(c) ==
  /\ codes[c] # NoUser
  /\ codes' = [codes EXCEPT ![c] = NoUser]
  /\ UNCHANGED <<identity, rows, link, raced, linksOnly>>

\* link_account up to get_link_request, for a user that is not locked out and
\* a code that is found.
Verify(l, u, c) ==
  /\ link[l].step = "idle"
  /\ codes[c] # NoUser
  /\ link' = [link EXCEPT ![l] =
                [step |-> "verified", from |-> u, to |-> codes[c], code |-> c]]
  /\ UNCHANGED <<identity, codes, rows, raced, linksOnly>>

RunsStay(u, v) == UNCHANGED owner

MoveRuns(u, v) ==
  owner' = [r \in Runs |-> IF owner[r] = u THEN v ELSE owner[r]]

\* Two runs under one key cannot both be v's.
Clash(u, v) == \E k \in Keys : Matches(u, k) # {} /\ Matches(v, k) # {}

Moving(i) == \E p \in Posts : post[p].id = i /\ post[p].step \in {"resolved", "checked"}

\* link_identities: the updates are one transaction, which the unique index of
\* the runs may undo.  A user linked to itself is left alone.
Merge(l) ==
  LET u == link[l].from
      v == link[l].to
  IN
  /\ link[l].step = "verified"
  /\ \/ /\ u = v
        /\ link' = [link EXCEPT ![l].step = "merged"]
        /\ UNCHANGED <<identity, owner, raced>>
     \/ /\ u # v /\ ~Clash(u, v)
        /\ link' = [link EXCEPT ![l].step = "merged"]
        /\ identity' = [i \in Ids |-> IF identity[i] = u THEN v ELSE identity[i]]
        /\ MoveRuns(u, v)
        /\ raced' = raced \cup {i \in Ids : identity[i] = u /\ Moving(i)}
     \/ /\ u # v /\ Clash(u, v)
        /\ link' = [link EXCEPT ![l].step = "refused"]
        /\ UNCHANGED <<identity, owner, raced>>
  /\ UNCHANGED <<codes, status, keyOf, linksOnly>>

\* The failures are reset and the code is deleted, in a transaction of their own.
Forget(l) ==
  /\ link[l].step = "merged"
  /\ link' = [link EXCEPT ![l].step = "done"]
  /\ codes' = [codes EXCEPT ![link[l].code] = NoUser]
  /\ UNCHANGED <<identity, rows, raced, linksOnly>>

-----------------------------------------------------------------------------
(***************************************************************************)
(* MainProcess.run.  A step is the code between two awaits.                *)
(***************************************************************************)
others == <<identity, codes, owner, keyOf, post, link, raced, down>>
stored == <<status, answers, unconfirmed>>

Goto(r, from, to) == pc[r] = from /\ pc' = [pc EXCEPT ![r] = to]

SetStatus(r, s) == status' = [status EXCEPT ![r] = s]

\* event_manager.emit of a terminal event: there is one.
Emit(r, event) == told' = [told EXCEPT ![r] = IF @ = "open" THEN event ELSE @]

Start(r) ==
  /\ Goto(r, "scheduled", "routing")
  /\ SetStatus(r, "in_progress")
  /\ UNCHANGED <<others, answers, unconfirmed, task, told, faults>>

\* User, context and route; the "meta" event.
Route(r) ==
  /\ Goto(r, "routing", "generating")
  /\ \E b \in {"task", "agent"} :
       /\ band' = [band EXCEPT ![r] = b]
       /\ timer' = [timer EXCEPT ![r] = b = "agent"]
  /\ UNCHANGED <<others, stored, turn, told, faults>>

AfterPass(r) == IF band[r] = "agent" THEN "critique" ELSE "delivering"

\* The pass returns its text: the model has answered or a budget is used up.
EndPass(r) ==
  /\ pc' = [pc EXCEPT ![r] = AfterPass(r)]
  /\ turn' = [turn EXCEPT ![r] = 1]
  /\ timer' = [timer EXCEPT ![r] = FALSE]

\* The next turn of the pass, if there is one.
NextTurn(r) ==
  \/ /\ turn[r] < MaxTurns
     /\ pc' = [pc EXCEPT ![r] = "generating"]
     /\ turn' = [turn EXCEPT ![r] = @ + 1]
     /\ UNCHANGED timer
  \/ turn[r] = MaxTurns /\ EndPass(r)

InPass(r) == UNCHANGED <<others, stored, band, told, faults>>

\* The model answers with text, or asks for a tool, or for one too many.
Generate(r) ==
  /\ pc[r] = "generating"
  /\ \/ EndPass(r)
     \/ NextTurn(r)
     \/ Goto(r, "generating", "tool") /\ UNCHANGED <<turn, timer>>
     \/ Goto(r, "generating", "timedOut") /\ UNCHANGED <<turn, timer>>
  /\ InPass(r)

\* run_tool returns; a result with a client action has been dispatched, and the
\* task waits for what the client makes of it.
RunTool(r) ==
  /\ pc[r] = "tool"
  /\ \/ NextTurn(r)
     \/ Goto(r, "tool", "waiting") /\ UNCHANGED <<turn, timer>>
  /\ InPass(r)

\* wait_for_tool_result ends: a result, its timeout, or a cancellation.
Resume(r) ==
  /\ pc[r] = "waiting"
  /\ NextTurn(r)
  /\ InPass(r)

\* wait_for around the pass of the agent band cancels it.  The handler of the
\* wait for a tool result swallows the cancellation: the pass goes on, without
\* its timer.
PassTimeout(r) ==
  /\ timer[r]
  /\ \/ /\ pc[r] \in {"generating", "tool", "timedOut", "tellTimeout"}
        /\ pc' = [pc EXCEPT ![r] = "expired"]
        /\ turn' = [turn EXCEPT ![r] = 1]
        /\ timer' = [timer EXCEPT ![r] = FALSE]
     \/ /\ pc[r] = "waiting"
        /\ timer' = [timer EXCEPT ![r] = FALSE]
        /\ \/ /\ turn[r] < MaxTurns
              /\ pc' = [pc EXCEPT ![r] = "generating"]
              /\ turn' = [turn EXCEPT ![r] = @ + 1]
           \/ turn[r] = MaxTurns /\ EndPass(r)
  /\ InPass(r)

Critique(r) ==
  /\ \E to \in {"delivering", "expired"} : Goto(r, "critique", to)
  /\ UNCHANGED <<turn, timer>>
  /\ InPass(r)

\* Anything raises an exception.
Raise(r) ==
  /\ pc[r] \in {"routing", "generating", "tool", "critique"}
  /\ pc' = [pc EXCEPT ![r] = "fault"]
  /\ turn' = [turn EXCEPT ![r] = 1]
  /\ timer' = [timer EXCEPT ![r] = FALSE]
  /\ InPass(r)

-----------------------------------------------------------------------------
(***************************************************************************)
(* The end of a run that went well.                                        *)
(***************************************************************************)
Deliver(r) ==
  /\ Goto(r, "delivering", "remembering")
  /\ answers' = answers \cup {r}
  /\ UNCHANGED <<others, status, unconfirmed, task, told, faults>>

\* create_assistant_message commits the answer and then fails to read it back.
DeliverUnconfirmed(r) ==
  /\ OneMoreFault
  /\ Goto(r, "delivering", "fault")
  /\ answers' = answers \cup {r}
  /\ unconfirmed' = unconfirmed \cup {r}
  /\ UNCHANGED <<others, status, task, told>>

RememberOrFail(r) ==
  /\ \E to \in {"finishing", "fault"} : Goto(r, "remembering", to)
  /\ UNCHANGED <<others, stored, task, told, faults>>

\* _update_memory_on_completion, whose failure is not one of the run.  The
\* profile file it reads and writes is not part of the model.
Remember(r) ==
  /\ Goto(r, "remembering", "finishing")
  /\ UNCHANGED <<others, stored, task, told, faults>>

FinishEarly(r) ==
  /\ Goto(r, "finishing", "completing")
  /\ SetStatus(r, "completed")
  /\ Emit(r, "final")
  /\ UNCHANGED <<others, answers, unconfirmed, task, faults>>

\* The answer is told before the status is stored.
Finish(r) ==
  /\ Goto(r, "finishing", "completing")
  /\ Emit(r, "final")
  /\ UNCHANGED <<others, stored, task, faults>>

Complete(r) ==
  /\ Goto(r, "completing", "reporting")
  /\ SetStatus(r, "completed")
  /\ UNCHANGED <<others, answers, unconfirmed, task, told, faults>>

\* The metrics of the run are written to the trace file, the last statement that
\* the handler of exceptions is responsible for.
Report(r) ==
  /\ Goto(r, "reporting", "done")
  /\ UNCHANGED <<others, stored, task, told, faults>>

TraceFails(r) ==
  /\ OneMoreFault
  /\ Goto(r, "reporting", "fault")
  /\ UNCHANGED <<others, stored, task, told>>

-----------------------------------------------------------------------------
(***************************************************************************)
(* The end of a run that did not.                                          *)
(***************************************************************************)

ExpiredUntold == [timedOut |-> "tellTimeout", expired |-> "done", fault |-> "tellFault"]

\* Where the status is set to failed before the error is told, and where that
\* leads.
Telling == [timedOut |-> "tellTimeout", expired |-> "tellExpired", fault |-> "tellFault"]

\* The pass that timed out by itself returns nothing; its caller unpacks three
\* values, and the TypeError is one more exception.  What the handler of
\* exceptions writes to the trace comes last: if it fails, nothing else does.
AfterTelling ==
  [tellTimeout |-> "fault", tellExpired |-> "reporting", tellFault |-> "done"]

StoreFailure(r) ==
  /\ pc[r] \in DOMAIN Telling
  /\ pc' = [pc EXCEPT ![r] = Telling[@]]
  /\ SetStatus(r, "failed")
  /\ UNCHANGED <<others, answers, unconfirmed, task, told, faults>>

TellFailure(r) ==
  /\ pc[r] \in DOMAIN AfterTelling
  /\ pc' = [pc EXCEPT ![r] = AfterTelling[@]]
  /\ turn' = [turn EXCEPT ![r] = 1]
  /\ timer' = [timer EXCEPT ![r] = FALSE]
  /\ Emit(r, "error")
  /\ UNCHANGED <<others, stored, band, faults>>

-----------------------------------------------------------------------------
(***************************************************************************)
(* Other faults.                                                           *)
(***************************************************************************)

\* Setting the status fails: an exception.  The handler of exceptions has no
\* handler of its own, and after the insert of the answer has failed the session
\* refuses the statement of that handler: the task is dead.
StatementFails(r) ==
  /\ OneMoreFault
  /\ \/ /\ pc[r] \in {"scheduled", "timedOut", "expired", "completing"}
        /\ pc' = [pc EXCEPT ![r] = "fault"]
     \/ /\ pc[r] \in {"delivering", "fault"}
        /\ pc' = [pc EXCEPT ![r] = "dead"]
  /\ turn' = [turn EXCEPT ![r] = 1]
  /\ timer' = [timer EXCEPT ![r] = FALSE]
  /\ UNCHANGED <<others, stored, band, told>>

\* The process ends and is started again: no task, no request survives.
Crash ==
  /\ ~down
  /\ down' = TRUE
  /\ pc' = [r \in Runs |-> IF pc[r] \in Ended THEN pc[r] ELSE "crashed"]
  /\ turn' = [r \in Runs |-> 1]
  /\ timer' = [r \in Runs |-> FALSE]
  /\ post' = [p \in Posts |-> IF post[p].step \in {"resolved", "checked"}
                              THEN [post[p] EXCEPT !.step = "lost", !.user = NoUser]
                              ELSE post[p]]
  /\ link' = [l \in Links |-> IF link[l].step \in {"verified", "merged"}
                              THEN [link[l] EXCEPT !.step = "lost"] ELSE link[l]]
  /\ UNCHANGED <<identity, codes, rows, answers, band, told, unconfirmed, raced, faults>>

-----------------------------------------------------------------------------
\* What the task of r does.
Work(r) ==
  \/ Start(r) \/ Route(r) \/ Generate(r) \/ RunTool(r) \/ Resume(r)
  \/ PassTimeout(r) \/ Critique(r) \/ Raise(r) \/ Deliver(r) \/ Remember(r)
  \/ Finish(r) \/ Complete(r) \/ Report(r) \/ StoreFailure(r) \/ TellFailure(r)

Faults(r) == DeliverUnconfirmed(r) \/ TraceFails(r) \/ StatementFails(r)

Next ==
  \/ \E p \in Posts, i \in Ids, k \in Keys : Resolve(p, i, k)
  \/ \E p \in Posts : Check(p) \/ Create(p)
  \/ \E c \in Codes, i \in Ids : IssueCode(c, i)
  \/ \E c \in Codes : ExpireCode(c)
  \/ \E l \in Links, u \in Users, c \in Codes : Verify(l, u, c)
  \/ \E l \in Links : Merge(l) \/ Forget(l)
  \/ \E r \in Runs : Work(r) \/ Faults(r)
  \/ Crash

Spec == Init /\ [][Next]_vars

-----------------------------------------------------------------------------
(***************************************************************************)
(* What a run promises.                                                    *)
(***************************************************************************)

\* The run as its clients and the database see it.
Contract == INSTANCE RunContract

\* The terminal rule of docs/contracts/sse-run-events.md with the order in which
\* MainProcess.run stores and tells: one terminal event, never taken back; an
\* error only after the failure is stored, and only if the insert of an answer
\* has not returned; "final" only after it has; stored as completed only after
\* "final"; nothing after failed, and after completed at most failed.
KeepsContract == Contract!Spec

\* "A replay of an idempotency key ... returns the same run_id" (docs/contracts/
\* external-agent-api.md:193): two answers to one identity under one key name
\* one run, also when the identity is moved to another user in between, unless
\* it moves while a request of its own is being handled.
OneRunPerKey ==
  \A p, q \in Posts :
    /\ post[p].step = "answered" /\ post[q].step = "answered"
    /\ post[p].id = post[q].id /\ post[p].key = post[q].key
    /\ post[p].id \notin raced
    => post[p].run = post[q].run

\* What a request was answered with belongs to the user its identity belongs to,
\* however accounts were linked since: the client can go on with the run.
RunsFollowIdentity ==
  \A p \in Posts :
    /\ post[p].step = "answered"
    /\ post[p].id \notin raced
    => owner[post[p].run] = identity[post[p].id]

\* An answer whose insert returned is not reported as an error: the memory
\* update, the terminal event, the status and the trace that come after it may
\* fail, but then the client has its "final".  The status alone may say "failed".
AnswerIsNotAnError ==
  \A r \in answers \ unconfirmed :
    /\ told[r] # "error"
    /\ status[r] = "failed" => told[r] = "final"

\* A task that came to its end has told how, and row and conversation agree.
\* Where something failed, the row of an answer that was told may say "failed"
\* (its completion could not be stored, or not be written to the trace), and an
\* error may have been told of an answer whose insert raised.
EndsAgree ==
  \A r \in Runs : pc[r] = "done" =>
    \/ told[r] = "final" /\ r \in answers /\ status[r] = "completed"
    \/ told[r] = "final" /\ r \in answers /\ status[r] = "failed" /\ faults > 0
    \/ told[r] = "error" /\ r \notin answers /\ status[r] = "failed"
    \/ told[r] = "error" /\ r \in unconfirmed /\ status[r] = "failed" /\ faults > 0

-----------------------------------------------------------------------------
(***************************************************************************)
(* The inductive invariant behind these properties.                        *)
(***************************************************************************)

\* A run that has been created has a row, a user and a key, and no other run of
\* the user has the key.
RowsAreUnique ==
  /\ \A r \in Runs : status[r] = "none" <=> pc[r] = "none"
  /\ \A r \in Runs : status[r] # "none" => owner[r] \in Users /\ keyOf[r] \in Keys
  /\ \A u \in Users, k \in Keys : \A r, s \in Matches(u, k) : r = s

\* What a request has read, or was answered with, is up to date unless its
\* identity moved while it was being handled.
RequestsAreCurrent ==
  \A p \in Posts :
    /\ post[p].step # "idle" => post[p].id \in Ids /\ post[p].key \in Keys
    /\ post[p].step \in {"resolved", "checked"} =>
         /\ post[p].user \in Users
         /\ post[p].id \notin raced => post[p].user = identity[post[p].id]
    /\ post[p].step = "answered" =>
         /\ post[p].run \in Runs
         /\ status[post[p].run] # "none"
         /\ keyOf[post[p].run] = post[p].key
         /\ post[p].id \notin raced => owner[post[p].run] = identity[post[p].id]

LinksAreGiven ==
  \A l \in Links : link[l].step \in {"verified", "merged"} =>
    link[l].from \in Users /\ link[l].to \in Users /\ link[l].code \in Codes

\* What the client and the database have seen of a run when its task stands at
\* a label.
Unanswered(r) == told[r] = "open" /\ r \notin answers
Failing(r) ==
  \/ Unanswered(r)
  \/ told[r] = "error" /\ r \notin answers /\ status[r] = "failed"
  \/ told[r] = "open" /\ r \in unconfirmed /\ faults > 0
  \/ told[r] = "final" /\ r \in answers /\ faults > 0

LabelTells(r) ==
  /\ pc[r] = "none" => Unanswered(r)
  /\ pc[r] = "scheduled" => status[r] = "queued" /\ Unanswered(r)
  /\ pc[r] \in {"routing", "generating", "tool", "waiting", "critique",
                "delivering", "timedOut"}
       => status[r] = "in_progress" /\ Unanswered(r)
  /\ pc[r] = "expired" => status[r] \in {"in_progress", "failed"} /\ Unanswered(r)
  /\ pc[r] \in {"tellTimeout", "tellExpired"} => status[r] = "failed" /\ Unanswered(r)
  /\ pc[r] \in {"remembering", "finishing"}
       => status[r] = "in_progress" /\ told[r] = "open" /\ r \in answers \ unconfirmed
  /\ pc[r] = "completing"
       => status[r] = "in_progress" /\ told[r] = "final" /\ r \in answers
  /\ pc[r] = "reporting" =>
       \/ status[r] = "completed" /\ told[r] = "final" /\ r \in answers
       \/ status[r] = "failed" /\ told[r] = "error" /\ r \notin answers
  /\ pc[r] = "fault" => status[r] # "none" /\ Failing(r)
  /\ pc[r] = "tellFault" => status[r] = "failed" /\ Failing(r)

RunInv ==
  /\ TypeOK
  /\ RowsAreUnique
  /\ RequestsAreCurrent
  /\ LinksAreGiven
  /\ unconfirmed \subseteq answers
  /\ \A r \in Runs : LabelTells(r)
  /\ AnswerIsNotAnError
  /\ EndsAgree
=============================================================================
