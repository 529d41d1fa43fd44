----------------------------- MODULE Approvals -----------------------------
(***************************************************************************)
(* The approval gate of the bot's tool handler: before a risky tool runs,  *)
(* ToolHandler.execute (cogs/tools/tool_handler.py) stores a request under *)
(* the tool call's id, request_approval (utils/approvals.py) tells the     *)
(* owner and polls the store, and the owner decides by a slash command     *)
(* (cogs/approvals_admin.py) or over the Web API (web/endpoints.py).  The  *)
(* request is one row of the bot's database (storage.py), which every      *)
(* party reads and writes in statements of its own.                        *)
(*                                                                         *)
(* A request stands for the actor, the tool and the arguments; the row     *)
(* keeps actor and tool, and a hash of the arguments.  Time is two flags:  *)
(* whether the expires_at of a row, and the copy an execution waits with,  *)
(* has passed.  Only requests for which the policy asks for an approval are*)
(* modelled; a code is named after the execution that drew it.             *)
(***************************************************************************)
EXTENDS Naturals

CONSTANTS
  Execs,       \* executions of a tool, each for a dispatch of the Core
  CallIds,     \* tool_call_id
  Requests,    \* what an execution is to do
  Critical,    \* requests whose approval requires a code
  ArgsOf,      \* the arguments of a request, of which a hash is compared
  RequestsOf,  \* the requests dispatched under a call id
  Decisions,   \* commands of the owner
  NoRequest, NoExec, NoCall,
  MaxFaults    \* bound: statements, messages and trace entries that fail

ASSUME ApprovalAssumption ==
  /\ Critical \subseteq Requests
  /\ RequestsOf \in [CallIds -> SUBSET Requests]
  /\ NoRequest \notin Requests
  /\ NoExec \notin Execs
  /\ NoCall \notin CallIds
  /\ MaxFaults \in Nat

VARIABLES
  row,      \* approval_requests, by tool_call_id
  exec,     \* where an execution stands
  sent,     \* executions whose code and request the owner was told
  decision, \* commands of the owner in progress
  granted,  \* requests the owner read and approved, by call id (history)
  faults    \* failures so far

vars == <<row, exec, sent, decision, granted, faults>>

Asking  == {"save", "look", "ask", "store", "notify"}
Refused == {"denied", "expired", "timeout", "limited"}
Ended   == Refused \cup {"runs", "reuses", "unguarded", "gone"}

RowState  == [status : {"none", "pending", "approved", "denied", "expired"},
              request : Requests \cup {NoRequest}, code : Execs \cup {NoExec},
              past : BOOLEAN]
ExecState == [at : {"idle", "waiting", "lapsed", "verify", "revoke"} \cup Asking \cup Ended,
              id : CallIds \cup {NoCall}, request : Requests \cup {NoRequest},
              past : BOOLEAN]
DecisionState == [at : {"idle", "read", "done"}, id : CallIds \cup {NoCall},
                  request : Requests \cup {NoRequest},
                  verdict : {"approved", "denied"}]

TypeOK ==
  /\ row \in [CallIds -> RowState]
  /\ exec \in [Execs -> ExecState]
  /\ sent \in SUBSET Execs
  /\ decision \in [Decisions -> DecisionState]
  /\ granted \in [CallIds -> SUBSET Requests]
  /\ faults \in 0 .. MaxFaults

Init ==
  /\ row = [c \in CallIds |->
       [status |-> "none", request |-> NoRequest, code |-> NoExec, past |-> FALSE]]
  /\ exec = [e \in Execs |->
       [at |-> "idle", id |-> NoCall, request |-> NoRequest, past |-> FALSE]]
  /\ sent = {}
  /\ decision = [d \in Decisions |->
       [at |-> "idle", id |-> NoCall, request |-> NoRequest, verdict |-> "denied"]]
  /\ granted = [c \in CallIds |-> {}]
  /\ faults = 0

-----------------------------------------------------------------------------
(***************************************************************************)
(* The store.                                                              *)
(***************************************************************************)

\* Mutants: operators named after a mistake; no action uses them.
ReplaceAll(c, r, code, past) ==
  row' = [row EXCEPT ![c] =
    [status |-> "pending", request |-> r, code |-> code, past |-> past]]

\* upsert_approval_request: everything is replaced except a status that is
\* there.
Upsert(c, r, code, past) ==
  row' = [row EXCEPT ![c] =
    [status |-> IF row[c].status = "none" THEN "pending" ELSE row[c].status,
     request |-> r, code |-> code, past |-> past]]

\* decide_approval_request: the update is conditional on the row's status.
Undecided(c) == row[c].status = "pending"

DecideAnyway(c, verdict) == row' = [row EXCEPT ![c].status = verdict]

Decide(c, verdict) ==
  row' = IF Undecided(c) THEN [row EXCEPT ![c].status = verdict] ELSE row

-----------------------------------------------------------------------------
(***************************************************************************)
(* ToolHandler.execute and request_approval.                               *)
(***************************************************************************)
Goto(e, step) == exec' = [exec EXCEPT ![e].at = step]

Fault == faults < MaxFaults /\ faults' = faults + 1

\* A dispatch of the Core reaches the gate.
Begin(e, c) ==
  /\ exec[e].at = "idle"
  /\ \E r \in RequestsOf[c] :
       exec' = [exec EXCEPT ![e] = [at |-> "save", id |-> c, request |-> r,
                                    past |-> FALSE]]
  /\ UNCHANGED <<row, sent, decision, granted, faults>>

\* The request is stored, without a code; a failure of it is passed over.
Save(e) ==
  /\ exec[e].at = "save"
  /\ \/ Upsert(exec[e].id, exec[e].request, NoExec, FALSE) /\ UNCHANGED faults
     \/ Fault /\ UNCHANGED row
  /\ Goto(e, "look")
  /\ UNCHANGED <<sent, decision, granted>>

\* An approval is reused for the same request until it expires.
Reusable(e) ==
  LET r == row[exec[e].id]
  IN  r.status = "approved" /\ r.request = exec[e].request /\ ~r.past

LookAgain(e) ==
  /\ exec[e].at = "look"
  /\ Goto(e, CASE row[exec[e].id].status = "denied"  -> "denied"
              [] row[exec[e].id].status = "expired" -> "save"
              [] Reusable(e)                        -> "reuses"
              [] OTHER                              -> "ask")
  /\ UNCHANGED <<row, sent, decision, granted, faults>>

\* A decision taken before is respected, if it can be read.
Look(e) ==
  /\ exec[e].at = "look"
  /\ \/ /\ row[exec[e].id].status = "denied"
        /\ Goto(e, "denied")
        /\ UNCHANGED faults
     \/ /\ Reusable(e)
        /\ Goto(e, "reuses")
        /\ UNCHANGED faults
     \/ /\ row[exec[e].id].status # "denied"
        /\ ~Reusable(e)
        /\ Goto(e, "ask")
        /\ UNCHANGED faults
     \/ Fault /\ Goto(e, "ask")
  /\ UNCHANGED <<row, sent, decision, granted>>

\* request_approval reads the row's expiry, unless too many were asked for.
Ask(e) ==
  /\ exec[e].at = "ask"
  /\ \/ Goto(e, "limited")
     \/ exec' = [exec EXCEPT ![e].at = "store", ![e].past = row[exec[e].id].past]
  /\ UNCHANGED <<row, sent, decision, granted, faults>>

StoreOnce(e) ==
  /\ exec[e].at = "store"
  /\ IF row[exec[e].id].status = "none"
       THEN Upsert(exec[e].id, exec[e].request, e, exec[e].past)
       ELSE UNCHANGED row
  /\ Goto(e, "notify")
  /\ UNCHANGED <<sent, decision, granted, faults>>

\* It stores the request again, with the code it drew.
StoreCode(e) ==
  /\ exec[e].at = "store"
  /\ \/ /\ Upsert(exec[e].id, exec[e].request,
                  IF exec[e].request \in Critical THEN e ELSE NoExec, exec[e].past)
        /\ UNCHANGED faults
     \/ Fault /\ UNCHANGED row
  /\ Goto(e, "notify")
  /\ UNCHANGED <<sent, decision, granted>>

\* It reads the row back, tells the owner, and starts to poll.
Notify(e) ==
  /\ exec[e].at = "notify"
  /\ \/ sent' = sent \cup {e} /\ UNCHANGED faults
     \/ Fault /\ UNCHANGED sent
  /\ exec' = [exec EXCEPT ![e].at = "waiting", ![e].past = row[exec[e].id].past]
  /\ UNCHANGED <<row, decision, granted>>

PollDecided(e) ==
  /\ exec[e].at = "waiting"
  /\ ~exec[e].past
  /\ \/ row[exec[e].id].status \notin {"none", "pending", "denied"} /\ Goto(e, "verify")
     \/ row[exec[e].id].status = "denied" /\ Goto(e, "denied")
  /\ UNCHANGED <<row, sent, decision, granted, faults>>

\* A poll finds the decision.
PollDecision(e) ==
  /\ exec[e].at = "waiting"
  /\ ~exec[e].past
  /\ \/ row[exec[e].id].status = "approved" /\ Goto(e, "verify")
     \/ /\ row[exec[e].id].status \in {"denied", "expired"}
        /\ Goto(e, row[exec[e].id].status)
  /\ UNCHANGED <<row, sent, decision, granted, faults>>

\* A poll finds that the request has expired, and decides it if nobody has.
PollExpired(e) ==
  /\ exec[e].at = "waiting"
  /\ exec[e].past
  /\ Goto(e, "lapsed")
  /\ \/ Decide(exec[e].id, "expired") /\ UNCHANGED faults
     \/ Fault /\ UNCHANGED row
  /\ UNCHANGED <<sent, decision, granted>>

\* What the poll came to is written to the trace, and the call refused.
Lapse(e) ==
  /\ exec[e].at = "lapsed"
  /\ Goto(e, "expired")
  /\ UNCHANGED <<row, sent, decision, granted, faults>>

\* The deadline of the polling passes between two polls: the row stays as it is.
PollTimeout(e) ==
  /\ exec[e].at = "waiting"
  /\ exec[e].past
  /\ Goto(e, "timeout")
  /\ UNCHANGED <<row, sent, decision, granted, faults>>

\* The gate's outermost handler passes over an exception, and the tool runs: the
\* policy's decision cannot be written to the trace, a poll cannot open the
\* database, or what was heard (the limit, a decision, that the request expired)
\* cannot be written to the trace.
GateFails(e) ==
  /\ exec[e].at \in {"save", "ask", "waiting", "lapsed"}
  /\ Fault
  /\ Goto(e, "unguarded")
  /\ UNCHANGED <<row, sent, decision, granted>>

\* The row must hold the arguments that were asked for, if it can be read.
Verify(e) ==
  /\ exec[e].at = "verify"
  /\ \/ /\ ArgsOf[row[exec[e].id].request] = ArgsOf[exec[e].request]
        /\ Goto(e, "runs")
        /\ UNCHANGED faults
     \/ /\ ArgsOf[row[exec[e].id].request] # ArgsOf[exec[e].request]
        /\ Goto(e, "revoke")
        /\ UNCHANGED faults
     \/ Fault /\ Goto(e, "runs")
  /\ UNCHANGED <<row, sent, decision, granted>>

\* set_approval_status, with no condition on the row's status.  It keeps the
\* failure of its statement to itself; one to open the database is passed over by
\* its caller, and the tool runs.
Revoke(e) ==
  /\ exec[e].at = "revoke"
  /\ \/ /\ row' = [row EXCEPT ![exec[e].id].status = "denied"]
        /\ Goto(e, "denied")
        /\ UNCHANGED faults
     \/ Fault /\ UNCHANGED row /\ Goto(e, "denied")
     \/ Fault /\ UNCHANGED row /\ Goto(e, "runs")
  /\ UNCHANGED <<sent, decision, granted>>

-----------------------------------------------------------------------------
(***************************************************************************)
(* The owner, time, and a restart of the bot.                              *)
(***************************************************************************)

\* A command of the owner reads the row: it must be pending, and an approval
\* that requires a code needs the one the row expects.
Read(d, c, verdict) ==
  /\ decision[d].at = "idle"
  /\ Undecided(c)
  /\ verdict = "approved" /\ row[c].request \in Critical => row[c].code \in sent
  /\ decision' = [decision EXCEPT ![d] = [at |-> "read", id |-> c,
                    request |-> row[c].request, verdict |-> verdict]]
  /\ UNCHANGED <<row, exec, sent, granted, faults>>

\* Then it decides.
Conclude(d) ==
  /\ decision[d].at = "read"
  /\ Decide(decision[d].id, decision[d].verdict)
  /\ granted' = IF Undecided(decision[d].id) /\ decision[d].verdict = "approved"
                  THEN [granted EXCEPT ![decision[d].id] = @ \cup {decision[d].request}]
                  ELSE granted
  /\ decision' = [decision EXCEPT ![d].at = "done"]
  /\ UNCHANGED <<exec, sent, faults>>

\* The expiry of a row passes, and with it that of every copy of it.
RowExpires(c) ==
  /\ row[c].status # "none"
  /\ ~row[c].past
  /\ row' = [row EXCEPT ![c].past = TRUE]
  /\ exec' = [e \in Execs |->
       IF exec[e].id = c THEN [exec[e] EXCEPT !.past = TRUE] ELSE exec[e]]
  /\ UNCHANGED <<sent, decision, granted, faults>>

\* A copy may be older than the row, which another execution stored again.
CopyExpires(e) ==
  /\ exec[e].at = "waiting"
  /\ ~exec[e].past
  /\ exec' = [exec EXCEPT ![e].past = TRUE]
  /\ UNCHANGED <<row, sent, decision, granted, faults>>

\* The bot restarts: the rows stay, the executions do not.
Crash ==
  /\ Fault
  /\ exec' = [e \in Execs |->
       IF exec[e].at \in Ended \cup {"idle"} THEN exec[e]
       ELSE [exec[e] EXCEPT !.at = "gone"]]
  /\ UNCHANGED <<row, sent, decision, granted>>

Proceed(e) ==
  \/ Save(e)
  \/ Look(e)
  \/ Ask(e)
  \/ StoreCode(e)
  \/ Notify(e)
  \/ PollDecision(e)
  \/ PollExpired(e)
  \/ Lapse(e)
  \/ PollTimeout(e)
  \/ GateFails(e)
  \/ Verify(e)
  \/ Revoke(e)

Next ==
  \/ \E e \in Execs : Proceed(e)
  \/ \E e \in Execs, c \in CallIds : Begin(e, c)
  \/ \E d \in Decisions, c \in CallIds, verdict \in {"approved", "denied"} :
       Read(d, c, verdict)
  \/ \E d \in Decisions : Conclude(d)
  \/ \E c \in CallIds : RowExpires(c)
  \/ \E e \in Execs : CopyExpires(e)
  \/ Crash

\* The bot's loop serves every execution, and the clock moves on; the owner
\* need not decide.
Fairness ==
  /\ \A e \in Execs : WF_vars(Proceed(e)) /\ WF_vars(CopyExpires(e))

Spec == Init /\ [][Next]_vars /\ Fairness

-----------------------------------------------------------------------------
Running == {"runs", "reuses"}
Same(e, f) == exec[e].id = exec[f].id

\* The call ids that came with one request only, which is what a call id is for.
Steady == {c \in CallIds : \A e, f \in Execs :
             exec[e].id = c /\ exec[f].id = c => exec[e].request = exec[f].request}

\* A tool runs only if the owner approved this request under this call id,
\* whether the execution waited for the decision or found an earlier one; the
\* failure of the gate itself is the exception the code makes.
ExecutedWereApproved ==
  \A e \in Execs :
    exec[e].at \in Running /\ exec[e].id \in Steady
      => exec[e].request \in granted[exec[e].id]

\* Executions of one call do not disagree: none runs when another was denied.
VerdictsAgree ==
  \A e, f \in Execs :
    ~( /\ Same(e, f)
       /\ exec[e].id \in Steady
       /\ exec[e].at \in Running
       /\ exec[f].at = "denied" )

\* What was decided about a call stays decided, whoever else decides it, stores
\* it again, or sees it expire; only an approval is withdrawn, when an
\* execution of another request finds it.
DecisionsAreFinal ==
  [][\A c \in CallIds :
       row[c].status \in {"approved", "denied", "expired"}
         => \/ row'[c].status = row[c].status
            \/ row'[c].status = "denied" /\ c \notin Steady]_vars

\* The gate as the owner and the executions see it.
Verdict(c) == IF row[c].status \in {"none", "pending"} THEN "open" ELSE row[c].status

Outcome(e) ==
  CASE exec[e].at \in Running                -> "runs"
    [] exec[e].at \in {"denied", "unguarded"} -> exec[e].at
    [] OTHER                                  -> "none"

AskedFor(c) == {exec[e].request : e \in {f \in Execs : exec[f].id = c}}

Gate == INSTANCE ApprovalGate WITH
          callOf  <- [e \in Execs |-> exec[e].id],
          asked   <- [c \in CallIds |-> AskedFor(c)],
          verdict <- [c \in CallIds |-> Verdict(c)],
          outcome <- [e \in Execs |-> Outcome(e)]

\* A call is decided once and for all its executions, whoever decides it, stores
\* it again or sees it expire: a tool runs only on an approval, and a call is
\* refused as denied only on a denial.  Under a call id that came with two
\* requests an execution may withdraw an approval, or be refused without (when the
\* withdrawal fails), but none that is open or expired runs.
KeepsGate == Gate!Spec

\* While an execution waits for a critical request and no other is about to
\* store it, the code the row expects is one the owner was sent; unless
\* something failed, or the rate limit turned away another execution of the
\* call after that had taken the code out of the row.
WaitingHasItsCode ==
  \A e \in Execs :
    ( /\ exec[e].at = "waiting"
      /\ exec[e].request \in Critical
      /\ Undecided(exec[e].id)
      /\ exec[e].id \in Steady
      /\ \A f \in Execs : Same(e, f) => exec[f].at \notin Asking \cup {"limited"}
      /\ faults = 0 )
    => row[exec[e].id].code \in sent

\* Every execution comes to an end: the tool runs or the call is refused.
EveryExecutionEnds ==
  \A e \in Execs : (exec[e].at # "idle") ~> (exec[e].at \in Ended)

-----------------------------------------------------------------------------
(***************************************************************************)
(* The inductive invariant behind the first three properties.              *)
(***************************************************************************)
Dispatched(c, r) == \E e \in Execs : exec[e].id = c /\ exec[e].request = r

\* An execution has a call id from its beginning on.
IdsAreGiven ==
  \A e \in Execs :
    IF exec[e].at = "idle" THEN exec[e].id = NoCall
    ELSE exec[e].id \in CallIds /\ exec[e].request \in Requests

\* A row, and a command that has read it, hold a request that was dispatched.
RowsWereAsked ==
  \A c \in CallIds : row[c].status # "none" => Dispatched(c, row[c].request)

ReadsWereAsked ==
  \A d \in Decisions : decision[d].at = "read" =>
    decision[d].id \in CallIds /\ Dispatched(decision[d].id, decision[d].request)

\* An approved row of a steady call id is an approval of its request.
ApprovedWasGranted ==
  \A c \in Steady : row[c].status = "approved" =>
    \A e \in Execs : exec[e].id = c => exec[e].request \in granted[c]

\* An execution of a steady call id has gone the way the row still says.
RowStillSays ==
  \A e \in Execs : exec[e].id \in Steady =>
    /\ exec[e].at \in Running \cup {"verify"} => row[exec[e].id].status = "approved"
    /\ exec[e].at = "denied" => row[exec[e].id].status = "denied"
    /\ exec[e].at # "revoke"

\* What an execution has heard was an approval; at most it was withdrawn since.
HeardStands ==
  \A e \in Execs :
    exec[e].at \in {"verify", "revoke"} =>
      row[exec[e].id].status \in {"approved", "denied"}

ApprovalInv ==
  /\ TypeOK
  /\ HeardStands
  /\ IdsAreGiven
  /\ RowsWereAsked
  /\ ReadsWereAsked
  /\ ApprovedWasGranted
  /\ RowStillSays

\* Behind WaitingHasItsCode: as long as nothing failed, the code of a pending
\* critical row was sent, or is about to be by the execution that drew it; a row
\* without a code is in the hands of the execution that stored it last.
CodeInv ==
  \A c \in CallIds :
    faults = 0 /\ row[c].status = "pending" /\ row[c].request \in Critical =>
      \/ row[c].code \in sent
      \/ /\ row[c].code \in Execs
         /\ exec[row[c].code].id = c
         /\ exec[row[c].code].at = "notify"
      \/ /\ row[c].code = NoExec
         /\ \E f \in Execs : /\ exec[f].id = c
                            /\ exec[f].at \in {"look", "ask", "store", "limited"}
=============================================================================
