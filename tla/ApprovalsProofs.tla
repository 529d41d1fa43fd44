-------------------------- MODULE ApprovalsProofs --------------------------
(***************************************************************************)
(* Approvals for any number of executions, call ids, requests and commands *)
(* of the owner.  ApprovalInv is inductive: every step but Begin is sound, *)
(* which says of the rows and the executions it changes what the invariant *)
(* needs, and Begin can only make a call id cease to be steady.            *)
(***************************************************************************)
EXTENDS Approvals, TLAPS

Decided == {"approved", "denied", "expired"}

\* The executions keep their call id and request.
KeepsRequests ==
  \A e \in Execs : exec'[e].id = exec[e].id /\ exec'[e].request = exec[e].request

\* What a step may do to rows, executions and commands.
SoundRows ==
  /\ \A c \in CallIds : row'[c].status # "none" =>
       \/ row'[c].request = row[c].request /\ row[c].status # "none"
       \/ Dispatched(c, row'[c].request)
  /\ \A c \in Steady : row[c].status \in Decided => row'[c].status = row[c].status
  /\ \A c \in Steady : row'[c].status = "approved" =>
       \/ row[c].status = "approved"
       \/ \E r \in granted'[c] : Dispatched(c, r)
  /\ \A c \in CallIds : granted[c] \subseteq granted'[c]
  /\ \A c \in CallIds : row[c].status \in {"approved", "denied"} =>
       row'[c].status \in {"approved", "denied"}

SoundExecs ==
  \A e \in Execs :
    /\ (exec'[e].at = "idle") = (exec[e].at = "idle")
    /\ exec'[e].at \in {"verify", "revoke"} =>
         /\ exec[e].id \in CallIds
         /\ row[exec[e].id].status \in {"approved", "denied"}
    /\ exec[e].id \in Steady =>
         /\ exec'[e].at \in Running \cup {"verify"} =>
              \/ exec[e].at \in Running \cup {"verify"}
              \/ row'[exec[e].id].status = "approved"
         /\ exec'[e].at = "denied" =>
              exec[e].at = "denied" \/ row'[exec[e].id].status = "denied"
         /\ exec'[e].at # "revoke"

SoundReads ==
  \A d \in Decisions : decision'[d].at = "read" =>
    \/ decision'[d] = decision[d]
    \/ /\ decision'[d].id \in CallIds
       /\ row[decision'[d].id].status # "none"
       /\ decision'[d].request = row[decision'[d].id].request

Sound == KeepsRequests /\ SoundRows /\ SoundExecs /\ SoundReads

\* Which requests were dispatched depends on the executions only.
LEMMA KeepsSteady ==
  ASSUME KeepsRequests
  PROVE  /\ Steady' = Steady
         /\ \A c, r : Dispatched(c, r) => Dispatched(c, r)'
BY DEF KeepsRequests, Steady, Dispatched

\* A sound step preserves the invariant.
LEMMA SoundPreserves ==
  ASSUME ApprovalInv, TypeOK', Sound
  PROVE  ApprovalInv'
<1>. USE DEF ApprovalInv, Sound
<1>0. /\ Steady' = Steady /\ Steady \subseteq CallIds
      /\ \A c, r : Dispatched(c, r) => Dispatched(c, r)'
  BY KeepsSteady DEF Steady
<1>1. IdsAreGiven'
  BY DEF IdsAreGiven, KeepsRequests, SoundExecs
<1>2. RowsWereAsked'
  BY <1>0 DEF RowsWereAsked, SoundRows
<1>3. ReadsWereAsked'
  BY <1>0 DEF ReadsWereAsked, RowsWereAsked, SoundReads
<1>4. ApprovedWasGranted'
  <2>. SUFFICES ASSUME NEW c \in Steady, row'[c].status = "approved",
                       NEW e \in Execs, exec'[e].id = c
                PROVE  exec'[e].request \in granted'[c]
    BY <1>0 DEF ApprovedWasGranted
  <2>1. exec[e].id = c /\ exec'[e].request = exec[e].request
    BY DEF KeepsRequests
  <2>2. CASE row[c].status = "approved"
    BY <1>0, <2>1, <2>2 DEF ApprovedWasGranted, SoundRows
  <2>3. CASE \E r \in granted'[c] : Dispatched(c, r)
    BY <2>1, <2>3 DEF Dispatched, Steady
  <2>. QED BY <2>2, <2>3 DEF SoundRows
<1>5. RowStillSays'
  <2>. SUFFICES ASSUME NEW e \in Execs, exec[e].id \in Steady
                PROVE  /\ exec'[e].at \in Running \cup {"verify"} =>
                            row'[exec[e].id].status = "approved"
                       /\ exec'[e].at = "denied" => row'[exec[e].id].status = "denied"
                       /\ exec'[e].at # "revoke"
    BY <1>0 DEF RowStillSays, KeepsRequests
  <2>. QED BY DEF RowStillSays, SoundExecs, SoundRows, Decided
<1>6. HeardStands'
  BY DEF HeardStands, SoundExecs, SoundRows, KeepsRequests
<1>. QED BY <1>1, <1>2, <1>3, <1>4, <1>5, <1>6

-----------------------------------------------------------------------------
(***************************************************************************)
(* The steps.                                                              *)
(***************************************************************************)

\* An execution that goes on keeps its call id and request, and the others
\* stay where they are.
LEMMA GotoFacts ==
  ASSUME TypeOK, NEW e \in Execs, NEW step, Goto(e, step)
  PROVE  /\ KeepsRequests
         /\ exec'[e].at = step
         /\ \A f \in Execs \ {e} : exec'[f] = exec[f]
BY DEF Goto, TypeOK, ExecState, KeepsRequests

\* Storing a request again keeps the status of its row.
LEMMA UpsertFacts ==
  ASSUME ApprovalInv, NEW e \in Execs, exec[e].at # "idle",
         NEW code, NEW past, Upsert(exec[e].id, exec[e].request, code, past),
         UNCHANGED granted
  PROVE  SoundRows
<1>. USE DEF ApprovalInv
<1>1. exec[e].id \in CallIds /\ Dispatched(exec[e].id, exec[e].request)
  BY DEF IdsAreGiven, Dispatched
<1>2. \A c \in CallIds \ {exec[e].id} : row'[c] = row[c]
  BY <1>1 DEF Upsert, TypeOK
<1>3. /\ row'[exec[e].id].request = exec[e].request
      /\ row'[exec[e].id].status =
           IF row[exec[e].id].status = "none" THEN "pending" ELSE row[exec[e].id].status
  BY <1>1 DEF Upsert, TypeOK
<1>4. Steady \subseteq CallIds
  BY DEF Steady
<1>. QED BY <1>1, <1>2, <1>3, <1>4 DEF SoundRows, Decided

LEMMA SameRows ==
  ASSUME UNCHANGED <<row, granted>>
  PROVE  SoundRows
BY DEF SoundRows, Steady

LEMMA SameReads ==
  ASSUME UNCHANGED decision
  PROVE  SoundReads
BY DEF SoundReads

\* An execution whose next place the invariant does not speak of is sound.
LEMMA PlainStep ==
  ASSUME ApprovalInv, NEW e \in Execs, exec[e].at # "idle",
         NEW step, step \notin Running \cup {"verify", "revoke", "denied", "idle"},
         exec' = [exec EXCEPT ![e].at = step]
           \/ \E p : exec' = [exec EXCEPT ![e].at = step, ![e].past = p]
  PROVE  KeepsRequests /\ SoundExecs
<1>1. /\ KeepsRequests
      /\ exec'[e].at = step
      /\ \A f \in Execs \ {e} : exec'[f] = exec[f]
  BY DEF ApprovalInv, TypeOK, ExecState, KeepsRequests
<1>. QED BY <1>1 DEF ApprovalInv, SoundExecs, RowStillSays, HeardStands, IdsAreGiven

LEMMA PlainGoto ==
  ASSUME ApprovalInv, NEW e \in Execs, exec[e].at # "idle",
         NEW step, step \notin Running \cup {"verify", "revoke", "denied", "idle"},
         Goto(e, step)
  PROVE  KeepsRequests /\ SoundExecs
BY PlainStep DEF Goto

LEMMA SavePreserves ==
  ASSUME ApprovalInv, NEW e \in Execs, Save(e)
  PROVE  Sound
<1>1. exec[e].at = "save" /\ Goto(e, "look") /\ UNCHANGED <<sent, decision, granted>>
  BY DEF Save
<1>2. KeepsRequests /\ SoundExecs
  BY <1>1, PlainGoto DEF Running
<1>3. SoundRows
  <2>1. CASE UNCHANGED row
    BY <1>1, <2>1, SameRows
  <2>2. CASE Upsert(exec[e].id, exec[e].request, NoExec, FALSE)
    BY <1>1, <2>2, UpsertFacts
  <2>. QED BY <2>1, <2>2 DEF Save
<1>. QED BY <1>1, <1>2, <1>3, SameReads DEF Sound

LEMMA LookPreserves ==
  ASSUME ApprovalInv, NEW e \in Execs, Look(e)
  PROVE  Sound
<1>. USE DEF ApprovalInv
<1>1. exec[e].at = "look" /\ UNCHANGED <<row, sent, decision, granted>>
  BY DEF Look
<1>2. CASE Goto(e, "ask")
  <2>. KeepsRequests /\ SoundExecs
    BY <1>1, <1>2, PlainGoto DEF Running
  <2>. QED BY <1>1, SameRows, SameReads DEF Sound
<1>3. CASE row[exec[e].id].status = "denied" /\ Goto(e, "denied")
  <2>. /\ KeepsRequests
       /\ exec'[e].at = "denied"
       /\ \A f \in Execs \ {e} : exec'[f] = exec[f]
    BY <1>3, GotoFacts
  <2>. SoundExecs
    BY <1>1, <1>3 DEF SoundExecs, RowStillSays, Running, HeardStands, IdsAreGiven
  <2>. QED BY <1>1, SameRows, SameReads DEF Sound
<1>4. CASE Reusable(e) /\ Goto(e, "reuses")
  <2>. /\ KeepsRequests
       /\ exec'[e].at = "reuses"
       /\ \A f \in Execs \ {e} : exec'[f] = exec[f]
    BY <1>4, GotoFacts
  <2>. SoundExecs
    BY <1>1, <1>4 DEF SoundExecs, RowStillSays, Running, HeardStands, IdsAreGiven, Reusable
  <2>. QED BY <1>1, SameRows, SameReads DEF Sound
<1>. QED BY <1>2, <1>3, <1>4 DEF Look

LEMMA AskPreserves ==
  ASSUME ApprovalInv, NEW e \in Execs, Ask(e)
  PROVE  Sound
<1>1. exec[e].at = "ask" /\ UNCHANGED <<row, sent, decision, granted, faults>>
  BY DEF Ask
<1>2. KeepsRequests /\ SoundExecs
  <2>1. CASE Goto(e, "limited")
    BY <1>1, <2>1, PlainGoto DEF Running
  <2>2. CASE exec' = [exec EXCEPT ![e].at = "store", ![e].past = row[exec[e].id].past]
    BY <1>1, <2>2, PlainStep DEF Running
  <2>. QED BY <2>1, <2>2 DEF Ask
<1>. QED BY <1>1, <1>2, SameRows, SameReads DEF Sound

LEMMA StoreCodePreserves ==
  ASSUME ApprovalInv, NEW e \in Execs, StoreCode(e)
  PROVE  Sound
<1>1. exec[e].at = "store" /\ Goto(e, "notify") /\ UNCHANGED <<sent, decision, granted>>
  BY DEF StoreCode
<1>2. KeepsRequests /\ SoundExecs
  BY <1>1, PlainGoto DEF Running
<1>3. SoundRows
  <2>1. CASE UNCHANGED row
    BY <1>1, <2>1, SameRows
  <2>2. CASE Upsert(exec[e].id, exec[e].request,
                    IF exec[e].request \in Critical THEN e ELSE NoExec, exec[e].past)
    BY <1>1, <2>2, UpsertFacts
  <2>. QED BY <2>1, <2>2 DEF StoreCode
<1>. QED BY <1>1, <1>2, <1>3, SameReads DEF Sound

LEMMA NotifyPreserves ==
  ASSUME ApprovalInv, NEW e \in Execs, Notify(e)
  PROVE  Sound
<1>1. /\ exec[e].at = "notify"
      /\ exec' = [exec EXCEPT ![e].at = "waiting", ![e].past = row[exec[e].id].past]
      /\ UNCHANGED <<row, decision, granted>>
  BY DEF Notify
<1>2. KeepsRequests /\ SoundExecs
  BY <1>1, PlainStep DEF Running
<1>. QED BY <1>1, <1>2, SameRows, SameReads DEF Sound

LEMMA PollDecisionPreserves ==
  ASSUME ApprovalInv, NEW e \in Execs, PollDecision(e)
  PROVE  Sound
<1>. USE DEF ApprovalInv
<1>1. exec[e].at = "waiting" /\ UNCHANGED <<row, sent, decision, granted, faults>>
  BY DEF PollDecision
<1>2. PICK step \in {"verify", "denied", "expired"} :
        /\ Goto(e, step)
        /\ step = "verify" => row[exec[e].id].status = "approved"
        /\ step = "denied" => row[exec[e].id].status = "denied"
  BY DEF PollDecision
<1>3. /\ KeepsRequests
      /\ exec'[e].at = step
      /\ \A f \in Execs \ {e} : exec'[f] = exec[f]
  BY <1>2, GotoFacts
<1>4. SoundExecs
  BY <1>1, <1>2, <1>3 DEF SoundExecs, RowStillSays, Running, HeardStands, IdsAreGiven
<1>. QED BY <1>1, <1>3, <1>4, SameRows, SameReads DEF Sound

\* Deciding leaves alone what was decided.
LEMMA DecideFacts ==
  ASSUME TypeOK, NEW c \in CallIds, NEW verdict \in Decided, Decide(c, verdict)
  PROVE  /\ \A b \in CallIds : row'[b].request = row[b].request
         /\ \A b \in CallIds : row[b].status # "pending" => row'[b] = row[b]
         /\ \A b \in CallIds : row'[b].status # row[b].status =>
              b = c /\ Undecided(c) /\ row'[b].status = verdict
BY DEF Decide, Undecided, TypeOK, RowState, Decided

LEMMA PollExpiredPreserves ==
  ASSUME ApprovalInv, NEW e \in Execs, PollExpired(e)
  PROVE  Sound
<1>. USE DEF ApprovalInv
<1>1. exec[e].at = "waiting" /\ Goto(e, "lapsed") /\ UNCHANGED <<sent, decision, granted>>
  BY DEF PollExpired
<1>2. KeepsRequests /\ SoundExecs
  BY <1>1, PlainGoto DEF Running
<1>3. SoundRows
  <2>1. CASE UNCHANGED row
    BY <1>1, <2>1, SameRows
  <2>2. CASE Decide(exec[e].id, "expired")
    <3>1. exec[e].id \in CallIds
      BY <1>1 DEF IdsAreGiven
    <3>2. /\ \A b \in CallIds : row'[b].request = row[b].request
          /\ \A b \in CallIds : row[b].status # "pending" => row'[b] = row[b]
          /\ \A b \in CallIds : row'[b].status # row[b].status =>
               /\ b = exec[e].id
               /\ Undecided(exec[e].id)
               /\ row'[b].status = "expired"
      BY <2>2, <3>1, DecideFacts DEF Decided
    <3>. QED BY <1>1, <3>2 DEF SoundRows, Decided, Steady, Undecided
  <2>. QED BY <2>1, <2>2 DEF PollExpired
<1>. QED BY <1>1, <1>2, <1>3, SameReads DEF Sound

LEMMA LeavePreserves ==
  ASSUME ApprovalInv, NEW e \in Execs, Lapse(e) \/ PollTimeout(e) \/ GateFails(e)
  PROVE  Sound
<1>1. exec[e].at # "idle" /\ UNCHANGED <<row, sent, decision, granted>>
  BY DEF Lapse, PollTimeout, GateFails
<1>2. KeepsRequests /\ SoundExecs
  BY <1>1, PlainGoto DEF Running, Lapse, PollTimeout, GateFails
<1>. QED BY <1>1, <1>2, SameRows, SameReads DEF Sound

\* At a steady call id the row holds the request that was asked for.
LEMMA VerifyPreserves ==
  ASSUME ApprovalInv, NEW e \in Execs, Verify(e)
  PROVE  Sound
<1>. USE DEF ApprovalInv
<1>1. exec[e].at = "verify" /\ UNCHANGED <<row, sent, decision, granted>>
  BY DEF Verify
<1>2. PICK step \in {"runs", "revoke"} :
        /\ Goto(e, step)
        /\ step = "revoke" => row[exec[e].id].request # exec[e].request
  BY DEF Verify
<1>3. /\ KeepsRequests
      /\ exec'[e].at = step
      /\ \A f \in Execs \ {e} : exec'[f] = exec[f]
  BY <1>2, GotoFacts
<1>4. ASSUME exec[e].id \in Steady, step = "revoke"
      PROVE  FALSE
  <2>1. Dispatched(exec[e].id, row[exec[e].id].request)
    BY <1>1, <1>4 DEF RowStillSays, RowsWereAsked, Steady
  <2>. QED BY <1>2, <1>4, <2>1 DEF Dispatched, Steady
<1>5. SoundExecs
  BY <1>1, <1>2, <1>3, <1>4 DEF SoundExecs, RowStillSays, Running, HeardStands, IdsAreGiven
<1>. QED BY <1>1, <1>3, <1>5, SameRows, SameReads DEF Sound

LEMMA RevokePreserves ==
  ASSUME ApprovalInv, NEW e \in Execs, Revoke(e)
  PROVE  Sound
<1>. USE DEF ApprovalInv
<1>1. /\ exec[e].at = "revoke"
      /\ UNCHANGED <<sent, decision, granted>>
  BY DEF Revoke
<1>2. exec[e].id \in CallIds \ Steady
  BY <1>1 DEF IdsAreGiven, RowStillSays
<1>3. PICK step \in {"denied", "runs"} : Goto(e, step)
  BY DEF Revoke
<1>4. /\ KeepsRequests
      /\ exec'[e].at = step
      /\ \A f \in Execs \ {e} : exec'[f] = exec[f]
  BY <1>3, GotoFacts
<1>5. SoundExecs
  BY <1>1, <1>2, <1>4 DEF SoundExecs, RowStillSays, Running, HeardStands, IdsAreGiven
<1>6. SoundRows
  <2>1. CASE UNCHANGED row
    BY <1>1, <2>1, SameRows
  <2>2. CASE row' = [row EXCEPT ![exec[e].id].status = "denied"]
    <3>1. /\ \A b \in CallIds : row'[b].request = row[b].request
          /\ \A b \in CallIds \ {exec[e].id} : row'[b] = row[b]
      BY <2>2 DEF TypeOK, RowState
    <3>. QED BY <1>1, <1>2, <2>2, <3>1 DEF SoundRows, Decided, Steady, HeardStands
  <2>. QED BY <2>1, <2>2 DEF Revoke
<1>. QED BY <1>1, <1>4, <1>5, <1>6, SameReads DEF Sound

\* A step that moves no execution.
LEMMA SameExecs ==
  ASSUME ApprovalInv, UNCHANGED exec
  PROVE  KeepsRequests /\ SoundExecs
BY DEF ApprovalInv, KeepsRequests, SoundExecs, RowStillSays, HeardStands, IdsAreGiven

LEMMA ReadPreserves ==
  ASSUME ApprovalInv, NEW d \in Decisions, NEW c \in CallIds,
         NEW verdict \in {"approved", "denied"}, Read(d, c, verdict)
  PROVE  Sound
<1>1. UNCHANGED <<row, exec, sent, granted, faults>> /\ Undecided(c)
  BY DEF Read
<1>2. /\ decision'[d].id = c
      /\ decision'[d].request = row[c].request
      /\ \A b \in Decisions \ {d} : decision'[b] = decision[b]
  BY DEF Read, ApprovalInv, TypeOK
<1>3. SoundReads
  BY <1>1, <1>2 DEF SoundReads, Undecided
<1>. QED BY <1>1, <1>3, SameExecs, SameRows DEF Sound

\* The owner grants the request that was read.
LEMMA ConcludePreserves ==
  ASSUME ApprovalInv, NEW d \in Decisions, Conclude(d)
  PROVE  Sound
<1>. USE DEF ApprovalInv
<1>. DEFINE c == decision[d].id
            r == decision[d].request
<1>1. c \in CallIds /\ Dispatched(c, r)
  BY DEF Conclude, ReadsWereAsked
<1>2. /\ decision' = [decision EXCEPT ![d].at = "done"]
      /\ Decide(c, decision[d].verdict)
      /\ granted' = IF Undecided(c) /\ decision[d].verdict = "approved"
                      THEN [granted EXCEPT ![c] = @ \cup {r}]
                      ELSE granted
      /\ UNCHANGED <<exec, sent, faults>>
  BY DEF Conclude
<1>3. decision[d].verdict \in Decided
  BY DEF TypeOK, DecisionState, Decided
<1>4. /\ \A b \in CallIds : row'[b].request = row[b].request
      /\ \A b \in CallIds : row[b].status # "pending" => row'[b] = row[b]
      /\ \A b \in CallIds : row'[b].status # row[b].status =>
           b = c /\ Undecided(c) /\ row'[b].status = decision[d].verdict
  BY <1>1, <1>2, <1>3, DecideFacts
<1>5. /\ \A b \in CallIds : granted[b] \subseteq granted'[b]
      /\ Undecided(c) /\ decision[d].verdict = "approved" => r \in granted'[c]
  BY <1>1, <1>2 DEF TypeOK
<1>6. Steady \subseteq CallIds
  BY DEF Steady
<1>7. SoundRows
  <2>1. \A b \in CallIds : row'[b].status # "none" =>
          row'[b].request = row[b].request /\ row[b].status # "none"
    BY <1>4 DEF Undecided
  <2>2. \A b \in Steady : row[b].status \in Decided => row'[b].status = row[b].status
    BY <1>4, <1>6 DEF Decided
  <2>3. \A b \in Steady : row'[b].status = "approved" =>
          row[b].status = "approved" \/ \E q \in granted'[b] : Dispatched(b, q)
    BY <1>1, <1>4, <1>5, <1>6
  <2>4. \A b \in CallIds : row[b].status \in {"approved", "denied"} =>
          row'[b].status \in {"approved", "denied"}
    BY <1>4
  <2>. QED BY <1>5, <2>1, <2>2, <2>3, <2>4 DEF SoundRows
<1>8. SoundReads
  BY <1>2 DEF SoundReads, TypeOK, DecisionState
<1>. QED BY <1>2, <1>7, <1>8, SameExecs DEF Sound

\* The passing of time changes no status, request or place.
LEMMA TimePreserves ==
  ASSUME ApprovalInv,
         \/ \E c \in CallIds : RowExpires(c)
         \/ \E e \in Execs : CopyExpires(e)
  PROVE  Sound
<1>. DEFINE Unmoved ==
       /\ \A e \in Execs : /\ exec'[e].id = exec[e].id
                           /\ exec'[e].request = exec[e].request
                           /\ exec'[e].at = exec[e].at
       /\ \A c \in CallIds : /\ row'[c].status = row[c].status
                             /\ row'[c].request = row[c].request
       /\ UNCHANGED <<decision, granted>>
<1>1. Unmoved
  <2>1. /\ row \in [CallIds -> RowState] /\ exec \in [Execs -> ExecState]
    BY DEF ApprovalInv, TypeOK
  <2>2. ASSUME NEW c \in CallIds, RowExpires(c)  PROVE Unmoved
    BY <2>1, <2>2 DEF RowExpires, RowState, ExecState
  <2>3. ASSUME NEW e \in Execs, CopyExpires(e)  PROVE Unmoved
    BY <2>1, <2>3 DEF CopyExpires, ExecState
  <2>. QED BY <2>2, <2>3
<1>2. Steady \subseteq CallIds
  BY DEF Steady
<1>3. KeepsRequests
  BY <1>1 DEF KeepsRequests
<1>4. SoundRows
  BY <1>1, <1>2 DEF SoundRows, ApprovalInv, ApprovedWasGranted, RowsWereAsked
<1>5. SoundExecs
  BY <1>1 DEF SoundExecs, ApprovalInv, RowStillSays, HeardStands, IdsAreGiven
<1>. QED BY <1>1, <1>3, <1>4, <1>5, SameReads DEF Sound

LEMMA CrashPreserves ==
  ASSUME ApprovalInv, Crash
  PROVE  Sound
<1>. USE DEF ApprovalInv
<1>1. UNCHANGED <<row, sent, decision, granted>>
  BY DEF Crash
<1>2. \A e \in Execs :
        \/ exec'[e] = exec[e] /\ exec[e].at \in Ended \cup {"idle"}
        \/ /\ exec'[e].id = exec[e].id /\ exec'[e].request = exec[e].request
           /\ exec'[e].at = "gone"
           /\ exec[e].at \notin Ended \cup {"idle"}
  BY DEF Crash, TypeOK, ExecState
<1>3. KeepsRequests
  BY <1>2 DEF KeepsRequests
<1>4. SoundExecs
  BY <1>2 DEF SoundExecs, Running, Ended, Refused, RowStillSays, HeardStands, IdsAreGiven
<1>. QED BY <1>1, <1>3, <1>4, SameRows, SameReads DEF Sound

\* A dispatch may bring a call id together with another request, which then is
\* no longer steady; it makes none steady.
LEMMA BeginPreserves ==
  ASSUME ApprovalInv, TypeOK', NEW e \in Execs, NEW c \in CallIds, Begin(e, c)
  PROVE  ApprovalInv'
<1>. USE DEF ApprovalInv
<1>1. PICK r \in RequestsOf[c] :
        exec' = [exec EXCEPT ![e] = [at |-> "save", id |-> c, request |-> r,
                                     past |-> FALSE]]
  BY DEF Begin
<1>2. /\ exec'[e].at = "save" /\ exec'[e].id = c /\ exec'[e].request = r
      /\ \A f \in Execs \ {e} : exec'[f] = exec[f]
      /\ r \in Requests
  BY <1>1, ApprovalAssumption DEF TypeOK
<1>3. exec[e].at = "idle" /\ UNCHANGED <<row, sent, decision, granted, faults>>
  BY DEF Begin
<1>4. exec[e].id = NoCall /\ NoCall \notin CallIds
  BY <1>3, ApprovalAssumption DEF IdsAreGiven
<1>5. /\ Steady' \subseteq Steady
      /\ Steady \subseteq CallIds
      /\ \A b \in CallIds, q \in Requests \cup {NoRequest} :
           Dispatched(b, q) => Dispatched(b, q)'
  BY <1>2, <1>4 DEF Steady, Dispatched
<1>6. IdsAreGiven'
  BY <1>2 DEF IdsAreGiven
<1>7. RowsWereAsked'
  BY <1>3, <1>5 DEF RowsWereAsked, TypeOK, RowState
<1>8. ReadsWereAsked'
  BY <1>3, <1>5 DEF ReadsWereAsked, TypeOK, DecisionState
<1>9. ApprovedWasGranted'
  <2>. SUFFICES ASSUME NEW b \in Steady', row[b].status = "approved",
                       NEW f \in Execs, exec'[f].id = b
                PROVE  exec'[f].request \in granted[b]
    BY <1>3 DEF ApprovedWasGranted
  <2>1. PICK g \in Execs : exec[g].id = b
    BY <1>5 DEF RowsWereAsked, Dispatched
  <2>2. g # e /\ exec'[g] = exec[g]
    BY <1>2, <1>4, <1>5, <2>1
  <2>3. exec'[g].request = exec'[f].request
    BY <2>1, <2>2 DEF Steady
  <2>. QED BY <1>5, <2>1, <2>2, <2>3 DEF ApprovedWasGranted
<1>10. RowStillSays'
  BY <1>2, <1>3, <1>5 DEF RowStillSays, Running
<1>11. HeardStands'
  BY <1>2, <1>3 DEF HeardStands
<1>. QED BY <1>6, <1>7, <1>8, <1>9, <1>10, <1>11

-----------------------------------------------------------------------------
(***************************************************************************)
(* Types.                                                                  *)
(***************************************************************************)
LEMMA FaultType == ASSUME TypeOK, Fault PROVE faults' \in 0 .. MaxFaults
BY ApprovalAssumption DEF Fault, TypeOK

LEMMA GotoType ==
  ASSUME TypeOK, NEW e \in Execs, NEW step,
         step \in {"idle", "waiting", "lapsed", "verify", "revoke"} \cup Asking \cup Ended,
         Goto(e, step)
  PROVE  exec' \in [Execs -> ExecState]
BY DEF Goto, TypeOK, ExecState

LEMMA UpsertType ==
  ASSUME TypeOK, NEW e \in Execs, exec[e].id \in CallIds,
         NEW code \in Execs \cup {NoExec}, NEW past \in BOOLEAN,
         Upsert(exec[e].id, exec[e].request, code, past)
  PROVE  row' \in [CallIds -> RowState]
BY DEF Upsert, TypeOK, RowState, ExecState

LEMMA DecideType ==
  ASSUME TypeOK, NEW c \in CallIds, NEW verdict \in Decided, Decide(c, verdict)
  PROVE  row' \in [CallIds -> RowState]
BY DEF Decide, TypeOK, RowState, Decided

LEMMA ProceedType ==
  ASSUME ApprovalInv, NEW e \in Execs, Proceed(e)
  PROVE  TypeOK'
<1>. USE DEF ApprovalInv
<1>1. CASE exec[e].at = "idle"
  BY <1>1 DEF Proceed, Save, Look, Ask, StoreCode, Notify, PollDecision, PollExpired,
              Lapse, PollTimeout, GateFails, Verify, Revoke
<1>2. CASE exec[e].at # "idle"
  <2>0. /\ exec[e].id \in CallIds
        /\ row[exec[e].id].past \in BOOLEAN
        /\ exec[e].past \in BOOLEAN
        /\ (IF exec[e].request \in Critical THEN e ELSE NoExec) \in Execs \cup {NoExec}
        /\ NoExec \in Execs \cup {NoExec} /\ FALSE \in BOOLEAN
    BY <1>2 DEF IdsAreGiven, TypeOK, RowState, ExecState
  <2>1. CASE Save(e)
    BY <2>0, <2>1, FaultType, GotoType, UpsertType DEF Save, TypeOK, Asking
  <2>2. CASE Look(e)
    BY <2>2, FaultType, GotoType DEF Look, TypeOK, Asking, Ended, Refused
  <2>3. CASE Ask(e)
    <3>1. exec' \in [Execs -> ExecState]
      <4>1. CASE Goto(e, "limited")
        BY <4>1, GotoType DEF Ended, Refused
      <4>2. CASE exec' = [exec EXCEPT ![e].at = "store", ![e].past = row[exec[e].id].past]
        <5>1. \A x \in ExecState, b \in BOOLEAN :
                 [x EXCEPT !.at = "store", !.past = b] \in ExecState
          BY DEF ExecState, Asking
        <5>2. exec \in [Execs -> ExecState] /\ exec[e] \in ExecState
          BY DEF TypeOK
        <5>. QED BY <2>0, <4>2, <5>1, <5>2
      <4>. QED BY <2>3, <4>1, <4>2 DEF Ask
    <3>. QED BY <2>3, <3>1 DEF Ask, TypeOK
  <2>4. CASE StoreCode(e)
    BY <2>0, <2>4, FaultType, GotoType, UpsertType DEF StoreCode, TypeOK, Asking
  <2>5. CASE Notify(e)
    <3>1. exec' \in [Execs -> ExecState]
      <4>1. exec' = [exec EXCEPT ![e].at = "waiting", ![e].past = row[exec[e].id].past]
        BY <2>5 DEF Notify
      <4>2. \A x \in ExecState, b \in BOOLEAN :
               [x EXCEPT !.at = "waiting", !.past = b] \in ExecState
        BY DEF ExecState
      <4>3. exec \in [Execs -> ExecState] /\ exec[e] \in ExecState
        BY DEF TypeOK
      <4>. QED BY <2>0, <4>1, <4>2, <4>3
    <3>. QED BY <2>5, <3>1, FaultType DEF Notify, TypeOK
  <2>6. CASE PollDecision(e)
    BY <2>6, GotoType DEF PollDecision, TypeOK, Ended, Refused
  <2>7. CASE PollExpired(e)
    BY <2>0, <2>7, FaultType, GotoType, DecideType
    DEF PollExpired, TypeOK, Decided
  <2>8. CASE Lapse(e) \/ PollTimeout(e)
    BY <2>8, GotoType DEF Lapse, PollTimeout, TypeOK, Ended, Refused
  <2>9. CASE GateFails(e)
    BY <2>9, FaultType, GotoType DEF GateFails, TypeOK, Ended
  <2>10. CASE Verify(e)
    BY <2>10, FaultType, GotoType DEF Verify, TypeOK, Ended
  <2>11. CASE Revoke(e)
    <3>1. row' \in [CallIds -> RowState]
      <4>1. \A x \in RowState : [x EXCEPT !.status = "denied"] \in RowState
        BY DEF RowState
      <4>2. row \in [CallIds -> RowState] /\ row[exec[e].id] \in RowState
        BY <2>0 DEF TypeOK
      <4>. QED BY <2>11, <4>1, <4>2 DEF Revoke
    <3>2. faults' \in 0 .. MaxFaults
      BY <2>11, FaultType DEF Revoke, TypeOK
    <3>3. exec' \in [Execs -> ExecState]
      BY <2>11, GotoType DEF Revoke, Ended, Refused
    <3>. QED BY <2>11, <3>1, <3>2, <3>3 DEF Revoke, TypeOK
  <2>. QED BY <2>1, <2>2, <2>3, <2>4, <2>5, <2>6, <2>7, <2>8, <2>9, <2>10, <2>11
           DEF Proceed
<1>. QED BY <1>1, <1>2

LEMMA OthersType ==
  ASSUME ApprovalInv,
         \/ \E e \in Execs, c \in CallIds : Begin(e, c)
         \/ \E d \in Decisions, c \in CallIds, verdict \in {"approved", "denied"} :
              Read(d, c, verdict)
         \/ \E d \in Decisions : Conclude(d)
         \/ \E c \in CallIds : RowExpires(c)
         \/ \E e \in Execs : CopyExpires(e)
         \/ Crash
  PROVE  TypeOK'
<1>. USE DEF ApprovalInv
<1>1. ASSUME NEW e \in Execs, NEW c \in CallIds, Begin(e, c) PROVE TypeOK'
  <2>1. exec' \in [Execs -> ExecState]
    BY <1>1, ApprovalAssumption DEF Begin, TypeOK, ExecState, Asking
  <2>. QED BY <1>1, <2>1 DEF Begin, TypeOK
<1>2. ASSUME NEW d \in Decisions, NEW c \in CallIds,
             NEW verdict \in {"approved", "denied"}, Read(d, c, verdict)
      PROVE  TypeOK'
  <2>1. decision' \in [Decisions -> DecisionState]
    BY <1>2 DEF Read, TypeOK, DecisionState, RowState
  <2>. QED BY <1>2, <2>1 DEF Read, TypeOK
<1>3. ASSUME NEW d \in Decisions, Conclude(d) PROVE TypeOK'
  <2>1. decision' \in [Decisions -> DecisionState]
    BY <1>3 DEF Conclude, TypeOK, DecisionState
  <2>2. decision[d].id \in CallIds
    BY <1>3 DEF Conclude, ReadsWereAsked
  <2>3. decision[d].verdict \in Decided /\ decision[d].request \in Requests \cup {NoRequest}
    BY DEF TypeOK, DecisionState, Decided
  <2>4. row' \in [CallIds -> RowState]
    BY <1>3, <2>2, <2>3, DecideType DEF Conclude
  <2>5. Dispatched(decision[d].id, decision[d].request)
    BY <1>3 DEF Conclude, ReadsWereAsked
  <2>6. decision[d].request \in Requests
    BY <2>2, <2>5, ApprovalAssumption DEF Dispatched, IdsAreGiven
  <2>7. granted' \in [CallIds -> SUBSET Requests]
    BY <1>3, <2>2, <2>6 DEF Conclude, TypeOK
  <2>. QED BY <1>3, <2>1, <2>4, <2>7 DEF Conclude, TypeOK
<1>4. ASSUME NEW c \in CallIds, RowExpires(c) PROVE TypeOK'
  <2>1. row' \in [CallIds -> RowState]
    BY <1>4 DEF RowExpires, TypeOK, RowState
  <2>2. exec' \in [Execs -> ExecState]
    BY <1>4 DEF RowExpires, TypeOK, ExecState
  <2>. QED BY <1>4, <2>1, <2>2 DEF RowExpires, TypeOK
<1>5. ASSUME NEW e \in Execs, CopyExpires(e) PROVE TypeOK'
  <2>1. exec' \in [Execs -> ExecState]
    BY <1>5 DEF CopyExpires, TypeOK, ExecState
  <2>. QED BY <1>5, <2>1 DEF CopyExpires, TypeOK
<1>6. CASE Crash
  <2>1. exec' \in [Execs -> ExecState]
    BY <1>6 DEF Crash, TypeOK, ExecState, Ended
  <2>. QED BY <1>6, <2>1, FaultType DEF Crash, TypeOK
<1>. QED BY <1>1, <1>2, <1>3, <1>4, <1>5, <1>6

-----------------------------------------------------------------------------
(***************************************************************************)
(* The theorems.                                                           *)
(***************************************************************************)
LEMMA ApprovalInvInit == ASSUME Init PROVE ApprovalInv
<1>1. TypeOK
  BY ApprovalAssumption DEF Init, TypeOK, RowState, ExecState, DecisionState
<1>. QED BY <1>1 DEF Init, ApprovalInv, IdsAreGiven, RowsWereAsked, ReadsWereAsked,
                     ApprovedWasGranted, RowStillSays, HeardStands, Running, Steady

\* No step replaces a decision but by a denial.
LEMMA StepKeepsRows ==
  ASSUME ApprovalInv, Next, NEW c \in CallIds, row[c].status \in Decided
  PROVE  row'[c].status = row[c].status \/ row'[c].status = "denied"
<1>. USE DEF ApprovalInv
<1>1. ASSUME NEW b \in CallIds, NEW verdict, Decide(b, verdict)
      PROVE  row'[c] = row[c]
  BY <1>1 DEF Decide, Undecided, TypeOK, Decided
<1>2. ASSUME NEW b \in CallIds, NEW r, NEW code, NEW past, Upsert(b, r, code, past)
      PROVE  row'[c].status = row[c].status
  BY <1>2 DEF Upsert, TypeOK, RowState, Decided
<1>3. ASSUME NEW e \in Execs, Proceed(e)
      PROVE  row'[c].status = row[c].status \/ row'[c].status = "denied"
  <2>1. exec[e].id \in CallIds
    BY <1>3 DEF Proceed, Save, Look, Ask, StoreCode, Notify, PollDecision, PollExpired,
                Lapse, PollTimeout, GateFails, Verify, Revoke, IdsAreGiven
  <2>2. CASE Save(e) \/ StoreCode(e)
    BY <1>2, <2>1, <2>2 DEF Save, StoreCode
  <2>3. CASE PollExpired(e)
    BY <1>1, <2>1, <2>3 DEF PollExpired
  <2>4. CASE Revoke(e)
    BY <2>4 DEF Revoke, TypeOK, RowState
  <2>. QED BY <1>3, <2>2, <2>3, <2>4
           DEF Proceed, Look, Ask, Notify, PollDecision, Lapse, PollTimeout, GateFails, Verify
<1>4. ASSUME NEW d \in Decisions, Conclude(d) PROVE row'[c] = row[c]
  BY <1>1, <1>4 DEF Conclude, ReadsWereAsked
<1>5. ASSUME NEW b \in CallIds, RowExpires(b) PROVE row'[c].status = row[c].status
  BY <1>5 DEF RowExpires, TypeOK, RowState
<1>. QED BY <1>3, <1>4, <1>5 DEF Next, Begin, Read, CopyExpires, Crash

\* What every step but Begin does.
LEMMA StepIsSound ==
  ASSUME ApprovalInv, Next,
         ~ \E e \in Execs, c \in CallIds : Begin(e, c)
  PROVE  Sound
<1>1. ASSUME NEW e \in Execs, Proceed(e) PROVE Sound
  BY <1>1, SavePreserves, LookPreserves, AskPreserves, StoreCodePreserves,
     NotifyPreserves, PollDecisionPreserves, PollExpiredPreserves, LeavePreserves,
     VerifyPreserves, RevokePreserves DEF Proceed
<1>. QED BY <1>1, ReadPreserves, ConcludePreserves, TimePreserves, CrashPreserves DEF Next

LEMMA ApprovalInvNext == ASSUME ApprovalInv, [Next]_vars PROVE ApprovalInv'
<1>1. CASE UNCHANGED vars
  BY <1>1 DEF vars, ApprovalInv, TypeOK, IdsAreGiven, RowsWereAsked, ReadsWereAsked,
              ApprovedWasGranted, RowStillSays, HeardStands, Steady, Dispatched
<1>2. CASE Next
  <2>1. TypeOK'
    BY <1>2, ProceedType, OthersType DEF Next
  <2>2. CASE \E e \in Execs, c \in CallIds : Begin(e, c)
    BY <2>1, <2>2, BeginPreserves
  <2>3. CASE ~ \E e \in Execs, c \in CallIds : Begin(e, c)
    BY <1>2, <2>1, <2>3, StepIsSound, SoundPreserves
  <2>. QED BY <2>2, <2>3
<1>. QED BY <1>1, <1>2

\* The invariant holds of every state, and with it the types.
THEOREM ApprovalsInvariant == Spec => []ApprovalInv
<1>1. Init => ApprovalInv
  BY ApprovalInvInit
<1>2. ApprovalInv /\ [Next]_vars => ApprovalInv'
  BY ApprovalInvNext
<1>. QED BY <1>1, <1>2, PTL DEF Spec

\* Rows, executions, commands and grants are of their types, for every number
\* of executions, call ids, requests and commands.
THEOREM ApprovalsTypes == Spec => []TypeOK
BY ApprovalsInvariant, PTL DEF ApprovalInv

\* An execution that ran after the gate let it, by a decision it waited for or
\* by one taken earlier, had its request approved by the owner.
THEOREM ExecutionNeedsApproval == Spec => []ExecutedWereApproved
<1>1. ApprovalInv => ExecutedWereApproved
  BY DEF ApprovalInv, ExecutedWereApproved, RowStillSays, ApprovedWasGranted
<1>. QED BY <1>1, ApprovalsInvariant, PTL

\* Of two executions of one call, one does not run while the other was denied.
THEOREM ExecutionsAgree == Spec => []VerdictsAgree
<1>1. ApprovalInv => VerdictsAgree
  <2>. SUFFICES ASSUME ApprovalInv, NEW e \in Execs, NEW f \in Execs, Same(e, f),
                       exec[e].id \in Steady, exec[e].at \in Running,
                       exec[f].at = "denied"
                PROVE  FALSE
    BY DEF VerdictsAgree
  <2>. QED BY DEF ApprovalInv, RowStillSays, Same
<1>. QED BY <1>1, ApprovalsInvariant, PTL

\* A decision about a call is never replaced, except that an approval found by
\* an execution of another request is withdrawn.
THEOREM DecisionsStand == Spec => DecisionsAreFinal
<1>. DEFINE Stands == \A c \in CallIds :
       row[c].status \in {"approved", "denied", "expired"}
         => \/ row'[c].status = row[c].status
            \/ row'[c].status = "denied" /\ c \notin Steady
<1>1. ASSUME ApprovalInv, [Next]_vars
      PROVE  [Stands]_vars
  <2>1. CASE UNCHANGED vars
    BY <2>1
  <2>2. CASE \E e \in Execs, c \in CallIds : Begin(e, c)
    BY <2>2 DEF Begin
  <2>3. CASE Next /\ ~ \E e \in Execs, c \in CallIds : Begin(e, c)
    <3>1. \A c \in Steady : row[c].status \in Decided => row'[c].status = row[c].status
      BY <1>1, <2>3, StepIsSound DEF Sound, SoundRows
    <3>2. \A c \in CallIds \ Steady : row[c].status \in Decided =>
            row'[c].status = row[c].status \/ row'[c].status = "denied"
      BY <1>1, <2>3, StepKeepsRows
    <3>. QED BY <3>1, <3>2 DEF Decided
  <2>. QED BY <1>1, <2>1, <2>2, <2>3
<1>. QED BY <1>1, ApprovalsInvariant, PTL DEF Spec, DecisionsAreFinal

-----------------------------------------------------------------------------
(***************************************************************************)
(* The code of a pending critical request.                                 *)
(***************************************************************************)

\* What CodeInv says of a call id.
Reaches(c) ==
  \/ row[c].code \in sent
  \/ /\ row[c].code \in Execs
     /\ exec[row[c].code].id = c
     /\ exec[row[c].code].at = "notify"
  \/ /\ row[c].code = NoExec
     /\ \E f \in Execs : /\ exec[f].id = c
                        /\ exec[f].at \in {"look", "ask", "store", "limited"}

Exposed(c) == faults = 0 /\ row[c].status = "pending" /\ row[c].request \in Critical

\* A step that leaves the code, the request and the pending status of a row, and
\* the executions that hold it, leaves the code where it is.
LEMMA KeepsCode ==
  ASSUME NEW c \in CallIds, Reaches(c), sent \subseteq sent',
         row'[c].code = row[c].code,
         \A f \in Execs : exec[f].id = c => exec'[f].id = c,
         \A f \in Execs : exec[f].id = c /\ exec[f].at = "notify" =>
           exec'[f].at = "notify" \/ f \in sent',
         \A f \in Execs :
           exec[f].id = c /\ exec[f].at \in {"look", "ask", "store", "limited"} =>
             exec'[f].at \in {"look", "ask", "store", "limited"}
  PROVE  Reaches(c)'
BY DEF Reaches

\* A failure ends what CodeInv is about.
LEMMA FaultIsSeen == ASSUME TypeOK, Fault PROVE faults' # 0
BY ApprovalAssumption DEF TypeOK, Fault

LEMMA SaveReaches ==
  ASSUME ApprovalInv, CodeInv, NEW e \in Execs, Save(e), NEW c \in CallIds, Exposed(c)'
  PROVE  Reaches(c)'
<1>. USE DEF ApprovalInv
<1>1. /\ exec[e].at = "save" /\ exec[e].id \in CallIds
      /\ Goto(e, "look")
      /\ UNCHANGED <<sent, faults>>
      /\ Upsert(exec[e].id, exec[e].request, NoExec, FALSE)
  BY FaultIsSeen DEF Save, Exposed, IdsAreGiven
<1>2. /\ KeepsRequests
      /\ exec'[e].at = "look"
      /\ \A f \in Execs \ {e} : exec'[f] = exec[f]
  BY <1>1, GotoFacts
<1>3. CASE exec[e].id = c
  <2>1. row'[c].code = NoExec
    BY <1>1, <1>3 DEF Upsert, TypeOK
  <2>. QED BY <1>2, <1>3, <2>1 DEF Reaches, KeepsRequests
<1>4. CASE exec[e].id # c
  <2>1. row'[c] = row[c]
    BY <1>1, <1>4 DEF Upsert, TypeOK
  <2>2. Reaches(c)
    BY <1>1, <2>1 DEF CodeInv, Exposed, Reaches
  <2>. QED BY <1>1, <1>2, <1>4, <2>1, <2>2, KeepsCode DEF KeepsRequests
<1>. QED BY <1>3, <1>4

LEMMA StoreReaches ==
  ASSUME ApprovalInv, CodeInv, NEW e \in Execs, StoreCode(e), NEW c \in CallIds,
         Exposed(c)'
  PROVE  Reaches(c)'
<1>. USE DEF ApprovalInv
<1>1. /\ exec[e].at = "store" /\ exec[e].id \in CallIds
      /\ Goto(e, "notify")
      /\ UNCHANGED <<sent, faults>>
      /\ Upsert(exec[e].id, exec[e].request,
                IF exec[e].request \in Critical THEN e ELSE NoExec, exec[e].past)
  BY FaultIsSeen DEF StoreCode, Exposed, IdsAreGiven
<1>2. /\ KeepsRequests
      /\ exec'[e].at = "notify"
      /\ \A f \in Execs \ {e} : exec'[f] = exec[f]
  BY <1>1, GotoFacts
<1>3. CASE exec[e].id = c
  <2>1. /\ row'[c].request = exec[e].request
        /\ row'[c].code = IF exec[e].request \in Critical THEN e ELSE NoExec
    BY <1>1, <1>3 DEF Upsert, TypeOK
  <2>2. row'[c].code = e
    BY <2>1 DEF Exposed
  <2>. QED BY <1>2, <1>3, <2>2 DEF Reaches, KeepsRequests
<1>4. CASE exec[e].id # c
  <2>1. row'[c] = row[c]
    BY <1>1, <1>4 DEF Upsert, TypeOK
  <2>2. Reaches(c)
    BY <1>1, <2>1 DEF CodeInv, Exposed, Reaches
  <2>. QED BY <1>1, <1>2, <1>4, <2>1, <2>2, KeepsCode DEF KeepsRequests
<1>. QED BY <1>3, <1>4

\* An execution leaves the look at the row only for a row that was decided, or
\* to ask; one whose code is in the row is told to the owner first.
LEMMA LookReaches ==
  ASSUME ApprovalInv, CodeInv, NEW e \in Execs, Look(e), NEW c \in CallIds, Exposed(c)'
  PROVE  Reaches(c)'
<1>. USE DEF ApprovalInv
<1>1. exec[e].at = "look" /\ UNCHANGED <<row, sent, faults>>
  BY FaultIsSeen DEF Look, Exposed
<1>2. PICK step \in {"denied", "reuses", "ask"} :
        /\ Goto(e, step)
        /\ step = "denied" => row[exec[e].id].status = "denied"
        /\ step = "reuses" => row[exec[e].id].status = "approved"
  BY DEF Look, Reusable
<1>3. /\ KeepsRequests
      /\ exec'[e].at = step
      /\ \A f \in Execs \ {e} : exec'[f] = exec[f]
  BY <1>2, GotoFacts
<1>4. row[c].status = "pending" /\ Reaches(c)
  BY <1>1 DEF CodeInv, Exposed, Reaches
<1>5. exec[e].id = c => step = "ask"
  BY <1>2, <1>4
<1>. QED BY <1>1, <1>3, <1>4, <1>5, KeepsCode DEF KeepsRequests

LEMMA AskReaches ==
  ASSUME ApprovalInv, CodeInv, NEW e \in Execs, Ask(e), NEW c \in CallIds, Exposed(c)'
  PROVE  Reaches(c)'
<1>. USE DEF ApprovalInv
<1>1. exec[e].at = "ask" /\ UNCHANGED <<row, sent, faults>>
  BY DEF Ask
<1>2. /\ \A f \in Execs : exec'[f].id = exec[f].id
      /\ exec'[e].at \in {"limited", "store"}
      /\ \A f \in Execs \ {e} : exec'[f] = exec[f]
  BY DEF Ask, Goto, TypeOK, ExecState
<1>3. Reaches(c)
  BY <1>1 DEF CodeInv, Exposed, Reaches
<1>. QED BY <1>1, <1>2, <1>3, KeepsCode

LEMMA NotifyReaches ==
  ASSUME ApprovalInv, CodeInv, NEW e \in Execs, Notify(e), NEW c \in CallIds, Exposed(c)'
  PROVE  Reaches(c)'
<1>. USE DEF ApprovalInv
<1>1. /\ exec[e].at = "notify" /\ UNCHANGED <<row, faults>>
      /\ sent' = sent \cup {e}
  BY FaultIsSeen DEF Notify, Exposed
<1>2. /\ \A f \in Execs : exec'[f].id = exec[f].id
      /\ \A f \in Execs \ {e} : exec'[f] = exec[f]
  BY DEF Notify, TypeOK, ExecState
<1>3. Reaches(c)
  BY <1>1 DEF CodeInv, Exposed, Reaches
<1>. QED BY <1>1, <1>2, <1>3, KeepsCode

\* An execution past the notification has no part in it.
LEMMA PollReaches ==
  ASSUME ApprovalInv, CodeInv, NEW e \in Execs,
         \/ PollDecision(e) \/ PollExpired(e) \/ Lapse(e) \/ PollTimeout(e)
         \/ GateFails(e) \/ Verify(e) \/ Revoke(e),
         NEW c \in CallIds, Exposed(c)'
  PROVE  Reaches(c)'
<1>. USE DEF ApprovalInv
<1>1. /\ exec[e].at \in {"waiting", "lapsed", "verify", "revoke"} /\ exec[e].id \in CallIds
      /\ UNCHANGED <<sent, faults>>
  BY FaultIsSeen
  DEF PollDecision, PollExpired, Lapse, PollTimeout, GateFails, Verify, Revoke, Exposed,
      IdsAreGiven
<1>2. /\ KeepsRequests
      /\ \A f \in Execs \ {e} : exec'[f] = exec[f]
  <2>1. \E step : Goto(e, step)
    BY DEF PollDecision, PollExpired, Lapse, PollTimeout, GateFails, Verify, Revoke
  <2>. QED BY <2>1, GotoFacts
<1>3. row[c].status = "pending" /\ row'[c] = row[c]
  <2>1. CASE PollExpired(e)
    BY <1>1, <2>1 DEF PollExpired, Decide, Undecided, TypeOK, RowState, Exposed
  <2>2. CASE Revoke(e)
    BY <1>1, <2>2 DEF Revoke, TypeOK, RowState, Exposed
  <2>. QED BY <2>1, <2>2 DEF PollDecision, Lapse, PollTimeout, GateFails, Verify, Exposed
<1>4. Reaches(c)
  BY <1>1, <1>3 DEF CodeInv, Exposed, Reaches
<1>. QED BY <1>1, <1>2, <1>3, <1>4, KeepsCode DEF KeepsRequests

\* A decision ends what CodeInv is about, and time does not touch the code.
LEMMA OthersReach ==
  ASSUME ApprovalInv, CodeInv, NEW c \in CallIds, Exposed(c)',
         \/ \E e \in Execs, b \in CallIds : Begin(e, b)
         \/ \E d \in Decisions, b \in CallIds, verdict \in {"approved", "denied"} :
              Read(d, b, verdict)
         \/ \E d \in Decisions : Conclude(d)
         \/ \E b \in CallIds : RowExpires(b)
         \/ \E e \in Execs : CopyExpires(e)
         \/ Crash
  PROVE  Reaches(c)'
<1>. USE DEF ApprovalInv
<1>1. UNCHANGED <<sent, faults>>
  BY FaultIsSeen DEF Begin, Read, Conclude, RowExpires, CopyExpires, Crash, Exposed
<1>2. ~Crash
  BY FaultIsSeen DEF Crash, Exposed
<1>3. row[c].status = "pending" /\ row'[c].request = row[c].request
        /\ row'[c].code = row[c].code
  <2>1. ASSUME NEW d \in Decisions, Conclude(d)
        PROVE  row[c].status = "pending" /\ row'[c] = row[c]
    BY <2>1 DEF Conclude, Decide, Undecided, ReadsWereAsked, TypeOK, RowState,
                DecisionState, Exposed
  <2>2. ASSUME NEW b \in CallIds, RowExpires(b)
        PROVE  /\ row'[c].status = row[c].status
               /\ row'[c].request = row[c].request
               /\ row'[c].code = row[c].code
    BY <2>2 DEF RowExpires, TypeOK, RowState
  <2>. QED BY <1>2, <2>1, <2>2 DEF Begin, Read, CopyExpires, Exposed
<1>4. Reaches(c)
  BY <1>1, <1>3 DEF CodeInv, Exposed, Reaches
<1>5. \A f \in Execs : exec[f].at # "idle" =>
        exec'[f].id = exec[f].id /\ exec'[f].at = exec[f].at
  <2>1. ASSUME NEW e \in Execs, NEW b \in CallIds, Begin(e, b)
        PROVE  exec[e].at = "idle" /\ \A f \in Execs \ {e} : exec'[f] = exec[f]
    BY <2>1 DEF Begin, TypeOK
  <2>2. ASSUME NEW b \in CallIds, RowExpires(b)
        PROVE  \A f \in Execs : exec'[f].id = exec[f].id /\ exec'[f].at = exec[f].at
    BY <2>2 DEF RowExpires, TypeOK, ExecState
  <2>3. ASSUME NEW e \in Execs, CopyExpires(e)
        PROVE  \A f \in Execs : exec'[f].id = exec[f].id /\ exec'[f].at = exec[f].at
    BY <2>3 DEF CopyExpires, TypeOK, ExecState
  <2>. QED BY <1>2, <2>1, <2>2, <2>3 DEF Read, Conclude
<1>6. \A f \in Execs : exec[f].id = c => exec[f].at # "idle"
  BY ApprovalAssumption DEF IdsAreGiven
<1>. QED BY <1>1, <1>3, <1>4, <1>5, <1>6, KeepsCode

LEMMA CodeInvNext ==
  ASSUME ApprovalInv, CodeInv, [Next]_vars
  PROVE  CodeInv'
<1>1. CASE UNCHANGED vars
  BY <1>1 DEF vars, CodeInv
<1>2. CASE Next
  <2>. SUFFICES ASSUME NEW c \in CallIds, Exposed(c)'
                PROVE  Reaches(c)'
    BY DEF CodeInv, Exposed, Reaches
  <2>1. ASSUME NEW e \in Execs, Proceed(e) PROVE Reaches(c)'
    BY <2>1, SaveReaches, LookReaches, AskReaches, StoreReaches, NotifyReaches,
       PollReaches DEF Proceed
  <2>. QED BY <1>2, <2>1, OthersReach DEF Next
<1>. QED BY <1>1, <1>2

\* As long as nothing failed and no rate limit took it out again, the code that
\* the row of a waiting critical request expects is one the owner was sent.
THEOREM CodeReachesOwner == Spec => []WaitingHasItsCode
<1>1. Init => ApprovalInv /\ CodeInv
  BY ApprovalInvInit DEF Init, CodeInv
<1>2. (ApprovalInv /\ CodeInv) /\ [Next]_vars => (ApprovalInv /\ CodeInv)'
  BY ApprovalInvNext, CodeInvNext
<1>3. ApprovalInv /\ CodeInv => WaitingHasItsCode
  <2>. SUFFICES ASSUME ApprovalInv, CodeInv, NEW e \in Execs,
                       exec[e].at = "waiting",
                       exec[e].request \in Critical,
                       Undecided(exec[e].id),
                       exec[e].id \in Steady,
                       \A f \in Execs : Same(e, f) => exec[f].at \notin Asking \cup {"limited"},
                       faults = 0
                PROVE  row[exec[e].id].code \in sent
    BY DEF WaitingHasItsCode
  <2>1. exec[e].id \in CallIds
    BY DEF Steady
  <2>2. row[exec[e].id].request = exec[e].request
    BY <2>1 DEF ApprovalInv, RowsWereAsked, Dispatched, Undecided, Steady
  <2>. QED BY <2>1, <2>2 DEF CodeInv, Undecided, Asking, Same
<1>. QED BY <1>1, <1>2, <1>3, PTL DEF Spec

-----------------------------------------------------------------------------
(***************************************************************************)
(* Approvals implements ApprovalGate.                                      *)
(***************************************************************************)
GateStep == [Gate!Next]_(Gate!vars)

SameVerdicts == \A c \in CallIds : Verdict(c)' = Verdict(c)
SameOutcomes == \A e \in Execs : Outcome(e)' = Outcome(e)

LEMMA SameAsked ==
  ASSUME KeepsRequests
  PROVE  /\ [e \in Execs |-> exec'[e].id] = [e \in Execs |-> exec[e].id]
         /\ \A c \in CallIds : AskedFor(c)' = AskedFor(c)
BY DEF KeepsRequests, AskedFor

\* What the gate does not show.
LEMMA QuietGate ==
  ASSUME KeepsRequests, SameVerdicts, SameOutcomes
  PROVE  GateStep
BY SameAsked DEF SameVerdicts, SameOutcomes, GateStep, Gate!vars

\* A call that was asked for is decided.
LEMMA GateDecides ==
  ASSUME KeepsRequests, SameOutcomes, NEW c \in CallIds, AskedFor(c) # {},
         NEW v \in Decided, Verdict(c) = "open", Verdict(c)' = v,
         \A b \in CallIds \ {c} : Verdict(b)' = Verdict(b)
  PROVE  GateStep
<1>1. [b \in CallIds |-> Verdict(b)'] =
        [[b \in CallIds |-> Verdict(b)] EXCEPT ![c] = v]
  OBVIOUS
<1>2. Gate!Decide(c, v)
  BY <1>1, SameAsked DEF Gate!Decide, SameOutcomes
<1>. QED BY <1>2 DEF GateStep, Gate!Next, Decided

\* An execution comes out.
LEMMA GateComesOut ==
  ASSUME KeepsRequests, NEW e \in Execs, exec[e].id \in CallIds, NEW o,
         Outcome(e) = "none", Outcome(e)' = o,
         \A f \in Execs \ {e} : Outcome(f)' = Outcome(f)
  PROVE  Gate!ComesOut(e, o)
<1>1. [f \in Execs |-> Outcome(f)'] =
        [[f \in Execs |-> Outcome(f)] EXCEPT ![e] = o]
  OBVIOUS
<1>. QED BY <1>1, SameAsked DEF Gate!ComesOut

\* A call id that is not steady came with two requests.
LEMMA UnsteadyIsContested ==
  ASSUME NEW c \in CallIds \ Steady
  PROVE  Gate!Contested(c)
BY DEF Steady, Gate!Contested, AskedFor

\* An execution that goes on, and does not come out.
LEMMA QuietGoto ==
  ASSUME KeepsRequests, NEW e \in Execs,
         exec[e].at \notin Running \cup {"denied", "unguarded"},
         exec'[e].at \notin Running \cup {"denied", "unguarded"},
         \A f \in Execs \ {e} : exec'[f] = exec[f]
  PROVE  SameOutcomes
BY DEF SameOutcomes, Outcome

LEMMA StoringIsQuiet ==
  ASSUME ApprovalInv, NEW e \in Execs, Save(e) \/ StoreCode(e)
  PROVE  GateStep
<1>1. exec[e].at \in {"save", "store"} /\ \E step \in {"look", "notify"} : Goto(e, step)
  BY DEF Save, StoreCode
<1>2. exec[e].id \in CallIds
  BY <1>1 DEF ApprovalInv, IdsAreGiven
<1>3. KeepsRequests /\ SameOutcomes
  BY <1>1, GotoFacts, QuietGoto DEF ApprovalInv, Running
<1>4. \A r, code, past : Upsert(exec[e].id, r, code, past) => SameVerdicts
  BY <1>2 DEF ApprovalInv, TypeOK, RowState, Upsert, SameVerdicts, Verdict
<1>5. row' = row => SameVerdicts
  BY DEF SameVerdicts, Verdict
<1>. QED BY <1>3, <1>4, <1>5, QuietGate DEF Save, StoreCode

\* An execution looks, or polls, or is done with that.
LEMMA ReadingIsQuiet ==
  ASSUME ApprovalInv, NEW e \in Execs,
         exec[e].at \in Asking \cup {"waiting", "lapsed", "verify", "revoke"},
         UNCHANGED row, NEW step, Goto(e, step),
         step \in Running =>
           row[exec[e].id].status = "approved" \/ exec[e].at \in {"verify", "revoke"},
         step = "denied" => row[exec[e].id].status = "denied"
  PROVE  GateStep
<1>1. /\ KeepsRequests
      /\ exec'[e].at = step
      /\ \A f \in Execs \ {e} : exec'[f] = exec[f]
  BY GotoFacts DEF ApprovalInv
<1>2. exec[e].id \in CallIds
  BY DEF ApprovalInv, IdsAreGiven, Asking
<1>3. SameVerdicts /\ \A f \in Execs \ {e} : Outcome(f)' = Outcome(f)
  BY <1>1 DEF SameVerdicts, Verdict, Outcome
<1>4. exec[e].at \notin Running \cup {"denied", "unguarded"} /\ Outcome(e) = "none"
  BY DEF Outcome, Running, Asking
<1>5. CASE step \in Running
  <2>1. Outcome(e)' = "runs"
    BY <1>1, <1>5 DEF Outcome, Running
  <2>2. \/ Verdict(exec[e].id) = "approved"
        \/ Verdict(exec[e].id) = "denied" /\ exec[e].id \notin Steady
    BY <1>5 DEF ApprovalInv, HeardStands, RowStillSays, Verdict
  <2>3. Gate!Run(e)
    BY <1>1, <1>2, <1>3, <1>4, <2>1, <2>2, GateComesOut, UnsteadyIsContested
    DEF Gate!Run, SameVerdicts
  <2>. QED BY <2>3 DEF GateStep, Gate!Next
<1>6. CASE step = "denied"
  <2>1. Outcome(e)' = "denied" /\ Verdict(exec[e].id) = "denied"
    BY <1>1, <1>6 DEF Outcome, Verdict, Running
  <2>2. Gate!Deny(e)
    BY <1>1, <1>2, <1>3, <1>4, <2>1, GateComesOut DEF Gate!Deny, SameVerdicts
  <2>. QED BY <2>2 DEF GateStep, Gate!Next
<1>7. CASE step = "unguarded"
  <2>1. Outcome(e)' = "unguarded"
    BY <1>1, <1>7 DEF Outcome, Running
  <2>2. Gate!Bypass(e)
    BY <1>1, <1>2, <1>3, <1>4, <2>1, GateComesOut DEF Gate!Bypass, SameVerdicts
  <2>. QED BY <2>2 DEF GateStep, Gate!Next
<1>8. CASE step \notin Running \cup {"denied", "unguarded"}
  <2>1. SameOutcomes
    BY <1>1, <1>4, <1>8, QuietGoto
  <2>. QED BY <1>1, <1>3, <2>1, QuietGate
<1>. QED BY <1>5, <1>6, <1>7, <1>8

\* Only the approval of a contested call is withdrawn.
LEMMA RevokeIsOfGate ==
  ASSUME ApprovalInv, NEW e \in Execs, Revoke(e)
  PROVE  GateStep
<1>1. exec[e].at = "revoke"
  BY DEF Revoke
<1>2. PICK c \in CallIds \ Steady :
        /\ c = exec[e].id
        /\ row[c].status \in {"approved", "denied"}
  BY <1>1 DEF ApprovalInv, IdsAreGiven, RowStillSays, HeardStands
<1>3. CASE Goto(e, "runs") /\ UNCHANGED row
  BY <1>1, <1>3, ReadingIsQuiet
<1>4. ASSUME Goto(e, "denied"),
             UNCHANGED row \/ row' = [row EXCEPT ![c].status = "denied"]
      PROVE  GateStep
  <2>1. /\ KeepsRequests
        /\ exec'[e].at = "denied"
        /\ \A f \in Execs \ {e} : exec'[f] = exec[f]
    BY <1>4, GotoFacts DEF ApprovalInv
  <2>2. Gate!ComesOut(e, "denied")
    <3>1. Outcome(e) = "none" /\ Outcome(e)' = "denied"
      BY <1>1, <2>1 DEF Outcome, Running
    <3>2. \A f \in Execs \ {e} : Outcome(f)' = Outcome(f)
      BY <2>1 DEF Outcome
    <3>. QED BY <1>2, <2>1, <3>1, <3>2, GateComesOut
  <2>3. Verdict(c) = row[c].status
    BY <1>2 DEF Verdict
  <2>4. CASE SameVerdicts
    <3>1. [b \in CallIds |-> Verdict(b)'] = [b \in CallIds |-> Verdict(b)]
      BY <2>4 DEF SameVerdicts
    <3>2. Gate!Deny(e)
      BY <1>2, <2>2, <2>3, <3>1, UnsteadyIsContested DEF Gate!Deny
    <3>. QED BY <3>2 DEF GateStep, Gate!Next
  <2>5. CASE row' = [row EXCEPT ![c].status = "denied"] /\ row[c].status = "approved"
    <3>1. /\ Verdict(c)' = "denied"
          /\ \A b \in CallIds \ {c} : Verdict(b)' = Verdict(b)
      BY <1>2, <2>5 DEF ApprovalInv, TypeOK, RowState, Verdict
    <3>2. [b \in CallIds |-> Verdict(b)'] =
            [[b \in CallIds |-> Verdict(b)] EXCEPT ![c] = "denied"]
      BY <3>1
    <3>3. Gate!Deny(e)
      BY <1>2, <2>2, <2>3, <2>5, <3>2, UnsteadyIsContested DEF Gate!Deny
    <3>. QED BY <3>3 DEF GateStep, Gate!Next
  <2>6. UNCHANGED row => SameVerdicts
    BY DEF SameVerdicts, Verdict
  <2>7. row' = [row EXCEPT ![c].status = "denied"] /\ row[c].status = "denied"
          => SameVerdicts
    BY <1>2 DEF ApprovalInv, TypeOK, RowState, SameVerdicts, Verdict
  <2>. QED BY <1>2, <1>4, <2>4, <2>5, <2>6, <2>7
<1>. QED BY <1>2, <1>3, <1>4 DEF Revoke

\* A statement that decides a row decides the call, if nobody has.
LEMMA DecidingIsDeciding ==
  ASSUME ApprovalInv, KeepsRequests, SameOutcomes, NEW c \in CallIds,
         NEW v \in Decided, Decide(c, v), AskedFor(c) # {}
  PROVE  GateStep
<1>1. CASE Undecided(c)
  <2>1. /\ Verdict(c) = "open" /\ Verdict(c)' = v
        /\ \A b \in CallIds \ {c} : Verdict(b)' = Verdict(b)
    BY <1>1 DEF Decide, Undecided, Verdict, ApprovalInv, TypeOK, RowState, Decided
  <2>. QED BY <2>1, GateDecides
<1>2. CASE ~Undecided(c)
  <2>1. SameVerdicts
    BY <1>2 DEF Decide, SameVerdicts, Verdict
  <2>. QED BY <2>1, QuietGate
<1>. QED BY <1>1, <1>2

LEMMA ExpiringIsDeciding ==
  ASSUME ApprovalInv, NEW e \in Execs, PollExpired(e)
  PROVE  GateStep
<1>1. exec[e].at = "waiting" /\ Goto(e, "lapsed")
  BY DEF PollExpired
<1>2. KeepsRequests /\ SameOutcomes
  BY <1>1, GotoFacts, QuietGoto DEF ApprovalInv, Running
<1>3. exec[e].id \in CallIds /\ AskedFor(exec[e].id) # {}
  BY <1>1 DEF ApprovalInv, IdsAreGiven, AskedFor
<1>4. CASE Decide(exec[e].id, "expired")
  BY <1>2, <1>3, <1>4, DecidingIsDeciding DEF Decided
<1>5. CASE UNCHANGED row
  <2>1. SameVerdicts
    BY <1>5 DEF SameVerdicts, Verdict
  <2>. QED BY <1>2, <2>1, QuietGate
<1>. QED BY <1>4, <1>5 DEF PollExpired

LEMMA ConcludingIsDeciding ==
  ASSUME ApprovalInv, NEW d \in Decisions, Conclude(d)
  PROVE  GateStep
<1>1. /\ decision[d].id \in CallIds /\ AskedFor(decision[d].id) # {}
      /\ decision[d].verdict \in Decided
      /\ Decide(decision[d].id, decision[d].verdict)
      /\ UNCHANGED exec
  BY DEF Conclude, ApprovalInv, ReadsWereAsked, Dispatched, AskedFor, TypeOK,
         DecisionState, Decided
<1>2. KeepsRequests /\ SameOutcomes
  BY <1>1 DEF KeepsRequests, SameOutcomes, Outcome
<1>. QED BY <1>1, <1>2, DecidingIsDeciding

\* A dispatch asks for its request.
LEMMA BeginIsDispatch ==
  ASSUME ApprovalInv, NEW e \in Execs, NEW c \in CallIds, Begin(e, c)
  PROVE  GateStep
<1>. USE DEF ApprovalInv
<1>1. PICK r \in RequestsOf[c] :
        exec' = [exec EXCEPT ![e] = [at |-> "save", id |-> c, request |-> r,
                                     past |-> FALSE]]
  BY DEF Begin
<1>2. /\ exec'[e].at = "save" /\ exec'[e].id = c /\ exec'[e].request = r
      /\ \A f \in Execs \ {e} : exec'[f] = exec[f]
      /\ r \in Requests
  BY <1>1, ApprovalAssumption DEF TypeOK
<1>3. exec[e].at = "idle" /\ exec[e].id = NoCall /\ NoCall \notin CallIds /\ UNCHANGED row
  BY ApprovalAssumption DEF Begin, IdsAreGiven
<1>4. SameVerdicts /\ SameOutcomes
  BY <1>2, <1>3 DEF SameVerdicts, SameOutcomes, Verdict, Outcome, Running
<1>5. [f \in Execs |-> exec'[f].id] = [[f \in Execs |-> exec[f].id] EXCEPT ![e] = c]
  BY <1>2
<1>6. [b \in CallIds |-> AskedFor(b)'] =
        [[b \in CallIds |-> AskedFor(b)] EXCEPT ![c] = @ \cup {r}]
  <2>1. AskedFor(c)' = AskedFor(c) \cup {r}
    BY <1>2, <1>3 DEF AskedFor
  <2>2. \A b \in CallIds \ {c} : AskedFor(b)' = AskedFor(b)
    BY <1>2, <1>3 DEF AskedFor
  <2>. QED BY <2>1, <2>2
<1>7. Gate!Dispatch(e, c, r)
  BY <1>3, <1>4, <1>5, <1>6 DEF Gate!Dispatch, SameVerdicts, SameOutcomes
<1>. QED BY <1>2, <1>7 DEF GateStep, Gate!Next

LEMMA OthersAreQuiet ==
  ASSUME ApprovalInv,
         \/ \E e \in Execs : Ask(e) \/ Notify(e) \/ CopyExpires(e)
         \/ \E d \in Decisions, c \in CallIds, verdict \in {"approved", "denied"} :
              Read(d, c, verdict)
         \/ \E c \in CallIds : RowExpires(c)
         \/ Crash
         \/ UNCHANGED vars
  PROVE  GateStep
<1>1. /\ row \in [CallIds -> RowState] /\ exec \in [Execs -> ExecState]
  BY DEF ApprovalInv, TypeOK
<1>2. /\ SameVerdicts
      /\ \A e \in Execs : /\ exec'[e].id = exec[e].id
                          /\ exec'[e].request = exec[e].request
                          /\ \/ exec'[e].at = exec[e].at
                             \/ /\ exec[e].at \notin Running \cup {"denied", "unguarded"}
                                /\ exec'[e].at \notin Running \cup {"denied", "unguarded"}
  <2>. USE DEF SameVerdicts, Verdict, Running
  <2>1. ASSUME NEW e \in Execs, Ask(e) \/ Notify(e) \/ CopyExpires(e)  PROVE <1>2!:
    BY <1>1, <2>1 DEF Ask, Notify, CopyExpires, Goto, ExecState
  <2>2. ASSUME NEW c \in CallIds, RowExpires(c)  PROVE <1>2!:
    BY <1>1, <2>2 DEF RowExpires, RowState, ExecState
  <2>3. CASE Crash
    BY <1>1, <2>3 DEF Crash, ExecState, Ended, Refused
  <2>. QED BY <2>1, <2>2, <2>3 DEF Read, vars
<1>3. KeepsRequests /\ SameOutcomes
  BY <1>2 DEF KeepsRequests, SameOutcomes, Outcome
<1>. QED BY <1>2, <1>3, QuietGate

LEMMA StepIsOfGate == ASSUME ApprovalInv, [Next]_vars  PROVE GateStep
<1>1. ASSUME NEW e \in Execs, Look(e)  PROVE GateStep
  <2>1. PICK step : /\ Goto(e, step)
                    /\ step \in {"denied", "reuses", "ask"}
                    /\ step = "reuses" => row[exec[e].id].status = "approved"
                    /\ step = "denied" => row[exec[e].id].status = "denied"
    BY <1>1 DEF Look, Reusable
  <2>. QED BY <1>1, <2>1, ReadingIsQuiet DEF Look, Running, Asking
<1>2. ASSUME NEW e \in Execs, PollDecision(e)  PROVE GateStep
  <2>1. PICK step \in {"verify", "denied", "expired"} :
          Goto(e, step) /\ (step = "denied" => row[exec[e].id].status = "denied")
    BY <1>2 DEF PollDecision
  <2>. QED BY <1>2, <2>1, ReadingIsQuiet DEF PollDecision, Running
<1>3. ASSUME NEW e \in Execs, Lapse(e) \/ PollTimeout(e) \/ GateFails(e)  PROVE GateStep
  <2>1. /\ exec[e].at \in Asking \cup {"waiting", "lapsed"} /\ UNCHANGED row
        /\ \E step \in {"expired", "timeout", "unguarded"} : Goto(e, step)
    BY <1>3 DEF Lapse, PollTimeout, GateFails, Asking
  <2>. QED BY <2>1, ReadingIsQuiet DEF Running
<1>4. ASSUME NEW e \in Execs, Verify(e)  PROVE GateStep
  <2>1. PICK step \in {"runs", "revoke"} : Goto(e, step)
    BY <1>4 DEF Verify
  <2>. QED BY <1>4, <2>1, ReadingIsQuiet DEF Verify
<1>5. ASSUME NEW e \in Execs, Proceed(e)  PROVE GateStep
  BY <1>1, <1>2, <1>3, <1>4, <1>5, StoringIsQuiet, OthersAreQuiet, ExpiringIsDeciding,
     RevokeIsOfGate DEF Proceed
<1>. QED BY <1>5, BeginIsDispatch, ConcludingIsDeciding, OthersAreQuiet DEF Next

\* The gate decides a call once, for every number of executions, call ids,
\* requests and commands of the owner: what runs was approved, what is refused as
\* denied was denied, and an approval is withdrawn, or used although withdrawn,
\* only under a call id that came with two requests.
THEOREM ApprovalsKeepGate == Spec => KeepsGate
<1>1. Init => Gate!Init
  <2>1. ASSUME Init
        PROVE  /\ \A c \in CallIds : Verdict(c) = "open" /\ AskedFor(c) = {}
               /\ \A e \in Execs : Outcome(e) = "none" /\ exec[e].id = NoCall
    BY <2>1, ApprovalAssumption DEF Init, Verdict, AskedFor, Outcome, Running
  <2>. QED BY <2>1 DEF Gate!Init
<1>2. ApprovalInv /\ [Next]_vars => GateStep
  BY StepIsOfGate
<1>. QED BY <1>1, <1>2, ApprovalsInvariant, PTL
         DEF Spec, KeepsGate, Gate!Spec, GateStep
=============================================================================
