--------------------------- MODULE CoreRunProofs ----------------------------
(***************************************************************************)
(* CoreRun for any number of runs, users, identities, keys, requests and   *)
(* links: RunInv is inductive, and the steps of CoreRun are steps of       *)
(* RunContract or leave its variables alone.                               *)
(***************************************************************************)
EXTENDS CoreRun, TLAPS

-----------------------------------------------------------------------------
(***************************************************************************)
(* Steps of requests and links.                                            *)
(***************************************************************************)

\* The rows do not change.
LEMMA SameRows ==
  ASSUME RowsAreUnique, UNCHANGED <<rows, pc>>
  PROVE  RowsAreUnique'
BY DEF RowsAreUnique, Matches, rows

\* Nor does what is known of the runs.
LEMMA SameRuns ==
  ASSUME RunInv, UNCHANGED <<status, pc, told, answers, unconfirmed, faults>>
  PROVE  /\ (unconfirmed \subseteq answers)'
         /\ \A r \in Runs : LabelTells(r)'
         /\ AnswerIsNotAnError'
         /\ EndsAgree'
BY DEF RunInv, LabelTells, Unanswered, Failing, AnswerIsNotAnError, EndsAgree

LEMMA SameRequests ==
  ASSUME RequestsAreCurrent, UNCHANGED <<post, raced, identity, rows>>
  PROVE  RequestsAreCurrent'
BY DEF RequestsAreCurrent, rows

LEMMA SameLinks == ASSUME LinksAreGiven, UNCHANGED link PROVE LinksAreGiven'
BY DEF LinksAreGiven

\* The types that a step of a request can disturb.
LEMMA PostsType ==
  ASSUME TypeOK, UNCHANGED postsOnly, post' \in [Posts -> PostState]
  PROVE  TypeOK'
BY DEF TypeOK, postsOnly, rows, task

\* The records a request goes through.
LEMMA PostAnswers ==
  ASSUME NEW w \in PostState, NEW r \in Runs
  PROVE  LET v == [w EXCEPT !.step = "answered", !.user = NoUser, !.run = r]
         IN  v \in PostState /\ v.step = "answered" /\ v.run = r /\ v.id = w.id /\ v.key = w.key
BY DEF PostState, PostSteps

LEMMA PostEnds ==
  ASSUME NEW w \in PostState, NEW step \in {"refused", "lost"}
  PROVE  LET v == [w EXCEPT !.step = step, !.user = NoUser]
         IN  v \in PostState /\ v.step = step /\ v.id = w.id /\ v.key = w.key
BY DEF PostState, PostSteps

LEMMA LinkGoesOn ==
  ASSUME NEW w \in LinkState, NEW step \in LinkSteps
  PROVE  LET v == [w EXCEPT !.step = step]
         IN  /\ v \in LinkState /\ v.step = step
             /\ v.from = w.from /\ v.to = w.to /\ v.code = w.code
BY DEF LinkState

LEMMA PostMoves ==
  ASSUME TypeOK, NEW p \in Posts, NEW v \in PostState, post' = [post EXCEPT ![p] = v]
  PROVE  /\ post' \in [Posts -> PostState]
         /\ post'[p] = v
         /\ \A q \in Posts \ {p} : post'[q] = post[q]
BY DEF TypeOK

\* The answer to a request.
LEMMA AnswerFacts ==
  ASSUME TypeOK, NEW p \in Posts, NEW r \in Runs, Answer(p, r)
  PROVE  /\ post' \in [Posts -> PostState]
         /\ post'[p].step = "answered" /\ post'[p].run = r
         /\ post'[p].id = post[p].id /\ post'[p].key = post[p].key
         /\ \A q \in Posts \ {p} : post'[q] = post[q]
<1>. DEFINE v == [post[p] EXCEPT !.step = "answered", !.user = NoUser, !.run = r]
<1>1. /\ v \in PostState
      /\ v.step = "answered" /\ v.run = r /\ v.id = post[p].id /\ v.key = post[p].key
  <2>1. post[p] \in PostState
    BY DEF TypeOK
  <2>. QED BY <2>1, PostAnswers
<1>2. post' = [post EXCEPT ![p] = v]
  BY DEF Answer, TypeOK
<1>. HIDE DEF v
<1>. QED BY <1>1, <1>2, PostMoves

LEMMA ResolvePreserves ==
  ASSUME RunInv, NEW p \in Posts, NEW i \in Ids, NEW k \in Keys, Resolve(p, i, k)
  PROVE  RunInv'
<1>. USE DEF RunInv
<1>1. /\ post' = [post EXCEPT ![p].step = "resolved", ![p].id = i, ![p].key = k,
                              ![p].user = identity[i]]
      /\ UNCHANGED postsOnly
  BY DEF Resolve
<1>. DEFINE v == [post[p] EXCEPT !.step = "resolved", !.id = i, !.key = k,
                                 !.user = identity[i]]
<1>a. /\ v \in PostState
      /\ v.step = "resolved" /\ v.id = i /\ v.key = k /\ v.user = identity[i]
  <2>1. post[p] \in PostState /\ identity[i] \in Users
    BY DEF TypeOK
  <2>. HIDE DEF RunInv
  <2>. QED BY <2>1 DEF PostState, PostSteps
<1>b. post' = [post EXCEPT ![p] = v]
  BY <1>1 DEF TypeOK
<1>. HIDE DEF v
<1>2. TypeOK'
  BY <1>1, <1>a, <1>b, PostMoves, PostsType
<1>3. /\ post'[p].step = "resolved" /\ post'[p].id = i /\ post'[p].key = k
      /\ post'[p].user = identity[i]
      /\ \A q \in Posts \ {p} : post'[q] = post[q]
  BY <1>a, <1>b, PostMoves
<1>4. RequestsAreCurrent'
  BY <1>1, <1>3 DEF RequestsAreCurrent, TypeOK, postsOnly, rows
<1>. QED BY <1>1, <1>2, <1>4, SameRows, SameRuns, SameLinks DEF postsOnly, rows

LEMMA CheckPreserves ==
  ASSUME RunInv, NEW p \in Posts, Check(p)
  PROVE  RunInv'
<1>. USE DEF RunInv
<1>1. post[p].step = "resolved" /\ UNCHANGED postsOnly
  BY DEF Check
<1>2. CASE post' = [post EXCEPT ![p].step = "checked"]
  <2>0. [post[p] EXCEPT !.step = "checked"] \in PostState
    BY DEF TypeOK, PostState, PostSteps
  <2>1. TypeOK'
    BY <1>1, <1>2, <2>0, PostsType DEF TypeOK
  <2>2. /\ post'[p] = [post[p] EXCEPT !.step = "checked"]
        /\ \A q \in Posts \ {p} : post'[q] = post[q]
    BY <1>2 DEF TypeOK
  <2>3. RequestsAreCurrent'
    BY <1>1, <2>2 DEF RequestsAreCurrent, TypeOK, PostState, postsOnly, rows
  <2>. QED BY <1>1, <2>1, <2>3, SameRows, SameRuns, SameLinks DEF postsOnly, rows
<1>3. ASSUME NEW r \in Known(post[p].user, post[p].key), Answer(p, r)
      PROVE  RunInv'
  <2>1. r \in Runs /\ status[r] # "none" /\ owner[r] = post[p].user /\ keyOf[r] = post[p].key
    BY DEF Known, Matches
  <2>2. TypeOK'
    BY <1>1, <1>3, <2>1, AnswerFacts, PostsType
  <2>3. /\ post'[p].step = "answered" /\ post'[p].run = r
        /\ post'[p].id = post[p].id /\ post'[p].key = post[p].key
        /\ \A q \in Posts \ {p} : post'[q] = post[q]
    BY <1>3, <2>1, AnswerFacts
  <2>4. RequestsAreCurrent'
    BY <1>1, <2>1, <2>3 DEF RequestsAreCurrent, postsOnly, rows
  <2>. QED BY <1>1, <2>2, <2>4, SameRows, SameRuns, SameLinks DEF postsOnly, rows
<1>. QED BY <1>2, <1>3 DEF Check

\* A new run is one that no request was answered with, and the only one of its
\* user under its key.
LEMMA CreatePreserves ==
  ASSUME RunInv, NEW p \in Posts, Create(p)
  PROVE  RunInv'
<1>. USE DEF RunInv
<1>1. /\ post[p].step = "checked"
      /\ UNCHANGED <<identity, codes, answers, link, task, told, unconfirmed, raced, down>>
  BY DEF Create
<1>2. /\ post[p].id \in Ids /\ post[p].key \in Keys /\ post[p].user \in Users
      /\ post[p].id \notin raced => post[p].user = identity[post[p].id]
  BY <1>1 DEF RequestsAreCurrent
<1>3. ASSUME Refuse(p)
      PROVE  /\ post' \in [Posts -> PostState]
             /\ post'[p].step = "refused"
             /\ post'[p].id = post[p].id /\ post'[p].key = post[p].key
             /\ \A q \in Posts \ {p} : post'[q] = post[q]
  <2>. DEFINE v == [post[p] EXCEPT !.step = "refused", !.user = NoUser]
  <2>a. v \in PostState /\ v.step = "refused" /\ v.id = post[p].id /\ v.key = post[p].key
    <3>1. post[p] \in PostState
      BY DEF TypeOK
    <3>. QED BY <3>1, PostEnds
  <2>b. post' = [post EXCEPT ![p] = v]
    BY <1>3 DEF TypeOK, Refuse
  <2>. HIDE DEF v
  <2>. QED BY <2>a, <2>b, PostMoves
<1>4. faults' \in 0 .. MaxFaults /\ faults' >= faults
  BY CoreAssumption DEF Create, OneMoreFault, TypeOK
<1>5. CASE Refuse(p) /\ UNCHANGED <<rows, pc>>
  <2>1. TypeOK'
    BY <1>1, <1>3, <1>4, <1>5 DEF TypeOK, rows, task
  <2>2. RequestsAreCurrent'
    <3>1. UNCHANGED <<status, owner, keyOf, identity, raced>>
      BY <1>1, <1>5 DEF rows
    <3>. QED BY <1>2, <1>3, <1>5, <3>1 DEF RequestsAreCurrent
  <2>3. /\ \A r \in Runs : LabelTells(r)'
        /\ AnswerIsNotAnError' /\ EndsAgree'
    BY <1>1, <1>4, <1>5, CoreAssumption
    DEF rows, TypeOK, LabelTells, Unanswered, Failing, AnswerIsNotAnError, EndsAgree
  <2>. QED BY <1>1, <1>5, <2>1, <2>2, <2>3, SameRows, SameLinks DEF rows
<1>6. ASSUME Matches(post[p].user, post[p].key) = {},
             NEW r \in Runs, NEW label \in {"scheduled", "dead"}, Insert(p, r, label),
             post' \in [Posts -> PostState],
             post'[p].id = post[p].id, post'[p].key = post[p].key,
             \/ post'[p].step = "answered" /\ post'[p].run = r
             \/ post'[p].step = "refused",
             \A q \in Posts \ {p} : post'[q] = post[q]
      PROVE  RunInv'
  <2>0. /\ status[r] = "none"
        /\ status' = [status EXCEPT ![r] = "queued"]
        /\ owner' = [owner EXCEPT ![r] = post[p].user]
        /\ keyOf' = [keyOf EXCEPT ![r] = post[p].key]
        /\ pc' = [pc EXCEPT ![r] = label]
    BY <1>6 DEF Insert
  <2>1. TypeOK'
    BY <1>1, <1>2, <1>4, <1>6, <2>0 DEF TypeOK, Labels, Ended, task
  <2>3. /\ status'[r] = "queued" /\ owner'[r] = post[p].user
        /\ keyOf'[r] = post[p].key /\ pc'[r] = label
        /\ \A s \in Runs \ {r} : /\ status'[s] = status[s] /\ owner'[s] = owner[s]
                                 /\ keyOf'[s] = keyOf[s] /\ pc'[s] = pc[s]
    BY <2>0 DEF TypeOK
  <2>4. RequestsAreCurrent'
    BY <1>1, <1>2, <1>6, <2>0, <2>3 DEF RequestsAreCurrent
  <2>5. RowsAreUnique'
    <3>1. ASSUME NEW u \in Users, NEW k \in Keys,
                 NEW s \in Matches(u, k)', NEW t \in Matches(u, k)'
          PROVE  s = t
      <4>1. ASSUME NEW q \in Matches(u, k)' PROVE q = r \/ q \in Matches(u, k)
        BY <2>3, <4>1 DEF Matches
      <4>2. r \in Matches(u, k)' => u = post[p].user /\ k = post[p].key
        BY <2>3 DEF Matches
      <4>. QED BY <1>6, <4>1, <4>2 DEF RowsAreUnique
    <3>2. \A s \in Runs : status'[s] = "none" <=> pc'[s] = "none"
      BY <2>3 DEF RowsAreUnique
    <3>3. \A s \in Runs : status'[s] # "none" => owner'[s] \in Users /\ keyOf'[s] \in Keys
      BY <1>2, <2>3 DEF RowsAreUnique
    <3>. QED BY <3>1, <3>2, <3>3 DEF RowsAreUnique
  <2>6. pc[r] = "none" /\ Unanswered(r)
    BY <2>0 DEF RowsAreUnique, LabelTells
  <2>7. /\ UNCHANGED <<answers, unconfirmed, told>>
        /\ faults > 0 => faults' > 0
    BY <1>1, <1>4, CoreAssumption DEF TypeOK
  <2>8. \A s \in Runs : LabelTells(s)'
    <3>1. LabelTells(r)'
      BY <2>3, <2>6, <2>7 DEF LabelTells, Unanswered
    <3>2. ASSUME NEW s \in Runs \ {r} PROVE LabelTells(s)'
      BY <2>3, <2>7 DEF LabelTells, Unanswered, Failing
    <3>. QED BY <3>1, <3>2
  <2>9. AnswerIsNotAnError' /\ EndsAgree'
    BY <2>3, <2>6, <2>7 DEF AnswerIsNotAnError, EndsAgree, Unanswered, TypeOK
  <2>. QED BY <1>1, <2>1, <2>4, <2>5, <2>7, <2>8, <2>9, SameLinks
<1>7. CASE \E r \in Runs : /\ Matches(post[p].user, post[p].key) = {}
                           /\ Insert(p, r, "scheduled") /\ Answer(p, r)
  BY <1>6, <1>7, AnswerFacts
<1>8. CASE \E r \in Runs : /\ Matches(post[p].user, post[p].key) = {}
                           /\ Insert(p, r, "dead") /\ Refuse(p)
  BY <1>3, <1>6, <1>8
<1>. QED BY <1>5, <1>7, <1>8 DEF Create

LEMMA CodesPreserve ==
  ASSUME RunInv,
         \/ \E c \in Codes, i \in Ids : IssueCode(c, i)
         \/ \E c \in Codes : ExpireCode(c)
         \/ \E l \in Links : Forget(l)
  PROVE  RunInv'
<1>. USE DEF RunInv
<1>1. UNCHANGED <<identity, rows, raced, answers, post, pc, task, told, unconfirmed,
                  faults, down>>
  BY DEF IssueCode, ExpireCode, Forget, linksOnly
<1>2. codes' \in [Codes -> Users \cup {NoUser}]
  BY DEF IssueCode, ExpireCode, Forget, TypeOK
<1>3. link' \in [Links -> LinkState] /\ LinksAreGiven'
  <2>1. CASE UNCHANGED link
    BY <2>1, SameLinks DEF TypeOK
  <2>2. ASSUME NEW l \in Links, link' = [link EXCEPT ![l].step = "done"]
        PROVE  link' \in [Links -> LinkState] /\ LinksAreGiven'
    <3>1. [link[l] EXCEPT !.step = "done"] \in LinkState
      <4>1. link[l] \in LinkState /\ "done" \in LinkSteps
        BY DEF TypeOK, LinkSteps
      <4>. QED BY <4>1, LinkGoesOn
    <3>2. link'[l].step = "done" /\ \A m \in Links \ {l} : link'[m] = link[m]
      BY <2>2 DEF TypeOK, LinkState
    <3>3. LinksAreGiven'
      BY <3>2 DEF LinksAreGiven
    <3>. QED BY <2>2, <3>1, <3>3 DEF TypeOK
  <2>. QED BY <2>1, <2>2 DEF IssueCode, ExpireCode, Forget
<1>4. TypeOK'
  BY <1>1, <1>2, <1>3 DEF TypeOK, rows, task
<1>. QED BY <1>1, <1>3, <1>4, SameRows, SameRuns, SameRequests DEF rows

LEMMA VerifyPreserves ==
  ASSUME RunInv, NEW l \in Links, NEW u \in Users, NEW c \in Codes, Verify(l, u, c)
  PROVE  RunInv'
<1>. USE DEF RunInv
<1>1. /\ link' = [link EXCEPT ![l] =
                    [step |-> "verified", from |-> u, to |-> codes[c], code |-> c]]
      /\ codes[c] \in Users
      /\ UNCHANGED <<identity, codes, rows, raced, answers, post, pc, task, told,
                     unconfirmed, faults, down>>
  BY DEF Verify, linksOnly, TypeOK
<1>2. link' \in [Links -> LinkState] /\ LinksAreGiven'
  BY <1>1 DEF TypeOK, LinkState, LinkSteps, LinksAreGiven
<1>3. TypeOK'
  BY <1>1, <1>2 DEF TypeOK, rows, task
<1>. QED BY <1>1, <1>2, <1>3, SameRows, SameRuns, SameRequests DEF rows

\* Identities and runs of one user move together; a request of theirs that is
\* being handled is raced.
LEMMA MergePreserves ==
  ASSUME RunInv, NEW l \in Links, Merge(l)
  PROVE  RunInv'
<1>. USE DEF RunInv
<1>. DEFINE u == link[l].from
            v == link[l].to
<1>1. /\ link[l].step = "verified"
      /\ UNCHANGED <<codes, status, keyOf, answers, post, pc, task, told, unconfirmed,
                     faults, down>>
  BY DEF Merge, linksOnly
<1>2. u \in Users /\ v \in Users
  BY <1>1 DEF LinksAreGiven
<1>3. PICK step \in {"merged", "refused"} : link' = [link EXCEPT ![l].step = step]
  BY DEF Merge
<1>4. link' \in [Links -> LinkState] /\ LinksAreGiven'
  <2>a. link[l] \in LinkState /\ step \in LinkSteps
    BY DEF TypeOK, LinkSteps
  <2>1. [link[l] EXCEPT !.step = step] \in LinkState
    BY <2>a, LinkGoesOn
  <2>2. /\ link'[l].from = u /\ link'[l].to = v /\ link'[l].code = link[l].code
        /\ \A m \in Links \ {l} : link'[m] = link[m]
    BY <1>3 DEF TypeOK, LinkState
  <2>3. LinksAreGiven'
    BY <1>1, <2>2 DEF LinksAreGiven
  <2>. QED BY <1>3, <2>1, <2>3 DEF TypeOK
<1>5. CASE UNCHANGED <<identity, owner, raced>>
  <2>1. TypeOK'
    BY <1>1, <1>4, <1>5 DEF TypeOK, task
  <2>. QED BY <1>1, <1>4, <1>5, <2>1, SameRows, SameRuns, SameRequests DEF rows
<1>6. CASE /\ u # v /\ ~Clash(u, v)
           /\ identity' = [i \in Ids |-> IF identity[i] = u THEN v ELSE identity[i]]
           /\ MoveRuns(u, v)
           /\ raced' = raced \cup {i \in Ids : identity[i] = u /\ Moving(i)}
  <2>1. owner' = [r \in Runs |-> IF owner[r] = u THEN v ELSE owner[r]]
    BY <1>6 DEF MoveRuns
  <2>2. TypeOK'
    BY <1>1, <1>2, <1>4, <1>6, <2>1 DEF TypeOK, task
  <2>3. RowsAreUnique'
    <3>1. \A r \in Runs : status'[r] # "none" => owner'[r] \in Users /\ keyOf'[r] \in Keys
      BY <1>1, <1>2, <2>1 DEF RowsAreUnique
    <3>2. ASSUME NEW w \in Users, NEW k \in Keys,
                 NEW r \in Matches(w, k)', NEW s \in Matches(w, k)'
          PROVE  r = s
      <4>1. /\ r \in Runs /\ s \in Runs
            /\ status[r] # "none" /\ status[s] # "none"
            /\ keyOf[r] = k /\ keyOf[s] = k
            /\ owner'[r] = w /\ owner'[s] = w
        BY <1>1, <3>2 DEF Matches
      <4>2. CASE owner[r] = owner[s]
        <5>1. r \in Matches(owner[r], k) /\ s \in Matches(owner[r], k)
          BY <4>1, <4>2 DEF Matches
        <5>. QED BY <4>1, <5>1 DEF RowsAreUnique
      <4>3. CASE owner[r] = u /\ owner[s] = v
        BY <1>6, <4>1, <4>3 DEF Clash, Matches
      <4>4. CASE owner[r] = v /\ owner[s] = u
        BY <1>6, <4>1, <4>4 DEF Clash, Matches
      <4>. QED BY <2>1, <4>1, <4>2, <4>3, <4>4
    <3>. QED BY <1>1, <3>1, <3>2 DEF RowsAreUnique
  <2>4. RequestsAreCurrent'
    <3>. SUFFICES ASSUME NEW p \in Posts
                  PROVE  /\ post[p].step \in {"resolved", "checked"} /\ post[p].id \notin raced'
                              => post[p].user = identity'[post[p].id]
                         /\ post[p].step = "answered" /\ post[p].id \notin raced'
                              => owner'[post[p].run] = identity'[post[p].id]
      BY <1>1 DEF RequestsAreCurrent
    <3>1. CASE post[p].step \in {"resolved", "checked"}
      BY <1>6, <3>1 DEF RequestsAreCurrent, Moving
    <3>2. CASE post[p].step = "answered"
      BY <1>6, <2>1, <3>2 DEF RequestsAreCurrent
    <3>. QED BY <3>1, <3>2
  <2>. QED BY <1>1, <1>4, <2>2, <2>3, <2>4, SameRuns
<1>. QED BY <1>5, <1>6 DEF Merge

-----------------------------------------------------------------------------
(***************************************************************************)
(* Steps of a task.                                                        *)
(***************************************************************************)

\* What a step of the task of r leaves alone, and what it must not do.
TaskStep(r) ==
  /\ UNCHANGED <<identity, codes, owner, keyOf, post, link, raced, down>>
  /\ \A s \in Runs \ {r} : /\ pc'[s] = pc[s] /\ status'[s] = status[s]
                           /\ told'[s] = told[s]
                           /\ s \in answers' <=> s \in answers
                           /\ s \in unconfirmed' <=> s \in unconfirmed
  /\ faults' >= faults
  /\ status[r] # "none" /\ status'[r] # "none" /\ pc'[r] # "none"

\* It preserves the invariant if it does so for r.
LEMMA TaskStepPreserves ==
  ASSUME RunInv, NEW r \in Runs, TypeOK', TaskStep(r), LabelTells(r)',
         unconfirmed' \subseteq answers',
         r \in answers' \ unconfirmed' => /\ told'[r] # "error"
                                          /\ status'[r] = "failed" => told'[r] = "final",
         pc'[r] = "done" =>
           \/ told'[r] = "final" /\ r \in answers' /\ status'[r] = "completed"
           \/ told'[r] = "final" /\ r \in answers' /\ status'[r] = "failed" /\ faults' > 0
           \/ told'[r] = "error" /\ r \notin answers' /\ status'[r] = "failed"
           \/ told'[r] = "error" /\ r \in unconfirmed' /\ status'[r] = "failed" /\ faults' > 0
  PROVE  RunInv'
<1>. USE DEF RunInv, TaskStep
<1>0. /\ faults \in Nat /\ faults' \in Nat /\ answers' \subseteq Runs
      /\ \A s \in Runs : status'[s] = "none" <=> status[s] = "none"
      /\ pc[r] # "none"
  BY CoreAssumption DEF TypeOK, RowsAreUnique
<1>1. RowsAreUnique'
  BY <1>0 DEF RowsAreUnique, Matches
<1>2. RequestsAreCurrent'
  BY <1>0 DEF RequestsAreCurrent
<1>3. \A s \in Runs : LabelTells(s)'
  <2>. SUFFICES ASSUME NEW s \in Runs \ {r} PROVE LabelTells(s)'
    OBVIOUS
  <2>. QED BY <1>0 DEF LabelTells, Unanswered, Failing
<1>4. AnswerIsNotAnError'
  BY <1>0 DEF AnswerIsNotAnError
<1>5. EndsAgree'
  BY <1>0 DEF EndsAgree
<1>. QED BY <1>1, <1>2, <1>3, <1>4, <1>5, SameLinks

\* Where a task may go from inside a pass.
Working == {"routing", "generating", "tool", "waiting", "critique", "timedOut"}
Onward  == {"generating", "tool", "waiting", "critique", "delivering", "timedOut",
            "expired", "fault"}

LEMMA InPassPreserves ==
  ASSUME RunInv, NEW r \in Runs, InPass(r), NEW to \in Onward,
         pc' = [pc EXCEPT ![r] = to],
         turn' \in [Runs -> 1 .. MaxTurns], timer' \in [Runs -> BOOLEAN],
         pc[r] \in Working \/ (pc[r] = "tellTimeout" /\ to = "expired")
  PROVE  RunInv'
<1>. USE DEF RunInv
<1>1. UNCHANGED <<identity, codes, owner, keyOf, post, link, raced, down,
                  status, answers, unconfirmed, band, told, faults>>
  BY DEF InPass, others, stored
<1>2. pc' \in [Runs -> Labels] /\ pc'[r] = to
      /\ \A s \in Runs \ {r} : pc'[s] = pc[s]
  BY DEF TypeOK, Labels, Onward
<1>3. TypeOK'
  BY <1>1, <1>2 DEF TypeOK
<1>4. /\ Unanswered(r)
      /\ IF pc[r] = "tellTimeout" THEN status[r] = "failed" ELSE status[r] = "in_progress"
  BY DEF LabelTells, Working
<1>5. faults' >= faults
  BY <1>1, CoreAssumption DEF TypeOK
<1>6. TaskStep(r)
  BY <1>1, <1>2, <1>4, <1>5 DEF TaskStep, Onward
<1>7. LabelTells(r)'
  BY <1>1, <1>2, <1>4 DEF LabelTells, Unanswered, Failing, Onward, Working
<1>. QED BY <1>1, <1>2, <1>3, <1>4, <1>6, <1>7, TaskStepPreserves
         DEF Unanswered, Onward

LEMMA GotoFacts ==
  ASSUME NEW r \in Runs, NEW from, NEW to, Goto(r, from, to)
  PROVE  pc[r] = from /\ pc' = [pc EXCEPT ![r] = to]
BY DEF Goto

LEMMA ResetFacts ==
  ASSUME TypeOK, NEW r \in Runs
  PROVE  /\ [turn EXCEPT ![r] = 1] \in [Runs -> 1 .. MaxTurns]
         /\ [timer EXCEPT ![r] = FALSE] \in [Runs -> BOOLEAN]
         /\ turn[r] < MaxTurns => [turn EXCEPT ![r] = @ + 1] \in [Runs -> 1 .. MaxTurns]
<1>1. 1 \in 1 .. MaxTurns /\ turn[r] \in 1 .. MaxTurns
  BY CoreAssumption DEF TypeOK
<1>2. turn[r] < MaxTurns => turn[r] + 1 \in 1 .. MaxTurns
  BY <1>1, CoreAssumption
<1>. QED BY <1>1, <1>2 DEF TypeOK

LEMMA EndPassFacts ==
  ASSUME TypeOK, NEW r \in Runs, EndPass(r)
  PROVE  /\ \E to \in {"critique", "delivering"} : pc' = [pc EXCEPT ![r] = to]
         /\ turn' \in [Runs -> 1 .. MaxTurns]
         /\ timer' \in [Runs -> BOOLEAN]
<1>1. AfterPass(r) \in {"critique", "delivering"}
  BY DEF AfterPass
<1>. QED BY <1>1, ResetFacts DEF EndPass

LEMMA NextTurnFacts ==
  ASSUME TypeOK, NEW r \in Runs, NextTurn(r)
  PROVE  /\ \E to \in {"generating", "critique", "delivering"} : pc' = [pc EXCEPT ![r] = to]
         /\ turn' \in [Runs -> 1 .. MaxTurns]
         /\ timer' \in [Runs -> BOOLEAN]
<1>1. CASE EndPass(r)
  BY <1>1, EndPassFacts
<1>2. CASE /\ turn[r] < MaxTurns
           /\ pc' = [pc EXCEPT ![r] = "generating"]
           /\ turn' = [turn EXCEPT ![r] = @ + 1]
           /\ UNCHANGED timer
  BY <1>2, ResetFacts DEF TypeOK
<1>. QED BY <1>1, <1>2 DEF NextTurn

LEMMA PassPreserves ==
  ASSUME RunInv, NEW r \in Runs,
         Generate(r) \/ RunTool(r) \/ Resume(r) \/ PassTimeout(r) \/ Critique(r) \/ Raise(r)
  PROVE  RunInv'
<1>. USE DEF RunInv
<1>0. UNCHANGED <<turn, timer>> =>
        turn' \in [Runs -> 1 .. MaxTurns] /\ timer' \in [Runs -> BOOLEAN]
  BY DEF TypeOK
<1>1. CASE Generate(r) \/ RunTool(r) \/ Resume(r)
  <2>1. InPass(r) /\ pc[r] \in Working
    BY <1>1 DEF Generate, RunTool, Resume, Working
  <2>2. CASE EndPass(r) \/ NextTurn(r)
    BY <2>1, <2>2, EndPassFacts, NextTurnFacts, InPassPreserves DEF Onward
  <2>3. CASE \E to \in {"tool", "timedOut", "waiting"} :
               pc' = [pc EXCEPT ![r] = to] /\ UNCHANGED <<turn, timer>>
    BY <1>0, <2>1, <2>3, InPassPreserves DEF Onward
  <2>. QED BY <1>1, <2>2, <2>3, GotoFacts DEF Generate, RunTool, Resume
<1>2. CASE PassTimeout(r)
  <2>1. InPass(r)
    BY <1>2 DEF PassTimeout
  <2>2. CASE /\ pc[r] \in {"generating", "tool", "timedOut", "tellTimeout"}
             /\ pc' = [pc EXCEPT ![r] = "expired"]
             /\ turn' = [turn EXCEPT ![r] = 1]
             /\ timer' = [timer EXCEPT ![r] = FALSE]
    BY <2>1, <2>2, InPassPreserves, ResetFacts DEF Onward, Working
  <2>3. CASE /\ pc[r] = "waiting"
             /\ timer' = [timer EXCEPT ![r] = FALSE]
             /\ turn[r] < MaxTurns
             /\ pc' = [pc EXCEPT ![r] = "generating"]
             /\ turn' = [turn EXCEPT ![r] = @ + 1]
    BY <2>1, <2>3, InPassPreserves, ResetFacts DEF Onward, Working
  <2>4. CASE pc[r] = "waiting" /\ EndPass(r)
    BY <2>1, <2>4, EndPassFacts, InPassPreserves DEF Onward, Working
  <2>. QED BY <1>2, <2>2, <2>3, <2>4 DEF PassTimeout
<1>3. CASE Critique(r)
  BY <1>0, <1>3, GotoFacts, InPassPreserves DEF Critique, Onward, Working
<1>4. CASE Raise(r)
  BY <1>4, InPassPreserves, ResetFacts DEF Raise, Onward, Working
<1>. QED BY <1>1, <1>2, <1>3, <1>4

\* The steps of a task that store or tell something.
LEMMA MovedFacts ==
  ASSUME TypeOK, NEW r \in Runs, NEW to \in Labels, pc' = [pc EXCEPT ![r] = to]
  PROVE  /\ pc' \in [Runs -> Labels] /\ pc'[r] = to
         /\ \A s \in Runs \ {r} : pc'[s] = pc[s]
BY DEF TypeOK

LEMMA StatusFacts ==
  ASSUME TypeOK, NEW r \in Runs, NEW st \in {"in_progress", "completed", "failed"},
         SetStatus(r, st)
  PROVE  /\ status' \in [Runs -> {"none", "queued", "in_progress", "completed", "failed"}]
         /\ status'[r] = st
         /\ \A s \in Runs \ {r} : status'[s] = status[s]
BY DEF TypeOK, SetStatus

LEMMA EmitFacts ==
  ASSUME TypeOK, NEW r \in Runs, NEW event \in {"final", "error"}, Emit(r, event)
  PROVE  /\ told' \in [Runs -> {"open", "final", "error"}]
         /\ told'[r] = IF told[r] = "open" THEN event ELSE told[r]
         /\ \A s \in Runs \ {r} : told'[s] = told[s]
BY DEF TypeOK, Emit

LEMMA StartPreserves ==
  ASSUME RunInv, NEW r \in Runs, Start(r)
  PROVE  RunInv'
<1>. USE DEF RunInv
<1>1. /\ pc[r] = "scheduled" /\ pc' = [pc EXCEPT ![r] = "routing"]
      /\ SetStatus(r, "in_progress")
      /\ UNCHANGED <<identity, codes, owner, keyOf, post, link, raced, down,
                     answers, unconfirmed, turn, timer, band, told, faults>>
  BY DEF Start, Goto, others, task
<1>2. /\ pc' \in [Runs -> Labels] /\ pc'[r] = "routing"
      /\ \A s \in Runs \ {r} : pc'[s] = pc[s]
  BY <1>1, MovedFacts DEF Labels
<1>3. /\ status' \in [Runs -> {"none", "queued", "in_progress", "completed", "failed"}]
      /\ status'[r] = "in_progress"
      /\ \A s \in Runs \ {r} : status'[s] = status[s]
  BY <1>1, StatusFacts
<1>4. TypeOK' /\ faults' >= faults
  BY <1>1, <1>2, <1>3, CoreAssumption DEF TypeOK
<1>5. Unanswered(r) /\ status[r] = "queued"
  BY <1>1 DEF LabelTells
<1>6. TaskStep(r) /\ LabelTells(r)'
  BY <1>1, <1>2, <1>3, <1>4, <1>5 DEF TaskStep, LabelTells, Unanswered
<1>. QED BY <1>1, <1>2, <1>3, <1>4, <1>5, <1>6, TaskStepPreserves DEF Unanswered

LEMMA RoutePreserves ==
  ASSUME RunInv, NEW r \in Runs, Route(r)
  PROVE  RunInv'
<1>. USE DEF RunInv
<1>1. /\ pc[r] = "routing" /\ pc' = [pc EXCEPT ![r] = "generating"]
      /\ band' \in [Runs -> {"task", "agent"}] /\ timer' \in [Runs -> BOOLEAN]
      /\ UNCHANGED <<identity, codes, owner, keyOf, post, link, raced, down,
                     status, answers, unconfirmed, turn, told, faults>>
  BY DEF Route, Goto, others, stored, TypeOK
<1>2. /\ pc' \in [Runs -> Labels] /\ pc'[r] = "generating"
      /\ \A s \in Runs \ {r} : pc'[s] = pc[s]
  BY <1>1, MovedFacts DEF Labels
<1>3. TypeOK' /\ faults' >= faults
  BY <1>1, <1>2, CoreAssumption DEF TypeOK
<1>4. Unanswered(r) /\ status[r] = "in_progress"
  BY <1>1 DEF LabelTells
<1>5. TaskStep(r) /\ LabelTells(r)'
  BY <1>1, <1>2, <1>3, <1>4 DEF TaskStep, LabelTells, Unanswered
<1>. QED BY <1>1, <1>2, <1>3, <1>4, <1>5, TaskStepPreserves DEF Unanswered

LEMMA DeliverPreserves ==
  ASSUME RunInv, NEW r \in Runs, Deliver(r) \/ Remember(r)
  PROVE  RunInv'
<1>. USE DEF RunInv
<1>1. PICK to \in {"remembering", "finishing"} :
        /\ pc' = [pc EXCEPT ![r] = to]
        /\ \/ pc[r] = "delivering" /\ answers' = answers \cup {r}
           \/ pc[r] = "remembering" /\ answers' = answers
  BY DEF Deliver, Remember, Goto, stored
<1>2. UNCHANGED <<identity, codes, owner, keyOf, post, link, raced, down,
                  status, unconfirmed, turn, timer, band, told, faults>>
  BY DEF Deliver, Remember, others, stored, task
<1>3. /\ pc' \in [Runs -> Labels] /\ pc'[r] = to
      /\ \A s \in Runs \ {r} : pc'[s] = pc[s]
  BY <1>1, MovedFacts DEF Labels
<1>4. TypeOK' /\ faults' >= faults
  BY <1>1, <1>2, <1>3, CoreAssumption DEF TypeOK
<1>5. status[r] = "in_progress" /\ told[r] = "open" /\ r \in answers' \ unconfirmed
  BY <1>1 DEF LabelTells, Unanswered
<1>6. TaskStep(r) /\ LabelTells(r)'
  BY <1>1, <1>2, <1>3, <1>4, <1>5 DEF TaskStep, LabelTells
<1>. QED BY <1>1, <1>2, <1>3, <1>4, <1>5, <1>6, TaskStepPreserves

LEMMA FinishPreserves ==
  ASSUME RunInv, NEW r \in Runs, Finish(r)
  PROVE  RunInv'
<1>. USE DEF RunInv
<1>1. /\ pc[r] = "finishing" /\ pc' = [pc EXCEPT ![r] = "completing"]
      /\ Emit(r, "final")
      /\ UNCHANGED <<identity, codes, owner, keyOf, post, link, raced, down,
                     status, answers, unconfirmed, turn, timer, band, faults>>
  BY DEF Finish, Goto, others, stored, task
<1>2. /\ pc' \in [Runs -> Labels] /\ pc'[r] = "completing"
      /\ \A s \in Runs \ {r} : pc'[s] = pc[s]
  BY <1>1, MovedFacts DEF Labels
<1>3. status[r] = "in_progress" /\ told[r] = "open" /\ r \in answers
  BY <1>1 DEF LabelTells
<1>4. /\ told' \in [Runs -> {"open", "final", "error"}]
      /\ told'[r] = "final"
      /\ \A s \in Runs \ {r} : told'[s] = told[s]
  BY <1>1, <1>3, EmitFacts
<1>5. TypeOK' /\ faults' >= faults
  BY <1>1, <1>2, <1>4, CoreAssumption DEF TypeOK
<1>6. TaskStep(r) /\ LabelTells(r)'
  BY <1>1, <1>2, <1>3, <1>4, <1>5 DEF TaskStep, LabelTells
<1>. QED BY <1>1, <1>2, <1>3, <1>4, <1>5, <1>6, TaskStepPreserves

LEMMA CompletePreserves ==
  ASSUME RunInv, NEW r \in Runs, Complete(r)
  PROVE  RunInv'
<1>. USE DEF RunInv
<1>1. /\ pc[r] = "completing" /\ pc' = [pc EXCEPT ![r] = "reporting"]
      /\ SetStatus(r, "completed")
      /\ UNCHANGED <<identity, codes, owner, keyOf, post, link, raced, down,
                     answers, unconfirmed, turn, timer, band, told, faults>>
  BY DEF Complete, Goto, others, task
<1>2. /\ pc' \in [Runs -> Labels] /\ pc'[r] = "reporting"
      /\ \A s \in Runs \ {r} : pc'[s] = pc[s]
  BY <1>1, MovedFacts DEF Labels
<1>3. status[r] = "in_progress" /\ told[r] = "final" /\ r \in answers
  BY <1>1 DEF LabelTells
<1>4. /\ status' \in [Runs -> {"none", "queued", "in_progress", "completed", "failed"}]
      /\ status'[r] = "completed"
      /\ \A s \in Runs \ {r} : status'[s] = status[s]
  BY <1>1, StatusFacts
<1>5. TypeOK' /\ faults' >= faults
  BY <1>1, <1>2, <1>4, CoreAssumption DEF TypeOK
<1>6. TaskStep(r) /\ LabelTells(r)'
  BY <1>1, <1>2, <1>3, <1>4, <1>5 DEF TaskStep, LabelTells
<1>. QED BY <1>1, <1>2, <1>3, <1>4, <1>5, <1>6, TaskStepPreserves

\* The trace is written, or it is not.
LEMMA ReportPreserves ==
  ASSUME RunInv, NEW r \in Runs, Report(r) \/ TraceFails(r)
  PROVE  RunInv'
<1>. USE DEF RunInv
<1>1. PICK to \in {"done", "fault"} :
        /\ pc[r] = "reporting" /\ pc' = [pc EXCEPT ![r] = to]
        /\ to = "fault" => OneMoreFault
        /\ to = "done" => UNCHANGED faults
  BY DEF Report, TraceFails, Goto
<1>2. UNCHANGED <<identity, codes, owner, keyOf, post, link, raced, down,
                  status, answers, unconfirmed, turn, timer, band, told>>
  BY DEF Report, TraceFails, others, stored, task
<1>3. /\ pc' \in [Runs -> Labels] /\ pc'[r] = to
      /\ \A s \in Runs \ {r} : pc'[s] = pc[s]
  BY <1>1, MovedFacts DEF Labels, Ended
<1>4. /\ faults' \in 0 .. MaxFaults /\ faults' >= faults
      /\ to = "fault" => faults' > 0
  BY <1>1, CoreAssumption DEF TypeOK, OneMoreFault
<1>5. TypeOK'
  BY <1>2, <1>3, <1>4 DEF TypeOK
<1>6. \/ status[r] = "completed" /\ told[r] = "final" /\ r \in answers
      \/ status[r] = "failed" /\ told[r] = "error" /\ r \notin answers
  BY <1>1 DEF LabelTells
<1>7. TaskStep(r) /\ LabelTells(r)'
  BY <1>2, <1>3, <1>4, <1>6 DEF TaskStep, LabelTells, Failing
<1>. QED BY <1>2, <1>3, <1>5, <1>6, <1>7, TaskStepPreserves

LEMMA StoreFailurePreserves ==
  ASSUME RunInv, NEW r \in Runs, StoreFailure(r)
  PROVE  RunInv'
<1>. USE DEF RunInv
<1>1. /\ pc[r] \in {"timedOut", "expired", "fault"}
      /\ pc' = [pc EXCEPT ![r] = Telling[pc[r]]]
      /\ SetStatus(r, "failed")
      /\ UNCHANGED <<identity, codes, owner, keyOf, post, link, raced, down,
                     answers, unconfirmed, turn, timer, band, told, faults>>
  BY DEF StoreFailure, Telling, TypeOK, others, task
<1>2. PICK to \in {"tellTimeout", "tellExpired", "tellFault"} :
        /\ pc' = [pc EXCEPT ![r] = to]
        /\ pc[r] = "fault" <=> to = "tellFault"
  <2>1. /\ Telling["timedOut"] = "tellTimeout"
        /\ Telling["expired"] = "tellExpired"
        /\ Telling["fault"] = "tellFault"
    BY DEF Telling
  <2>. QED BY <1>1, <2>1
<1>3. /\ pc' \in [Runs -> Labels] /\ pc'[r] = to
      /\ \A s \in Runs \ {r} : pc'[s] = pc[s]
  BY <1>2, MovedFacts DEF Labels
<1>4. status[r] # "none" /\ Failing(r) /\ (to # "tellFault" => Unanswered(r))
  BY <1>1, <1>2 DEF LabelTells, Failing
<1>5. /\ status' \in [Runs -> {"none", "queued", "in_progress", "completed", "failed"}]
      /\ status'[r] = "failed"
      /\ \A s \in Runs \ {r} : status'[s] = status[s]
  BY <1>1, StatusFacts
<1>6. TypeOK' /\ faults' >= faults
  BY <1>1, <1>3, <1>5, CoreAssumption DEF TypeOK
<1>7. TaskStep(r)
  BY <1>1, <1>3, <1>4, <1>5, <1>6 DEF TaskStep
<1>8. LabelTells(r)'
  BY <1>1, <1>3, <1>4, <1>5 DEF LabelTells, Failing, Unanswered
<1>. QED BY <1>1, <1>3, <1>4, <1>5, <1>6, <1>7, <1>8, TaskStepPreserves
         DEF Failing, Unanswered

\* A run that was told to have ended before is not told again.
LEMMA TellFailurePreserves ==
  ASSUME RunInv, NEW r \in Runs, TellFailure(r)
  PROVE  RunInv'
<1>. USE DEF RunInv
<1>1. /\ pc[r] \in {"tellTimeout", "tellExpired", "tellFault"}
      /\ pc' = [pc EXCEPT ![r] = AfterTelling[pc[r]]]
      /\ turn' = [turn EXCEPT ![r] = 1]
      /\ timer' = [timer EXCEPT ![r] = FALSE]
      /\ Emit(r, "error")
      /\ UNCHANGED <<identity, codes, owner, keyOf, post, link, raced, down,
                     status, answers, unconfirmed, band, faults>>
  BY DEF TellFailure, AfterTelling, TypeOK, others, stored
<1>2. PICK to \in {"fault", "reporting", "done"} :
        /\ pc' = [pc EXCEPT ![r] = to]
        /\ pc[r] = "tellFault" <=> to = "done"
  <2>1. /\ AfterTelling["tellTimeout"] = "fault"
        /\ AfterTelling["tellExpired"] = "reporting"
        /\ AfterTelling["tellFault"] = "done"
    BY DEF AfterTelling
  <2>. QED BY <1>1, <2>1
<1>3. /\ pc' \in [Runs -> Labels] /\ pc'[r] = to
      /\ \A s \in Runs \ {r} : pc'[s] = pc[s]
  BY <1>2, MovedFacts DEF Labels, Ended
<1>4. status[r] = "failed" /\ Failing(r) /\ (to # "done" => Unanswered(r))
  BY <1>1, <1>2 DEF LabelTells, Failing
<1>5. /\ told' \in [Runs -> {"open", "final", "error"}]
      /\ told'[r] = IF told[r] = "open" THEN "error" ELSE told[r]
      /\ \A s \in Runs \ {r} : told'[s] = told[s]
  BY <1>1, EmitFacts
<1>6. TypeOK' /\ faults' >= faults
  BY <1>1, <1>3, <1>5, ResetFacts, CoreAssumption DEF TypeOK
<1>7. TaskStep(r)
  BY <1>1, <1>3, <1>4, <1>5, <1>6 DEF TaskStep
<1>8. LabelTells(r)'
  BY <1>1, <1>3, <1>4, <1>5 DEF LabelTells, Failing, Unanswered
<1>. QED BY <1>1, <1>3, <1>4, <1>5, <1>6, <1>7, <1>8, TaskStepPreserves
         DEF Failing, Unanswered

LEMMA StatementFailsPreserves ==
  ASSUME RunInv, NEW r \in Runs, StatementFails(r)
  PROVE  RunInv'
<1>. USE DEF RunInv
<1>1. PICK to \in {"fault", "dead"} :
        /\ pc' = [pc EXCEPT ![r] = to]
        /\ to = "fault" => pc[r] \in {"scheduled", "timedOut", "expired", "completing"}
        /\ to = "dead" => pc[r] \in {"delivering", "fault"}
  BY DEF StatementFails
<1>2. /\ faults' = faults + 1 /\ faults < MaxFaults
      /\ turn' = [turn EXCEPT ![r] = 1]
      /\ timer' = [timer EXCEPT ![r] = FALSE]
      /\ UNCHANGED <<identity, codes, owner, keyOf, post, link, raced, down,
                     status, answers, unconfirmed, band, told>>
  BY DEF StatementFails, OneMoreFault, others, stored
<1>3. /\ pc' \in [Runs -> Labels] /\ pc'[r] = to
      /\ \A s \in Runs \ {r} : pc'[s] = pc[s]
  BY <1>1, MovedFacts DEF Labels, Ended
<1>4. TypeOK' /\ faults' >= faults /\ faults' > 0
  <2>1. faults' \in 0 .. MaxFaults /\ faults' >= faults /\ faults' > 0
    BY <1>2, CoreAssumption DEF TypeOK
  <2>. QED BY <1>2, <1>3, <2>1, ResetFacts DEF TypeOK
<1>5. /\ status[r] # "none"
      /\ to = "fault" => \/ Unanswered(r)
                         \/ told[r] = "final" /\ r \in answers
  BY <1>1 DEF LabelTells
<1>6. TaskStep(r)
  BY <1>2, <1>3, <1>4, <1>5 DEF TaskStep
<1>7. LabelTells(r)'
  BY <1>2, <1>3, <1>4, <1>5 DEF LabelTells, Failing, Unanswered
<1>8. /\ unconfirmed' \subseteq answers'
      /\ r \in answers' \ unconfirmed' => /\ told'[r] # "error"
                                          /\ status'[r] = "failed" => told'[r] = "final"
  BY <1>2 DEF AnswerIsNotAnError
<1>. QED BY <1>3, <1>4, <1>6, <1>7, <1>8, TaskStepPreserves

\* The answer is stored, and the run takes it for failed.
LEMMA UnconfirmedPreserves ==
  ASSUME RunInv, NEW r \in Runs, DeliverUnconfirmed(r)
  PROVE  RunInv'
<1>. USE DEF RunInv
<1>1. /\ pc[r] = "delivering" /\ pc' = [pc EXCEPT ![r] = "fault"]
      /\ answers' = answers \cup {r} /\ unconfirmed' = unconfirmed \cup {r}
      /\ UNCHANGED <<identity, codes, owner, keyOf, post, link, raced, down,
                     status, turn, timer, band, told>>
  BY DEF DeliverUnconfirmed, Goto, others, task
<1>2. /\ pc' \in [Runs -> Labels] /\ pc'[r] = "fault"
      /\ \A s \in Runs \ {r} : pc'[s] = pc[s]
  BY <1>1, MovedFacts DEF Labels
<1>3. faults' \in 0 .. MaxFaults /\ faults' >= faults /\ faults' > 0
  BY CoreAssumption DEF DeliverUnconfirmed, OneMoreFault, TypeOK
<1>4. TypeOK' /\ unconfirmed' \subseteq answers'
  BY <1>1, <1>2, <1>3 DEF TypeOK
<1>5. status[r] = "in_progress" /\ told[r] = "open"
  BY <1>1 DEF LabelTells, Unanswered
<1>6. TaskStep(r) /\ LabelTells(r)'
  BY <1>1, <1>2, <1>3, <1>5 DEF TaskStep, LabelTells, Failing
<1>. QED BY <1>1, <1>2, <1>4, <1>6, TaskStepPreserves

LEMMA CrashPreserves ==
  ASSUME RunInv, Crash
  PROVE  RunInv'
<1>. USE DEF RunInv
<1>1. UNCHANGED <<identity, codes, rows, status, owner, keyOf, answers, band, told,
                  unconfirmed, raced, faults>>
  BY DEF Crash, rows
<1>2. \A r \in Runs : \/ pc'[r] = pc[r] /\ pc[r] \in Ended
                      \/ pc'[r] = "crashed" /\ pc[r] \notin Ended
  <2>1. pc' = [r \in Runs |-> IF pc[r] \in Ended THEN pc[r] ELSE "crashed"]
    BY DEF Crash
  <2>. QED BY <2>1
<1>3. /\ pc' \in [Runs -> Labels] /\ turn' \in [Runs -> 1 .. MaxTurns]
      /\ timer' \in [Runs -> BOOLEAN] /\ down' \in BOOLEAN
  <2>1. pc' = [r \in Runs |-> IF pc[r] \in Ended THEN pc[r] ELSE "crashed"]
    BY DEF Crash
  <2>2. pc' \in [Runs -> Labels]
    BY <2>1 DEF TypeOK, Labels, Ended
  <2>3. 1 \in 1 .. MaxTurns
    BY CoreAssumption
  <2>. QED BY <2>2, <2>3 DEF Crash
<1>4. post' \in [Posts -> PostState] /\ link' \in [Links -> LinkState]
  <2>1. \A p \in Posts : [post[p] EXCEPT !.step = "lost", !.user = NoUser] \in PostState
    <3>. SUFFICES ASSUME NEW p \in Posts
                  PROVE  [post[p] EXCEPT !.step = "lost", !.user = NoUser] \in PostState
      OBVIOUS
    <3>1. post[p] \in PostState
      BY DEF TypeOK
    <3>. QED BY <3>1, PostEnds
  <2>2. \A l \in Links : [link[l] EXCEPT !.step = "lost"] \in LinkState
    <3>1. \A l \in Links : link[l] \in LinkState
      BY DEF TypeOK
    <3>2. "lost" \in LinkSteps
      BY DEF LinkSteps
    <3>. QED BY <3>1, <3>2, LinkGoesOn
  <2>. QED BY <2>1, <2>2 DEF Crash, TypeOK
<1>5. TypeOK'
  BY <1>1, <1>3, <1>4 DEF TypeOK
<1>6. RowsAreUnique'
  BY <1>1, <1>2 DEF RowsAreUnique, Matches, Ended
<1>7. RequestsAreCurrent'
  <2>1. \A p \in Posts : \/ post'[p] = post[p] /\ post[p].step \notin {"resolved", "checked"}
                         \/ /\ post'[p].step = "lost" /\ post[p].step # "idle"
                            /\ post'[p].id = post[p].id /\ post'[p].key = post[p].key
    <3>. SUFFICES ASSUME NEW p \in Posts
                  PROVE  \/ post'[p] = post[p] /\ post[p].step \notin {"resolved", "checked"}
                         \/ /\ post'[p].step = "lost" /\ post[p].step # "idle"
                            /\ post'[p].id = post[p].id /\ post'[p].key = post[p].key
      OBVIOUS
    <3>1. post[p] \in PostState
      BY DEF TypeOK
    <3>2. post'[p] = IF post[p].step \in {"resolved", "checked"}
                     THEN [post[p] EXCEPT !.step = "lost", !.user = NoUser]
                     ELSE post[p]
      BY DEF Crash
    <3>3. post[p].step \in {"resolved", "checked"} => post[p].step # "idle"
      OBVIOUS
    <3>. HIDE DEF RunInv
    <3>4. CASE post[p].step \in {"resolved", "checked"}
      BY <3>1, <3>2, <3>3, <3>4, PostEnds
    <3>. QED BY <3>2, <3>4
  <2>. QED BY <1>1, <2>1 DEF RequestsAreCurrent
<1>8. LinksAreGiven'
  <2>1. \A l \in Links : link'[l].step \notin {"verified", "merged"}
    BY DEF Crash, TypeOK, LinkState
  <2>. QED BY <2>1 DEF LinksAreGiven
<1>9. (\A r \in Runs : LabelTells(r)') /\ AnswerIsNotAnError' /\ EndsAgree'
  BY <1>1, <1>2 DEF LabelTells, Unanswered, AnswerIsNotAnError, EndsAgree, Ended
<1>. QED BY <1>1, <1>5, <1>6, <1>7, <1>8, <1>9

-----------------------------------------------------------------------------
(***************************************************************************)
(* The invariant.                                                          *)
(***************************************************************************)
LEMMA RunInvInit == ASSUME Init PROVE RunInv
<1>1. TypeOK
  <2>1. /\ 1 \in 1 .. MaxTurns /\ 0 \in 0 .. MaxFaults
        /\ "none" \in Labels
        /\ [step |-> "idle", id |-> NoId, key |-> NoKey, user |-> NoUser, run |-> NoRun]
             \in PostState
        /\ [step |-> "idle", from |-> NoUser, to |-> NoUser, code |-> NoCode] \in LinkState
    BY CoreAssumption DEF PostState, PostSteps, LinkState, LinkSteps, Labels, Ended
  <2>. QED BY <2>1 DEF Init, TypeOK
<1>. QED BY <1>1 DEF Init, RunInv, RowsAreUnique, Matches, RequestsAreCurrent, LinksAreGiven,
                     LabelTells, Unanswered, AnswerIsNotAnError, EndsAgree

LEMMA RunInvNext == ASSUME RunInv, [Next]_vars PROVE RunInv'
<1>1. CASE UNCHANGED vars
  <2>1. UNCHANGED <<identity, codes, rows, status, owner, keyOf, answers, post, link, pc,
                    turn, timer, band, told, unconfirmed, raced, faults, down>>
    BY <1>1 DEF vars, rows, task
  <2>2. TypeOK'
    BY <2>1 DEF RunInv, TypeOK
  <2>. QED BY <2>1, <2>2, SameRows, SameRuns, SameRequests, SameLinks DEF RunInv
<1>2. ASSUME NEW r \in Runs, Work(r) PROVE RunInv'
  BY <1>2, StartPreserves, RoutePreserves, PassPreserves, DeliverPreserves, FinishPreserves,
     CompletePreserves, ReportPreserves, StoreFailurePreserves, TellFailurePreserves
  DEF Work
<1>3. ASSUME NEW r \in Runs, Faults(r) PROVE RunInv'
  BY <1>3, StatementFailsPreserves, UnconfirmedPreserves, ReportPreserves DEF Faults
<1>. QED BY <1>1, <1>2, <1>3, ResolvePreserves, CheckPreserves, CreatePreserves,
            CodesPreserve, VerifyPreserves, MergePreserves, CrashPreserves
         DEF Next

\* The invariant holds of every state.
THEOREM RunInvariant == Spec => []RunInv
<1>1. Init => RunInv
  BY RunInvInit
<1>2. RunInv /\ [Next]_vars => RunInv'
  BY RunInvNext
<1>. QED BY <1>1, <1>2, PTL DEF Spec

\* Rows, requests, links and tasks are of their types, for every number of
\* runs, users, identities, keys, requests and links.
THEOREM CoreRunTypes == Spec => []TypeOK
BY RunInvariant, PTL DEF RunInv

\* Two answers to one identity under one key name one run, although accounts
\* are linked in between, except for a request that the link overtook.
THEOREM KeysNameOneRun == Spec => []OneRunPerKey
<1>1. RunInv => OneRunPerKey
  <2>. SUFFICES ASSUME RunInv, NEW p \in Posts, NEW q \in Posts,
                       post[p].step = "answered", post[q].step = "answered",
                       post[p].id = post[q].id, post[p].key = post[q].key,
                       post[p].id \notin raced
                PROVE  post[p].run = post[q].run
    BY DEF OneRunPerKey
  <2>. DEFINE u == identity[post[p].id]
  <2>1. post[p].run \in Matches(u, post[p].key) /\ post[q].run \in Matches(u, post[p].key)
    BY DEF RunInv, RequestsAreCurrent, Matches
  <2>2. u \in Users /\ post[p].key \in Keys
    BY DEF RunInv, RequestsAreCurrent, TypeOK
  <2>. QED BY <2>1, <2>2 DEF RunInv, RowsAreUnique
<1>. QED BY <1>1, RunInvariant, PTL

\* A run that a request was answered with belongs to the user its identity
\* belongs to.
THEOREM IdentityKeepsRuns == Spec => []RunsFollowIdentity
<1>1. RunInv => RunsFollowIdentity
  BY DEF RunInv, RequestsAreCurrent, RunsFollowIdentity
<1>. QED BY <1>1, RunInvariant, PTL

\* An answer whose insert returned is never reported as an error, whatever fails
\* after it.
THEOREM AnswersStand == Spec => []AnswerIsNotAnError
BY RunInvariant, PTL DEF RunInv

\* A task that came to its end has told how, and row and conversation agree, but
\* for what a failure explains.
THEOREM TasksEndAsTold == Spec => []EndsAgree
BY RunInvariant, PTL DEF RunInv

-----------------------------------------------------------------------------
(***************************************************************************)
(* Refinement: every step is one of RunContract or changes nothing of it.  *)
(***************************************************************************)
LEMMA ContractInit == ASSUME Init PROVE Contract!Init
BY DEF Init, Contract!Init

\* Steps that change neither a status nor an answer nor what was told.
LEMMA QuietStep ==
  ASSUME UNCHANGED <<status, answers, unconfirmed, told>>
  PROVE  UNCHANGED Contract!vars
BY DEF Contract!vars

LEMMA ContractStep ==
  ASSUME RunInv, Next
  PROVE  [Contract!Next]_Contract!vars
<1>. USE DEF RunInv
<1>1. ASSUME NEW p \in Posts, Create(p)
      PROVE  [Contract!Next]_Contract!vars
  <2>1. CASE UNCHANGED status
    BY <1>1, <2>1, QuietStep DEF Create
  <2>2. ASSUME NEW r \in Runs, NEW label, Insert(p, r, label)
        PROVE  Contract!Next
    BY <1>1, <2>2 DEF Create, Insert, Contract!Next, Contract!Accept, Contract!Move
  <2>. QED BY <1>1, <2>1, <2>2 DEF Create, rows
<1>2. ASSUME NEW r \in Runs, Start(r)
      PROVE  Contract!Next
  <2>1. status[r] = "queued" /\ status' = [status EXCEPT ![r] = "in_progress"]
    BY <1>2 DEF Start, Goto, SetStatus, LabelTells
  <2>. QED BY <1>2, <2>1 DEF Start, Contract!Next, Contract!Start, Contract!Move
<1>3. ASSUME NEW r \in Runs, Deliver(r) \/ DeliverUnconfirmed(r)
      PROVE  Contract!Next
  <2>1. status[r] = "in_progress" /\ told[r] = "open" /\ r \notin answers
    BY <1>3 DEF Deliver, DeliverUnconfirmed, Goto, LabelTells, Unanswered
  <2>2. /\ answers' = answers \cup {r}
        /\ unconfirmed' \in {unconfirmed, unconfirmed \cup {r}}
        /\ UNCHANGED <<status, told>>
    BY <1>3 DEF Deliver, DeliverUnconfirmed
  <2>. QED BY <2>1, <2>2 DEF Contract!Next, Contract!Answer
<1>4. ASSUME NEW r \in Runs, Finish(r)
      PROVE  Contract!Next
  <2>1. status[r] = "in_progress" /\ told[r] = "open" /\ r \in answers \ unconfirmed
    BY <1>4 DEF Finish, Goto, LabelTells
  <2>2. told' = [told EXCEPT ![r] = "final"]
    BY <1>4, <2>1 DEF Finish, Emit, TypeOK
  <2>. QED BY <1>4, <2>1, <2>2 DEF Finish, stored, Contract!Next, Contract!Tell
<1>5. ASSUME NEW r \in Runs, Complete(r)
      PROVE  Contract!Next
  <2>1. status[r] = "in_progress" /\ told[r] = "final"
    BY <1>5 DEF Complete, Goto, LabelTells
  <2>. QED BY <1>5, <2>1
           DEF Complete, SetStatus, Contract!Next, Contract!Complete, Contract!Move
<1>6. ASSUME NEW r \in Runs, StoreFailure(r)
      PROVE  [Contract!Next]_Contract!vars
  <2>1. status[r] \in {"queued", "in_progress", "completed", "failed"}
    BY <1>6 DEF StoreFailure, Telling, LabelTells, TypeOK
  <2>2. status' = [status EXCEPT ![r] = "failed"] /\ UNCHANGED <<answers, unconfirmed, told>>
    BY <1>6 DEF StoreFailure, SetStatus
  <2>3. CASE status[r] = "failed"
    BY <2>2, <2>3, QuietStep DEF TypeOK
  <2>4. CASE status[r] \in {"queued", "in_progress", "completed"}
    <3>1. r \in answers \ unconfirmed => told[r] = "final"
      BY <1>6 DEF StoreFailure, Telling, LabelTells, Failing, Unanswered
    <3>. QED BY <2>2, <2>4, <3>1 DEF Contract!Next, Contract!Fail, Contract!Move
  <2>. QED BY <2>1, <2>3, <2>4
<1>7. ASSUME NEW r \in Runs, TellFailure(r)
      PROVE  [Contract!Next]_Contract!vars
  <2>1. status[r] = "failed"
    BY <1>7 DEF TellFailure, AfterTelling, LabelTells
  <2>2. told' = [told EXCEPT ![r] = IF @ = "open" THEN "error" ELSE @]
        /\ UNCHANGED <<status, answers, unconfirmed>>
    BY <1>7 DEF TellFailure, Emit, stored
  <2>3. CASE told[r] = "open"
    <3>1. r \notin answers \ unconfirmed
      BY <1>7, <2>3 DEF TellFailure, AfterTelling, LabelTells, Failing, Unanswered
    <3>. QED BY <2>1, <2>2, <2>3, <3>1 DEF Contract!Next, Contract!Tell
  <2>4. CASE told[r] # "open"
    BY <2>2, <2>4, QuietStep DEF TypeOK
  <2>. QED BY <2>3, <2>4
<1>8. ASSUME NEW r \in Runs,
             \/ Route(r) \/ Generate(r) \/ RunTool(r) \/ Resume(r) \/ PassTimeout(r)
             \/ Critique(r) \/ Raise(r) \/ Remember(r) \/ Report(r)
             \/ TraceFails(r) \/ StatementFails(r)
      PROVE  UNCHANGED Contract!vars
  BY <1>8, QuietStep
  DEF Route, Generate, RunTool, Resume, PassTimeout, Critique, Raise, Remember, Report,
      TraceFails, StatementFails, InPass, stored
<1>9. ASSUME NEW r \in Runs, Work(r) \/ Faults(r)
      PROVE  [Contract!Next]_Contract!vars
  BY <1>2, <1>3, <1>4, <1>5, <1>6, <1>7, <1>8, <1>9 DEF Work, Faults
<1>10. ASSUME \/ \E p \in Posts, i \in Ids, k \in Keys : Resolve(p, i, k)
              \/ \E p \in Posts : Check(p)
              \/ \E c \in Codes, i \in Ids : IssueCode(c, i)
              \/ \E c \in Codes : ExpireCode(c)
              \/ \E l \in Links, u \in Users, c \in Codes : Verify(l, u, c)
              \/ \E l \in Links : Merge(l) \/ Forget(l)
              \/ Crash
       PROVE  UNCHANGED Contract!vars
  BY <1>10, QuietStep
  DEF Resolve, Check, IssueCode, ExpireCode, Verify, Merge, Forget, Crash,
      postsOnly, linksOnly, rows
<1>. QED BY <1>1, <1>8, <1>9, <1>10 DEF Next

\* CoreRun implements RunContract: whatever requests, links, faults and crashes
\* come in between, one terminal event is told, an error after the failure is
\* stored and "final" after the insert of the answer returned, and a run that
\* failed stays so, as one that completed does unless its very last step fails.
THEOREM CoreRunKeepsContract == Spec => KeepsContract
<1>1. Init => Contract!Init
  BY ContractInit
<1>2. RunInv /\ [Next]_vars => [Contract!Next]_Contract!vars
  <2>1. UNCHANGED vars => UNCHANGED Contract!vars
    BY QuietStep DEF vars, rows
  <2>. QED BY <2>1, ContractStep
<1>. QED BY <1>1, <1>2, RunInvariant, PTL DEF Spec, KeepsContract, Contract!Spec

\* What the contract is good for, whoever keeps it.
LEMMA TruthIsKept ==
  ASSUME Contract!TypeOK, Contract!Truthful, [Contract!Next]_Contract!vars
  PROVE  Contract!TypeOK' /\ Contract!Truthful'
<1>. USE DEF Contract!TypeOK, Contract!Truthful
<1>1. ASSUME NEW r \in Runs, NEW from, NEW to \in {"queued", "in_progress"},
             Contract!Move(r, from, to), from \in {{"none"}, {"queued"}}
      PROVE  Contract!TypeOK' /\ Contract!Truthful'
  BY <1>1 DEF Contract!Move
<1>2. ASSUME NEW r \in Runs, Contract!Fail(r) \/ Contract!Complete(r)
      PROVE  Contract!TypeOK' /\ Contract!Truthful'
  BY <1>2 DEF Contract!Fail, Contract!Complete, Contract!Move
<1>3. ASSUME NEW r \in Runs, Contract!Answer(r)
      PROVE  Contract!TypeOK' /\ Contract!Truthful'
  BY <1>3 DEF Contract!Answer
<1>4. ASSUME NEW r \in Runs, NEW event \in {"final", "error"}, Contract!Tell(r, event)
      PROVE  Contract!TypeOK' /\ Contract!Truthful'
  BY <1>4 DEF Contract!Tell
<1>5. CASE UNCHANGED Contract!vars
  BY <1>5 DEF Contract!vars
<1>. QED BY <1>1, <1>2, <1>3, <1>4, <1>5
         DEF Contract!Next, Contract!Accept, Contract!Start

\* Every behaviour of the contract is truthful, so the contract is strong enough
\* for the clients that rely on it.
THEOREM ContractIsTruthful == Contract!Spec => []Contract!Truthful
<1>1. Contract!Init => Contract!TypeOK /\ Contract!Truthful
  BY DEF Contract!Init, Contract!TypeOK, Contract!Truthful
<1>. QED BY <1>1, TruthIsKept, PTL DEF Contract!Spec

\* With the refinement: what a run tells its clients, what the conversation holds
\* and what its row says do not contradict each other, in any state of the Core.
THEOREM CoreRunIsTruthful == Spec => []Contract!Truthful
BY CoreRunKeepsContract, ContractIsTruthful, PTL DEF KeepsContract
=============================================================================
