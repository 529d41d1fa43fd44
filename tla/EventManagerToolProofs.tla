----------------------- MODULE EventManagerToolProofs -----------------------
(***************************************************************************)
(* The hand-over of tool results in EventManager, for any number of runs,  *)
(* tool calls and POSTs.  ToolInv is inductive together with TypeOK; it is *)
(* a conjunction over the keys, and an action other than the end of a run  *)
(* changes the state of one key, so each lemma looks at one key at a time. *)
(***************************************************************************)
EXTENDS EventManagerProofs

\* What publishing does to the terminal marks.
LEMMA PublishTerminal ==
  ASSUME TypeOK, NEW r \in Runs, NEW kind \in Kinds, Publish(r, kind)
  PROVE  /\ \A q \in Runs \ {r} : terminal'[q] = terminal[q]
         /\ terminal'[r] = 0 <=> terminal[r] = 0 /\ kind \notin Terminal
<1>1. terminal \in [Runs -> Nat] /\ Len(log[r]) \in Nat
  BY LenProperties DEF TypeOK
<1>. QED BY <1>1 DEF Publish, streamVars

LEMMA KeyRun == \A k \in Keys : k[1] \in Runs
BY DEF Keys

\* A key none of whose parts changes, in a run that neither ends nor restarts.
LEMMA UntouchedKey ==
  ASSUME NEW k \in Keys, ToolKeyInv(k),
         terminal'[k[1]] = 0 <=> terminal[k[1]] = 0,
         k \in expected' <=> k \in expected,
         k \in submitted' <=> k \in submitted,
         k \in registered' <=> k \in registered,
         parked'[k] = parked[k], fut'[k] = fut[k], held'[k] = held[k],
         phase'[k] = phase[k], outcome'[k] = outcome[k],
         accepted'[k] = accepted[k]
  PROVE  ToolKeyInv(k)'
BY DEF ToolKeyInv

LEMMA StreamStepKeepsToolInv ==
  ASSUME ToolInv, UNCHANGED toolVars,
         \A r \in Runs : terminal'[r] = 0 <=> terminal[r] = 0
  PROVE  ToolInv'
<1>. SUFFICES ASSUME NEW k \in Keys  PROVE ToolKeyInv(k)'
  BY DEF ToolInv
<1>1. ToolKeyInv(k) /\ k[1] \in Runs
  BY KeyRun DEF ToolInv
<1>. QED BY <1>1, UntouchedKey DEF toolVars

LEMMA EmitKeepsToolInv ==
  ASSUME TypeOK, ToolInv, NEW r \in Runs, NEW kind \in Kinds, Emit(r, kind)
  PROVE  ToolInv'
<1>1. /\ \A q \in Runs \ {r} : terminal'[q] = terminal[q]
      /\ terminal'[r] = 0 <=> terminal[r] = 0 /\ kind \notin Terminal
      /\ terminal[r] = 0
  BY PublishTerminal DEF Emit
<1>2. CASE kind \notin Terminal /\ UNCHANGED toolVars
  BY <1>1, <1>2, StreamStepKeepsToolInv
<1>3. CASE kind \in Terminal /\ ReleaseToolResults(r)
  <2>. SUFFICES ASSUME NEW k \in Keys  PROVE ToolKeyInv(k)'
    BY DEF ToolInv
  <2>1. ToolKeyInv(k) /\ k[1] \in Runs
    BY KeyRun DEF ToolInv
  <2>2. k \in KeysOf(r) <=> k[1] = r
    BY DEF KeysOf, Keys
  <2>3. CASE k[1] = r
    <3>1. /\ k \notin expected' /\ k \notin submitted' /\ parked'[k] = NoPost
          /\ terminal'[k[1]] # 0
      BY <1>1, <1>3, <2>1, <2>2, <2>3 DEF ReleaseToolResults, ToolKeyInv
    <3>2. fut'[k] = IF k \in registered /\ fut[k] = "pending"
                    THEN "cancelled" ELSE fut[k]
      BY <1>3, <2>2, <2>3 DEF ReleaseToolResults
    <3>3. /\ held'[k] = held[k] /\ phase'[k] = phase[k]
          /\ outcome'[k] = outcome[k] /\ accepted'[k] = accepted[k]
      BY <1>3 DEF ReleaseToolResults
    <3>. QED BY <2>1, <3>1, <3>2, <3>3 DEF ToolKeyInv
  <2>4. CASE k[1] # r
    <3>1. terminal'[k[1]] = terminal[k[1]]
      BY <1>1, <2>1, <2>4
    <3>2. /\ k \in expected' <=> k \in expected
          /\ k \in submitted' <=> k \in submitted
          /\ k \in registered' <=> k \in registered
          /\ parked'[k] = parked[k] /\ fut'[k] = fut[k]
          /\ held'[k] = held[k] /\ phase'[k] = phase[k]
          /\ outcome'[k] = outcome[k] /\ accepted'[k] = accepted[k]
      BY <1>3, <2>2, <2>4 DEF ReleaseToolResults
    <3>. QED BY <2>1, <3>1, <3>2, UntouchedKey
  <2>. QED BY <2>3, <2>4
<1>. QED BY <1>2, <1>3 DEF Emit

LEMMA DispatchKeepsToolInv ==
  ASSUME TypeOK, ToolInv, NEW j \in Keys, Dispatch(j)
  PROVE  ToolInv'
<1>1. j[1] \in Runs /\ "update" \in Kinds \ Terminal
  BY KeyRun DEF Kinds, Terminal
<1>2. \A r \in Runs : terminal'[r] = 0 <=> terminal[r] = 0
  BY <1>1, PublishTerminal DEF Dispatch
<1>. SUFFICES ASSUME NEW k \in Keys  PROVE ToolKeyInv(k)'
  BY DEF ToolInv
<1>3. ToolKeyInv(k) /\ k[1] \in Runs
  BY KeyRun DEF ToolInv
<1>4. phase'[k] = IF k = j THEN "expected" ELSE phase[k]
  BY DEF Dispatch, TypeOK
<1>5. CASE k # j
  BY <1>2, <1>3, <1>4, <1>5, UntouchedKey DEF Dispatch
<1>6. CASE k = j
  BY <1>2, <1>3, <1>4, <1>6 DEF Dispatch, ToolKeyInv
<1>. QED BY <1>5, <1>6

LEMMA BeginWaitKeepsToolInv ==
  ASSUME TypeOK, ToolInv, NEW j \in Keys, BeginWait(j)
  PROVE  ToolInv'
<1>. SUFFICES ASSUME NEW k \in Keys  PROVE ToolKeyInv(k)'
  BY DEF ToolInv
<1>1. ToolKeyInv(k) /\ terminal' = terminal
  BY DEF ToolInv, BeginWait, streamVars
<1>2. /\ held' = held /\ accepted' = accepted
      /\ phase[j] \in {"idle", "expected"}
  BY DEF BeginWait
<1>3. CASE /\ parked[j] # NoPost
           /\ parked' = [parked EXCEPT ![j] = NoPost]
           /\ Settle(j, parked[j])
           /\ UNCHANGED <<registered, fut>>
  <2>1. /\ parked'[k] = IF k = j THEN NoPost ELSE parked[k]
        /\ outcome'[k] = IF k = j THEN parked[j] ELSE outcome[k]
        /\ phase'[k] = IF k = j THEN "done" ELSE phase[k]
        /\ k \in expected' <=> k \in expected /\ k # j
        /\ k \in submitted' <=> k \in submitted /\ k # j
        /\ registered' = registered /\ fut' = fut
    BY <1>3 DEF Settle, TypeOK
  <2>2. CASE k # j
    BY <1>1, <1>2, <2>1, <2>2, UntouchedKey
  <2>3. CASE k = j
    BY <1>1, <1>2, <1>3, <2>1, <2>3 DEF ToolKeyInv
  <2>. QED BY <2>2, <2>3
<1>4. CASE /\ parked[j] = NoPost
           /\ registered' = registered \cup {j}
           /\ fut' = [fut EXCEPT ![j] = "pending"]
           /\ phase' = [phase EXCEPT ![j] = "waiting"]
           /\ UNCHANGED <<expected, submitted, parked, outcome>>
  <2>1. /\ fut'[k] = IF k = j THEN "pending" ELSE fut[k]
        /\ phase'[k] = IF k = j THEN "waiting" ELSE phase[k]
        /\ k \in registered' <=> k \in registered \/ k = j
    BY <1>4 DEF TypeOK
  <2>2. CASE k # j
    BY <1>1, <1>2, <1>4, <2>1, <2>2, UntouchedKey
  <2>3. CASE k = j
    BY <1>1, <1>2, <1>4, <2>1, <2>3, ConstantsAssumption DEF ToolKeyInv, TypeOK
  <2>. QED BY <2>2, <2>3
<1>. QED BY <1>3, <1>4 DEF BeginWait

\* Both timers.
LEMMA TimeOutKeepsToolInv ==
  ASSUME TypeOK, ToolInv, NEW j \in Keys, TimeOut(j) \/ CancelWait(j)
  PROVE  ToolInv'
<1>. SUFFICES ASSUME NEW k \in Keys  PROVE ToolKeyInv(k)'
  BY DEF ToolInv
<1>1. ToolKeyInv(k) /\ terminal' = terminal
  BY DEF ToolInv, TimeOut, CancelWait, streamVars
<1>2. /\ fut[j] \in {"pending", "timedOut"} /\ fut'[j] \in {"timedOut", "cancelled"}
      /\ k # j => fut'[k] = fut[k]
  BY DEF TimeOut, CancelWait, TypeOK
<1>3. CASE k # j
  BY <1>1, <1>2, <1>3, UntouchedKey DEF TimeOut, CancelWait
<1>4. CASE k = j
  BY <1>1, <1>2, <1>4 DEF TimeOut, CancelWait, ToolKeyInv
<1>. QED BY <1>3, <1>4

LEMMA FinishWaitKeepsToolInv ==
  ASSUME TypeOK, ToolInv, NEW j \in Keys, FinishWait(j)
  PROVE  ToolInv'
<1>. SUFFICES ASSUME NEW k \in Keys  PROVE ToolKeyInv(k)'
  BY DEF ToolInv
<1>1. /\ ToolKeyInv(k) /\ terminal' = terminal
      /\ parked' = parked /\ held' = held /\ accepted' = accepted
      /\ phase[j] = "waiting"
  BY DEF ToolInv, FinishWait, streamVars
<1>2. PICK o : /\ Settle(j, o)
               /\ \/ fut[j] = "resolved" /\ o = held[j]
                  \/ fut[j] = "timedOut" /\ o = "timeout"
                  \/ fut[j] = "cancelled" /\ o = "cancelled"
  BY DEF FinishWait
<1>3. /\ outcome'[k] = IF k = j THEN o ELSE outcome[k]
      /\ phase'[k] = IF k = j THEN "done" ELSE phase[k]
      /\ fut'[k] = IF k = j THEN "none" ELSE fut[k]
      /\ k \in registered' <=> k \in registered /\ k # j
      /\ k \in expected' <=> k \in expected /\ k # j
      /\ k \in submitted' <=> k \in submitted /\ k # j
  BY <1>2 DEF Settle, FinishWait, TypeOK
<1>4. CASE k # j
  BY <1>1, <1>3, <1>4, UntouchedKey
<1>5. CASE k = j
  <2>1. accepted[k] \subseteq Posts
    BY DEF TypeOK
  <2>. QED BY <1>1, <1>2, <1>3, <1>5, <2>1, ConstantsAssumption DEF ToolKeyInv
<1>. QED BY <1>4, <1>5

LEMMA PostResultKeepsToolInv ==
  ASSUME TypeOK, ToolInv, NEW p \in Posts, NEW j \in Keys, PostResult(p, j)
  PROVE  ToolInv'
<1>1. j[1] \in Runs /\ "update" \in Kinds \ Terminal
  BY KeyRun DEF Kinds, Terminal
<1>2. CASE /\ j \notin expected \/ j \in submitted
           /\ UNCHANGED <<streamVars, submitted, parked, fut, held, accepted>>
  <2>. SUFFICES ASSUME NEW k \in Keys  PROVE ToolKeyInv(k)'
    BY DEF ToolInv
  <2>1. ToolKeyInv(k) /\ terminal' = terminal
    BY <1>2 DEF ToolInv, streamVars
  <2>. QED BY <1>2, <2>1, UntouchedKey DEF PostResult
<1>3. CASE /\ j \in expected \ submitted
           /\ submitted' = submitted \cup {j}
           /\ accepted' = [accepted EXCEPT ![j] = @ \cup {p}]
           /\ HandOver(j, p)
           /\ Publish(j[1], "update")
  <2>1. \A r \in Runs : terminal'[r] = 0 <=> terminal[r] = 0
    BY <1>1, <1>3, PublishTerminal
  <2>. SUFFICES ASSUME NEW k \in Keys  PROVE ToolKeyInv(k)'
    BY DEF ToolInv
  <2>2. ToolKeyInv(k) /\ k[1] \in Runs
    BY KeyRun DEF ToolInv
  <2>3. /\ expected' = expected /\ registered' = registered
        /\ phase' = phase /\ outcome' = outcome
        /\ k \in submitted' <=> k \in submitted \/ k = j
        /\ accepted'[k] = IF k = j THEN accepted[j] \cup {p} ELSE accepted[k]
    BY <1>3 DEF PostResult, TypeOK
  <2>4. CASE /\ j \in registered /\ fut[j] = "pending"
             /\ fut' = [fut EXCEPT ![j] = "resolved"]
             /\ held' = [held EXCEPT ![j] = p]
             /\ UNCHANGED parked
    <3>1. /\ fut'[k] = IF k = j THEN "resolved" ELSE fut[k]
          /\ held'[k] = IF k = j THEN p ELSE held[k]
      BY <2>4 DEF TypeOK
    <3>2. CASE k # j
      BY <2>1, <2>2, <2>3, <2>4, <3>1, <3>2, UntouchedKey
    <3>3. CASE k = j
      BY <1>3, <2>1, <2>2, <2>3, <2>4, <3>1, <3>3 DEF ToolKeyInv
    <3>. QED BY <3>2, <3>3
  <2>5. CASE /\ ~(j \in registered /\ fut[j] = "pending")
             /\ parked' = [parked EXCEPT ![j] = p]
             /\ UNCHANGED <<fut, held>>
    <3>1. parked'[k] = IF k = j THEN p ELSE parked[k]
      BY <2>5 DEF TypeOK
    <3>2. CASE k # j
      BY <2>1, <2>2, <2>3, <2>5, <3>1, <3>2, UntouchedKey
    <3>3. CASE k = j
      BY <1>3, <2>1, <2>2, <2>3, <2>5, <3>1, <3>3 DEF ToolKeyInv
    <3>. QED BY <3>2, <3>3
  <2>. QED BY <1>3, <2>4, <2>5 DEF HandOver
<1>. QED BY <1>2, <1>3 DEF PostResult

LEMMA ToolInvInit == Init => ToolInv
BY KeyRun, ConstantsAssumption DEF Init, ToolInv, ToolKeyInv

LEMMA ToolInvNext == ASSUME TypeOK, ToolInv, [Next]_vars  PROVE ToolInv'
<1>1. ASSUME NEW r \in Runs, NEW kind \in Kinds, Emit(r, kind)  PROVE ToolInv'
  BY <1>1, EmitKeepsToolInv
<1>2. ASSUME NEW c \in Conns, NEW r \in Runs,
             Listen(c, r) \/ Deliver(c) \/ Drop(c) \/ Cancel(c) \/ Cleanup(c)
      PROVE  ToolInv'
  BY <1>2, StreamStepKeepsToolInv
     DEF Listen, Deliver, Drop, Cancel, Cleanup, streamVars
<1>3. ASSUME NEW k \in Keys, Dispatch(k)  PROVE ToolInv'
  BY <1>3, DispatchKeepsToolInv
<1>4. ASSUME NEW k \in Keys, BeginWait(k)  PROVE ToolInv'
  BY <1>4, BeginWaitKeepsToolInv
<1>5. ASSUME NEW k \in Keys, TimeOut(k) \/ CancelWait(k)  PROVE ToolInv'
  BY <1>5, TimeOutKeepsToolInv
<1>6. ASSUME NEW k \in Keys, FinishWait(k)  PROVE ToolInv'
  BY <1>6, FinishWaitKeepsToolInv
<1>7. ASSUME NEW p \in Posts, NEW k \in Keys, PostResult(p, k)  PROVE ToolInv'
  BY <1>7, PostResultKeepsToolInv
<1>8. ASSUME Tick \/ UNCHANGED vars  PROVE ToolInv'
  BY <1>8, StreamStepKeepsToolInv DEF Tick, vars, streamVars
<1>9. ASSUME NEW c \in Conns, Deliver(c) \/ Drop(c) \/ Cancel(c) \/ Cleanup(c)
      PROVE  ToolInv'
  BY <1>9, StreamStepKeepsToolInv DEF Deliver, Drop, Cancel, Cleanup, streamVars
<1>. QED BY <1>1, <1>2, <1>3, <1>4, <1>5, <1>6, <1>7, <1>8, <1>9 DEF Next

LEMMA ToolInvImplies ==
  ASSUME TypeOK, ToolInv
  PROVE  /\ AtMostOneAccepted
         /\ EndedRunHoldsNothing
         /\ AcceptedResultIsKept
         /\ OutcomeWasAccepted
<1>1. AtMostOneAccepted
  BY DEF ToolInv, ToolKeyInv, AtMostOneAccepted
<1>2. EndedRunHoldsNothing
  <2>1. \A r \in Runs : \A k \in KeysOf(r) : k \in Keys /\ k[1] = r
    BY DEF KeysOf, Keys
  <2>. QED BY <2>1 DEF ToolInv, ToolKeyInv, EndedRunHoldsNothing
<1>3. AcceptedResultIsKept
  BY DEF ToolInv, ToolKeyInv, AcceptedResultIsKept
<1>4. OutcomeWasAccepted
  BY DEF ToolInv, ToolKeyInv, OutcomeWasAccepted
<1>. QED BY <1>1, <1>2, <1>3, <1>4

\* The hand-over contract, for any number of runs, calls and POSTs: at most one
\* POST for a call is accepted, a run that has ended holds nothing, an accepted
\* result is kept until the run ends or the wait takes it, and a wait returns
\* only what was accepted.
THEOREM ToolSafety ==
  Spec => [](/\ AtMostOneAccepted
             /\ EndedRunHoldsNothing
             /\ AcceptedResultIsKept
             /\ OutcomeWasAccepted)
<1>1. Init => ToolInv
  BY ToolInvInit
<1>2. TypeOK /\ ToolInv /\ [Next]_vars => ToolInv'
  BY ToolInvNext
<1>3. TypeOK /\ ToolInv => /\ AtMostOneAccepted
                           /\ EndedRunHoldsNothing
                           /\ AcceptedResultIsKept
                           /\ OutcomeWasAccepted
  BY ToolInvImplies
<1>. QED BY <1>1, <1>2, <1>3, TypeCorrect, PTL DEF Spec

-----------------------------------------------------------------------------
(***************************************************************************)
(* The bus implements ResultHandover.                                      *)
(***************************************************************************)
LEMMA HandInvInit == Init => HandInv
BY DEF Init, HandInv

LEMMA HandInvNext == ASSUME TypeOK, HandInv, [Next]_vars  PROVE HandInv'
<1>1. ASSUME answered' = answered, accepted' = accepted  PROVE HandInv'
  BY <1>1 DEF HandInv
<1>2. ASSUME NEW r \in Runs, NEW kind \in Kinds, Emit(r, kind)  PROVE HandInv'
  BY <1>1, <1>2 DEF Emit, ReleaseToolResults, toolVars
<1>3. ASSUME NEW c \in Conns, NEW r \in Runs, Listen(c, r)  PROVE HandInv'
  BY <1>1, <1>3 DEF Listen, toolVars
<1>4. ASSUME NEW c \in Conns, Deliver(c) \/ Drop(c) \/ Cancel(c) \/ Cleanup(c)
      PROVE  HandInv'
  BY <1>1, <1>4 DEF Deliver, Drop, Cancel, Cleanup, toolVars
<1>5. ASSUME NEW k \in Keys, Dispatch(k)  PROVE HandInv'
  BY <1>1, <1>5 DEF Dispatch
<1>6. ASSUME NEW k \in Keys,
             BeginWait(k) \/ TimeOut(k) \/ CancelWait(k) \/ FinishWait(k)
      PROVE  HandInv'
  BY <1>1, <1>6 DEF BeginWait, TimeOut, CancelWait, FinishWait
<1>7. ASSUME NEW p \in Posts, NEW j \in Keys, PostResult(p, j)  PROVE HandInv'
  <2>1. /\ answered' = answered \cup {p}
        /\ accepted' = accepted \/ accepted' = [accepted EXCEPT ![j] = @ \cup {p}]
    BY <1>7 DEF PostResult
  <2>2. ASSUME NEW k \in Keys  PROVE accepted'[k] \subseteq accepted[k] \cup {p}
    BY <2>1 DEF TypeOK
  <2>. QED BY <2>1, <2>2 DEF HandInv
<1>8. ASSUME Tick \/ UNCHANGED vars  PROVE HandInv'
  BY <1>1, <1>8 DEF Tick, vars, toolVars
<1>. QED BY <1>2, <1>3, <1>4, <1>5, <1>6, <1>7, <1>8 DEF Next

HandStep == [Handover!Next]_(Handover!vars)

\* Stages and results are those of a key, and one that is the same in both
\* states has both unchanged.
LEMMA SameStage ==
  ASSUME NEW k \in Keys, accepted'[k] = accepted[k],
         accepted[k] # {} \/ (k \in expected' <=> k \in expected),
         accepted[k] # {} \/ (phase'[k] = "idle" <=> phase[k] = "idle")
  PROVE  Stage(k)' = Stage(k) /\ Taken(k)' = Taken(k)
BY DEF Stage, Taken

LEMMA NothingHanded ==
  ASSUME \A k \in Keys : Stage(k)' = Stage(k) /\ Taken(k)' = Taken(k),
         outcome' = outcome
  PROVE  HandStep
BY DEF HandStep, Handover!vars

\* Of the results posted for a call, the one accepted is the one taken.
LEMMA TakenIsAccepted ==
  ASSUME ToolInv, NEW k \in Keys, NEW p \in accepted[k]
  PROVE  Taken(k) = p /\ Stage(k) = "given"
<1>1. (CHOOSE q \in accepted[k] : TRUE) \in accepted[k]
  OBVIOUS
<1>2. \A q \in accepted[k] : q = p
  BY DEF ToolInv, ToolKeyInv
<1>3. accepted[k] # {}
  OBVIOUS
<1>. QED BY <1>1, <1>2, <1>3 DEF Taken, Stage

\* The end of a run closes the calls it still asks for.
LEMMA EmitIsHanded ==
  ASSUME TypeOK, ToolInv, NEW r \in Runs, NEW kind \in Kinds, Emit(r, kind)
  PROVE  HandStep
<1>1. CASE UNCHANGED toolVars
  BY <1>1, SameStage, NothingHanded DEF toolVars
<1>2. CASE ReleaseToolResults(r)
  <2>1. accepted' = accepted /\ phase' = phase /\ outcome' = outcome
    BY <1>2 DEF ReleaseToolResults
  <2>2. ASSUME NEW k \in Keys
        PROVE  /\ Taken(k)' = Taken(k)
               /\ Stage(k)' = IF k[1] = r /\ Stage(k) = "asked" THEN "closed" ELSE Stage(k)
    <3>1. k \in KeysOf(r) <=> k[1] = r
      BY DEF KeysOf, Keys
    <3>2. k \in expected' <=> k \in expected /\ k[1] # r
      BY <1>2, <3>1 DEF ReleaseToolResults
    <3>3. k \in expected => phase[k] # "idle"
      BY DEF ToolInv, ToolKeyInv
    <3>4. Taken(k)' = Taken(k)
      BY <2>1 DEF Taken
    <3>5. CASE accepted[k] # {}
      BY <2>1, <3>4, <3>5 DEF Stage
    <3>6. CASE accepted[k] = {}
      BY <2>1, <3>2, <3>3, <3>4, <3>6 DEF Stage
    <3>. QED BY <3>5, <3>6
  <2>3. Handover!Close(r)
    <3>1. [k \in Keys |-> Stage(k)'] =
            [k \in Keys |-> IF k[1] = r /\ [j \in Keys |-> Stage(j)][k] = "asked"
                            THEN "closed" ELSE [j \in Keys |-> Stage(j)][k]]
      BY <2>2
    <3>2. [k \in Keys |-> Taken(k)'] = [k \in Keys |-> Taken(k)]
      BY <2>2
    <3>. QED BY <2>1, <3>1, <3>2 DEF Handover!Close, Handover!Keys, Keys
  <2>. QED BY <2>3 DEF HandStep, Handover!Next
<1>. QED BY <1>1, <1>2 DEF Emit

\* Dispatching a call asks for its result.
LEMMA DispatchIsHanded ==
  ASSUME TypeOK, ToolInv, NEW j \in Keys, Dispatch(j)
  PROVE  HandStep
<1>1. /\ phase[j] = "idle" /\ accepted[j] = {} /\ j \notin expected
      /\ expected' = expected \cup {j} /\ accepted' = accepted /\ outcome' = outcome
      /\ phase' = [phase EXCEPT ![j] = "expected"]
  BY DEF Dispatch, ToolInv, ToolKeyInv
<1>2. \A k \in Keys : k # j => Stage(k)' = Stage(k) /\ Taken(k)' = Taken(k)
  BY <1>1, SameStage DEF TypeOK
<1>3. Stage(j) = "new" /\ Stage(j)' = "asked" /\ Taken(j)' = Taken(j)
  BY <1>1 DEF Stage, Taken
<1>4. Handover!Ask(j)
  <2>1. [k \in Keys |-> Stage(k)'] = [[k \in Keys |-> Stage(k)] EXCEPT ![j] = "asked"]
    BY <1>2, <1>3
  <2>2. [k \in Keys |-> Taken(k)'] = [k \in Keys |-> Taken(k)]
    BY <1>2, <1>3
  <2>3. [k \in Keys |-> Stage(k)][j] = "new"
    BY <1>3
  <2>. QED BY <1>1, <2>1, <2>2, <2>3 DEF Handover!Ask
<1>. QED BY <1>4 DEF HandStep, Handover!Next, Handover!Keys, Keys

\* A wait takes what was accepted.
LEMMA TakeIsHanded ==
  ASSUME TypeOK, ToolInv, NEW j \in Keys, NEW p \in accepted[j], Settle(j, p),
         phase[j] # "done", phase[j] # "idle", accepted' = accepted
  PROVE  HandStep
<1>1. Stage(j) = "given" /\ Taken(j) = p
  BY TakenIsAccepted
<1>2. /\ outcome' = [outcome EXCEPT ![j] = p] /\ outcome[j] = NoPost
      /\ phase' = [phase EXCEPT ![j] = "done"] /\ expected' = expected \ {j}
  BY DEF Settle, ToolInv, ToolKeyInv
<1>3. \A k \in Keys : Stage(k)' = Stage(k) /\ Taken(k)' = Taken(k)
  <2>1. accepted[j] # {}
    OBVIOUS
  <2>2. \A k \in Keys : k # j => phase'[k] = phase[k] /\ (k \in expected' <=> k \in expected)
    BY <1>2 DEF TypeOK
  <2>. QED BY <2>1, <2>2, SameStage
<1>4. Handover!Take(j)
  <2>1. /\ [k \in Keys |-> Stage(k)'] = [k \in Keys |-> Stage(k)]
        /\ [k \in Keys |-> Taken(k)'] = [k \in Keys |-> Taken(k)]
    BY <1>3
  <2>2. [k \in Keys |-> Stage(k)][j] = "given" /\ [k \in Keys |-> Taken(k)][j] = p
    BY <1>1
  <2>. QED BY <1>2, <2>1, <2>2 DEF Handover!Take, Handover!Return
<1>. QED BY <1>4 DEF HandStep, Handover!Next, Handover!Keys, Keys

\* A wait that finds its result takes it; the wait for a call that was not
\* dispatched reuses what is known; any other wait changes nothing yet.
LEMMA BeginWaitIsHanded ==
  ASSUME TypeOK, ToolInv, NEW j \in Keys, BeginWait(j)
  PROVE  HandStep
<1>1. phase[j] \in {"idle", "expected"} /\ accepted' = accepted
  BY DEF BeginWait
<1>2. CASE parked[j] # NoPost /\ Settle(j, parked[j])
  <2>1. parked[j] \in accepted[j] /\ phase[j] # "idle"
    BY <1>2 DEF ToolInv, ToolKeyInv
  <2>. QED BY <1>1, <1>2, <2>1, TakeIsHanded
<1>3. CASE /\ phase' = [phase EXCEPT ![j] = "waiting"]
           /\ UNCHANGED <<expected, submitted, parked, outcome>>
  <2>1. \A k \in Keys : k # j => phase'[k] = phase[k]
    BY <1>3 DEF TypeOK
  <2>2. CASE phase[j] = "expected"
    <3>1. \A k \in Keys : phase'[k] = "idle" <=> phase[k] = "idle"
      BY <1>3, <2>1, <2>2 DEF TypeOK
    <3>. QED BY <1>1, <1>3, <3>1, SameStage, NothingHanded
  <2>3. CASE phase[j] = "idle"
    <3>1. accepted[j] = {} /\ j \notin expected /\ phase'[j] = "waiting"
      BY <1>3, <2>3 DEF ToolInv, ToolKeyInv, TypeOK
    <3>2. Stage(j) = "new" /\ Stage(j)' = "closed" /\ Taken(j)' = Taken(j)
      BY <1>1, <1>3, <2>3, <3>1 DEF Stage, Taken
    <3>3. \A k \in Keys : k # j => Stage(k)' = Stage(k) /\ Taken(k)' = Taken(k)
      BY <1>1, <1>3, <2>1, SameStage
    <3>4. Handover!Reuse(j)
      <4>1. [k \in Keys |-> Stage(k)'] = [[k \in Keys |-> Stage(k)] EXCEPT ![j] = "closed"]
        BY <3>2, <3>3
      <4>2. [k \in Keys |-> Taken(k)'] = [k \in Keys |-> Taken(k)]
        BY <3>2, <3>3
      <4>3. [k \in Keys |-> Stage(k)][j] = "new"
        BY <3>2
      <4>. QED BY <1>3, <4>1, <4>2, <4>3 DEF Handover!Reuse
    <3>. QED BY <3>4 DEF HandStep, Handover!Next, Handover!Keys, Keys
  <2>. QED BY <1>1, <2>2, <2>3
<1>. QED BY <1>2, <1>3 DEF BeginWait

\* A wait that ends without a result gives up.
LEMMA FinishWaitIsHanded ==
  ASSUME TypeOK, ToolInv, NEW j \in Keys, FinishWait(j)
  PROVE  HandStep
<1>1. /\ phase[j] = "waiting" /\ accepted' = accepted /\ outcome[j] = NoPost
  BY DEF FinishWait, ToolInv, ToolKeyInv
<1>2. CASE fut[j] = "resolved" /\ Settle(j, held[j])
  <2>1. held[j] \in accepted[j]
    BY <1>2 DEF ToolInv, ToolKeyInv
  <2>. QED BY <1>1, <1>2, <2>1, TakeIsHanded
<1>3. ASSUME NEW o, Settle(j, o)
      PROVE  /\ outcome' = [outcome EXCEPT ![j] = o]
             /\ \A k \in Keys : Taken(k)' = Taken(k)
             /\ \A k \in Keys : k # j => Stage(k)' = Stage(k)
             /\ Stage(j)' = IF Stage(j) = "asked" THEN "closed" ELSE Stage(j)
             /\ Stage(j) # "new"
  <2>1. /\ phase' = [phase EXCEPT ![j] = "done"] /\ expected' = expected \ {j}
        /\ outcome' = [outcome EXCEPT ![j] = o]
    BY <1>3 DEF Settle
  <2>2. \A k \in Keys : Taken(k)' = Taken(k)
    BY <1>1 DEF Taken
  <2>3. \A k \in Keys : k # j => Stage(k)' = Stage(k)
    BY <1>1, <2>1, SameStage DEF TypeOK
  <2>4. phase'[j] = "done" /\ j \notin expected'
    BY <2>1 DEF TypeOK
  <2>5. Stage(j)' = IF accepted[j] # {} THEN "given" ELSE "closed"
    BY <1>1, <2>4 DEF Stage
  <2>6. Stage(j) = IF accepted[j] # {} THEN "given"
                   ELSE IF j \in expected THEN "asked" ELSE "closed"
    BY <1>1 DEF Stage
  <2>. QED BY <2>1, <2>2, <2>3, <2>5, <2>6
<1>4. ASSUME NEW o \in {"timeout", "cancelled"}, Settle(j, o)  PROVE HandStep
  <2>1. Handover!GiveUp(j, o)
    <3>1. [k \in Keys |-> Stage(k)'] =
            [[k \in Keys |-> Stage(k)] EXCEPT ![j] = IF @ = "asked" THEN "closed" ELSE @]
      BY <1>3, <1>4
    <3>2. [k \in Keys |-> Taken(k)'] = [k \in Keys |-> Taken(k)]
      BY <1>3, <1>4
    <3>3. [k \in Keys |-> Stage(k)][j] # "new"
      BY <1>3, <1>4
    <3>. QED BY <1>1, <1>3, <1>4, <3>1, <3>2, <3>3 DEF Handover!GiveUp, Handover!Return
  <2>. QED BY <2>1 DEF HandStep, Handover!Next, Handover!Keys, Keys
<1>. QED BY <1>2, <1>4 DEF FinishWait

\* An accepted POST gives the result of a call that is open, and no POST gives
\* more than one.
LEMMA PostResultIsHanded ==
  ASSUME TypeOK, ToolInv, HandInv, NEW p \in Posts, NEW j \in Keys, PostResult(p, j)
  PROVE  HandStep
<1>1. /\ p \notin answered /\ expected' = expected /\ phase' = phase
      /\ outcome' = outcome
  BY DEF PostResult
<1>2. CASE UNCHANGED accepted
  BY <1>1, <1>2, SameStage, NothingHanded
<1>3. CASE j \in expected \ submitted /\ accepted' = [accepted EXCEPT ![j] = @ \cup {p}]
  <2>1. accepted[j] = {} /\ j \in expected
    BY <1>3 DEF ToolInv, ToolKeyInv
  <2>2. accepted'[j] = {p} /\ \A k \in Keys : k # j => accepted'[k] = accepted[k]
    BY <1>3, <2>1 DEF TypeOK
  <2>3. Stage(j) = "asked" /\ Stage(j)' = "given"
    BY <2>1, <2>2 DEF Stage
  <2>4. Taken(j)' = p
    <3>1. (CHOOSE q \in {p} : TRUE) = p
      OBVIOUS
    <3>. QED BY <2>2, <3>1 DEF Taken
  <2>5. \A k \in Keys : k # j => Stage(k)' = Stage(k) /\ Taken(k)' = Taken(k)
    BY <1>1, <2>2, SameStage
  <2>6. ASSUME NEW k \in Keys  PROVE Taken(k) # p
    <3>1. CASE accepted[k] = {}
      BY <3>1, ConstantsAssumption DEF Taken
    <3>2. CASE accepted[k] # {}
      <4>1. PICK q \in accepted[k] : TRUE
        BY <3>2
      <4>2. Taken(k) = q
        BY <4>1, TakenIsAccepted
      <4>. QED BY <1>1, <4>1, <4>2 DEF HandInv
    <3>. QED BY <3>1, <3>2
  <2>7. Handover!Give(j, p)
    <3>1. [k \in Keys |-> Stage(k)'] = [[k \in Keys |-> Stage(k)] EXCEPT ![j] = "given"]
      BY <2>3, <2>5
    <3>2. [k \in Keys |-> Taken(k)'] = [[k \in Keys |-> Taken(k)] EXCEPT ![j] = p]
      BY <2>4, <2>5
    <3>3. /\ [k \in Keys |-> Stage(k)][j] = "asked"
          /\ \A k \in Keys : [i \in Keys |-> Taken(i)][k] # p
      BY <2>3, <2>6
    <3>. QED BY <1>1, <3>1, <3>2, <3>3 DEF Handover!Give, Handover!Keys, Keys
  <2>. QED BY <2>7 DEF HandStep, Handover!Next, Handover!Keys, Keys
<1>. QED BY <1>2, <1>3 DEF PostResult

LEMMA StepIsHanded == ASSUME TypeOK, ToolInv, HandInv, [Next]_vars  PROVE HandStep
<1>1. ASSUME NEW r \in Runs, NEW kind \in Kinds, Emit(r, kind)  PROVE HandStep
  BY <1>1, EmitIsHanded
<1>2. ASSUME UNCHANGED <<accepted, expected, phase, outcome>>  PROVE HandStep
  BY <1>2, SameStage, NothingHanded
<1>3. ASSUME NEW c \in Conns, NEW r \in Runs, Listen(c, r)  PROVE HandStep
  BY <1>2, <1>3 DEF Listen, toolVars
<1>4. ASSUME NEW c \in Conns, Deliver(c) \/ Drop(c) \/ Cancel(c) \/ Cleanup(c)
      PROVE  HandStep
  BY <1>2, <1>4 DEF Deliver, Drop, Cancel, Cleanup, toolVars
<1>5. ASSUME NEW k \in Keys, Dispatch(k)  PROVE HandStep
  BY <1>5, DispatchIsHanded
<1>6. ASSUME NEW k \in Keys, BeginWait(k)  PROVE HandStep
  BY <1>6, BeginWaitIsHanded
<1>7. ASSUME NEW k \in Keys, TimeOut(k) \/ CancelWait(k)  PROVE HandStep
  BY <1>2, <1>7 DEF TimeOut, CancelWait
<1>8. ASSUME NEW k \in Keys, FinishWait(k)  PROVE HandStep
  BY <1>8, FinishWaitIsHanded
<1>9. ASSUME NEW p \in Posts, NEW k \in Keys, PostResult(p, k)  PROVE HandStep
  BY <1>9, PostResultIsHanded
<1>10. ASSUME Tick \/ UNCHANGED vars  PROVE HandStep
  BY <1>2, <1>10 DEF Tick, vars, toolVars
<1>. QED BY <1>1, <1>3, <1>4, <1>5, <1>6, <1>7, <1>8, <1>9, <1>10 DEF Next

\* The bus hands over one result per call, for any number of runs, calls and
\* POSTs: whether a result is parked or resolves a future, and wherever the timer
\* of the wait, the timer of the pass, a retried POST or the end of the run falls,
\* a result is accepted only for a call that was asked for and is still waited
\* for, one at most, and the wait returns that one, a timeout or a cancellation.
THEOREM BusHandsOverOnce == Spec => HandsOverOnce
<1>1. Init => ToolInv /\ HandInv
  BY ToolInvInit, HandInvInit
<1>2. TypeOK /\ (ToolInv /\ HandInv) /\ [Next]_vars => (ToolInv /\ HandInv)'
  BY ToolInvNext, HandInvNext
<1>3. Init => Handover!Init
  <2>1. ASSUME Init, NEW k \in Keys  PROVE Stage(k) = "new" /\ Taken(k) = NoPost
    BY <2>1 DEF Init, Stage, Taken
  <2>. QED BY <2>1 DEF Init, Handover!Init, Handover!Keys, Keys
<1>4. TypeOK /\ (ToolInv /\ HandInv) /\ [Next]_vars => HandStep
  BY StepIsHanded
<1>. QED BY <1>1, <1>2, <1>3, <1>4, TypeCorrect, PTL
         DEF Spec, HandsOverOnce, Handover!Spec, HandStep
=============================================================================
