-------------------------- MODULE ToolLeaseProofs ---------------------------
(***************************************************************************)
(* ToolLease for any number of invocations, calls and users and any        *)
(* timeout: TypeOK and LeaseInv are inductive together.  Time matters in   *)
(* one place: a claim that comes while a call without GPU is executed, or  *)
(* while the result of a prompt call is stored, finds the lease unexpired, *)
(* because the slack covers twice the lag.                                 *)
(***************************************************************************)
EXTENDS ToolLease, SequenceTheorems, TLAPS

LEMMA LeaseConstants ==
  /\ Timeout \in Nat /\ Slack \in Nat /\ Lag \in Nat /\ PollLimit \in Nat
  /\ 2 * Lag <= Slack
  /\ Nobody \notin Invocations
BY LeaseAssumption

\* What the sequence operators do to a queue of invocations.
LEMMA QueueFacts ==
  ASSUME NEW q \in Seq(Invocations), NEW r \in Invocations
  PROVE  /\ Append(q, r) \in Seq(Invocations) /\ Append(q, r) # <<>>
         /\ q # <<>> => Head(Append(q, r)) = Head(q)
         /\ q # <<>> => Tail(q) \in Seq(Invocations)
         /\ <<>> \in Seq(Invocations)
<1>1. Append(q, r) \in Seq(Invocations) /\ Len(Append(q, r)) = Len(q) + 1
      /\ (\A i \in 1 .. Len(q) : Append(q, r)[i] = q[i])
  BY AppendProperties
<1>2. q # <<>> => Len(q) \in Nat \ {0} /\ Head(q) = q[1] /\ Tail(q) \in Seq(Invocations)
  BY HeadTailProperties, EmptySeq, LenProperties
<1>3. Append(q, r) # <<>>
  BY <1>1, EmptySeq, LenProperties
<1>4. ASSUME q # <<>>  PROVE Head(Append(q, r)) = Head(q)
  <2>1. 1 \in 1 .. Len(q) /\ Head(q) = q[1]
    BY <1>2, <1>4
  <2>2. Head(Append(q, r)) = Append(q, r)[1]
    BY <1>1, <1>3, HeadTailProperties
  <2>. QED BY <1>1, <2>1, <2>2
<1>. QED BY <1>1, <1>2, <1>3, <1>4, EmptySeq

LEMMA SomeLabels == "claiming" \in Labels /\ "polling" \in Labels
BY DEF Labels, Timed

LEMMA GoToFacts ==
  ASSUME TypeOK, NEW r \in Invocations, NEW l \in Labels, GoTo(r, l)
  PROVE  /\ pc' \in [Invocations -> Labels] /\ age' \in [Invocations -> Nat]
         /\ pc'[r] = l /\ age'[r] = 0
         /\ \A q \in Invocations \ {r} : pc'[q] = pc[q] /\ age'[q] = age[q]
BY DEF GoTo, TypeOK

LEMMA ReturnFacts ==
  ASSUME TypeOK, NEW r \in Invocations,
         NEW st \in {"none", "pending"} \cup Settled,
         NEW res \in Invocations \cup {Nobody},
         Return(r, st, res)
  PROVE  /\ pc' \in [Invocations -> Labels] /\ age' \in [Invocations -> Nat]
         /\ answer' \in [Invocations -> {"none", "pending"} \cup Settled]
         /\ shown' \in [Invocations -> Invocations \cup {Nobody}]
         /\ pc'[r] = "done" /\ age'[r] = 0
         /\ answer'[r] = st /\ shown'[r] = res
         /\ \A q \in Invocations \ {r} : /\ pc'[q] = pc[q] /\ age'[q] = age[q]
                                         /\ answer'[q] = answer[q]
                                         /\ shown'[q] = shown[q]
<1>1. /\ pc' \in [Invocations -> Labels] /\ age' \in [Invocations -> Nat]
      /\ pc'[r] = "done" /\ age'[r] = 0
      /\ \A q \in Invocations \ {r} : pc'[q] = pc[q] /\ age'[q] = age[q]
  BY GoToFacts DEF Return, Labels
<1>. QED BY <1>1 DEF Return, TypeOK

LEMMA ReturnStoredFacts ==
  ASSUME TypeOK, NEW r \in Invocations,
         status[callOf[r]] \in Settled, ReturnStored(r)
  PROVE  /\ pc' \in [Invocations -> Labels] /\ age' \in [Invocations -> Nat]
         /\ answer' \in [Invocations -> {"none", "pending"} \cup Settled]
         /\ shown' \in [Invocations -> Invocations \cup {Nobody}]
         /\ pc'[r] = "done" /\ age'[r] = 0
         /\ answer'[r] = status[callOf[r]] /\ shown'[r] = result[callOf[r]]
         /\ \A q \in Invocations \ {r} : /\ pc'[q] = pc[q] /\ age'[q] = age[q]
                                         /\ answer'[q] = answer[q]
                                         /\ shown'[q] = shown[q]
<1>. DEFINE st == status[callOf[r]]
            res == result[callOf[r]]
<1>1. /\ Return(r, st, res)
      /\ st \in {"none", "pending"} \cup Settled
      /\ res \in Invocations \cup {Nobody}
  BY DEF ReturnStored, TypeOK
<1>. HIDE DEF st, res
<1>2. /\ pc' \in [Invocations -> Labels] /\ age' \in [Invocations -> Nat]
      /\ answer' \in [Invocations -> {"none", "pending"} \cup Settled]
      /\ shown' \in [Invocations -> Invocations \cup {Nobody}]
      /\ pc'[r] = "done" /\ age'[r] = 0
      /\ answer'[r] = st /\ shown'[r] = res
      /\ \A q \in Invocations \ {r} : /\ pc'[q] = pc[q] /\ age'[q] = age[q]
                                      /\ answer'[q] = answer[q]
                                      /\ shown'[q] = shown[q]
  BY <1>1, ReturnFacts
<1>. QED BY <1>2 DEF st, res

\* The four outcomes of registering.
LEMMA RegisterFacts ==
  ASSUME TypeOK, NEW r \in Invocations, Register(r)
  PROVE  /\ pc[r] = "idle" /\ age'[r] = 0
         /\ pc'[r] \in {"claiming", "raised", "done", "polling"}
         /\ pc' \in [Invocations -> Labels] /\ age' \in [Invocations -> Nat]
         /\ \A q \in Invocations \ {r} : /\ pc'[q] = pc[q] /\ age'[q] = age[q]
                                         /\ answer'[q] = answer[q]
                                         /\ shown'[q] = shown[q]
         /\ answer' \in [Invocations -> {"none", "pending"} \cup Settled]
         /\ shown' \in [Invocations -> Invocations \cup {Nobody}]
         /\ status' \in [Calls -> States] /\ owner' \in [Calls -> Users \cup {Nobody}]
         /\ \/ answer'[r] = answer[r] /\ shown'[r] = shown[r]
            \/ answer'[r] = status[callOf[r]] /\ shown'[r] = result[callOf[r]]
         /\ \A k \in Calls : \/ status'[k] = status[k]
                             \/ status[k] = "none" /\ status'[k] = "queued"
<1>. DEFINE k == callOf[r]
<1>0. /\ k \in Calls /\ userOf[r] \in Users
      /\ status \in [Calls -> States] /\ owner \in [Calls -> Users \cup {Nobody}]
      /\ answer \in [Invocations -> {"none", "pending"} \cup Settled]
      /\ shown \in [Invocations -> Invocations \cup {Nobody}]
      /\ result[k] \in Invocations \cup {Nobody}
  BY DEF TypeOK
<1>1. CASE /\ status[k] = "none" /\ GoTo(r, "claiming")
           /\ status' = [status EXCEPT ![k] = "queued"]
           /\ owner' = [owner EXCEPT ![k] = userOf[r]]
           /\ UNCHANGED <<answer, shown>>
  <2>1. status' \in [Calls -> States] /\ owner' \in [Calls -> Users \cup {Nobody}]
    BY <1>0, <1>1 DEF States
  <2>2. "claiming" \in Labels
    BY SomeLabels
  <2>. QED BY <1>0, <1>1, <2>1, <2>2, GoToFacts DEF Register, Timed
<1>2. CASE /\ GoTo(r, "raised") /\ UNCHANGED <<status, owner, answer, shown>>
  BY <1>0, <1>2, GoToFacts DEF Register, Labels
<1>3. CASE /\ status[k] \in Settled /\ ReturnStored(r) /\ UNCHANGED <<status, owner>>
  <2>1. answer'[r] = status[k] /\ shown'[r] = result[k]
    BY <1>3, ReturnStoredFacts
  <2>. QED BY <1>0, <1>3, <2>1, ReturnStoredFacts DEF Register
<1>4. CASE /\ \/ GoTo(r, "polling")
              \/ GoTo(r, "claiming")
           /\ UNCHANGED <<status, owner, answer, shown>>
  BY <1>0, <1>4, GoToFacts DEF Register, Labels, Timed
<1>. QED BY <1>1, <1>2, <1>3, <1>4 DEF Register

\* The two outcomes of a claim.
LEMMA ClaimFacts ==
  ASSUME TypeOK, LeaseInv, NEW r \in Invocations, Claim(r)
  PROVE  /\ pc[r] = "claiming" /\ age[r] \in Nat /\ age[r] <= Lag /\ age'[r] = 0
         /\ callOf[r] \in Calls
         /\ pc' \in [Invocations -> Labels] /\ age' \in [Invocations -> Nat]
         /\ pc'[r] \in {"queueing", "executing", "polling"}
         /\ \A q \in Invocations \ {r} : pc'[q] = pc[q] /\ age'[q] = age[q]
         /\ \A j \in Calls \ {callOf[r]} : /\ status'[j] = status[j]
                                           /\ lease'[j] = lease[j]
                                           /\ left'[j] = left[j]
         /\ \/ /\ Claimable(r)
               /\ status' = [status EXCEPT ![callOf[r]] = "running"]
               /\ lease' = [lease EXCEPT ![callOf[r]] = r]
               /\ left' = [left EXCEPT ![callOf[r]] = Timeout + Slack - age[r]]
               /\ status'[callOf[r]] = "running" /\ lease'[callOf[r]] = r
               /\ left'[callOf[r]] = Timeout + Slack - age[r]
               /\ \/ /\ pc'[r] = "queueing" /\ callOf[r] \in GpuCalls
                     /\ gpuQueue' = Append(gpuQueue, r)
                  \/ /\ pc'[r] = "executing" /\ callOf[r] \notin GpuCalls
                     /\ gpuQueue' = gpuQueue
            \/ /\ ~Claimable(r) /\ pc'[r] = "polling"
               /\ UNCHANGED <<status, lease, left, gpuQueue>>
<1>. DEFINE k == callOf[r]
<1>0. /\ k \in Calls /\ pc[r] = "claiming" /\ age[r] \in Nat /\ age[r] <= Lag
      /\ status \in [Calls -> States] /\ lease \in [Calls -> Invocations \cup {Nobody}]
      /\ left \in [Calls -> -(Lag + 1) .. Timeout + Slack]
  BY DEF TypeOK, Claim, LeaseInv, AgeInv
<1>1. CASE /\ Claimable(r)
           /\ status' = [status EXCEPT ![k] = "running"]
           /\ lease' = [lease EXCEPT ![k] = r]
           /\ left' = [left EXCEPT ![k] = NewLease(r)]
           /\ \/ k \in GpuCalls /\ GoTo(r, "queueing") /\ gpuQueue' = Append(gpuQueue, r)
              \/ k \notin GpuCalls /\ GoTo(r, "executing") /\ UNCHANGED gpuQueue
  <2>1. CASE k \in GpuCalls /\ GoTo(r, "queueing") /\ gpuQueue' = Append(gpuQueue, r)
    BY <1>0, <1>1, <2>1, GoToFacts DEF NewLease, Labels, Timed
  <2>2. CASE k \notin GpuCalls /\ GoTo(r, "executing") /\ UNCHANGED gpuQueue
    BY <1>0, <1>1, <2>2, GoToFacts DEF NewLease, Labels, Timed
  <2>. QED BY <1>1, <2>1, <2>2
<1>2. CASE /\ ~Claimable(r) /\ GoTo(r, "polling")
           /\ UNCHANGED <<status, lease, left, gpuQueue>>
  BY <1>0, <1>2, GoToFacts DEF Labels, Timed
<1>. QED BY <1>1, <1>2 DEF Claim

\* The two outcomes of an update of the row.
LEMMA StoreRowFacts ==
  ASSUME TypeOK, LeaseInv, NEW r \in Invocations, pc[r] = "storing", StoreRow(r)
  PROVE  /\ status' \in [Calls -> States] /\ result' \in [Calls -> Invocations \cup {Nobody}]
         /\ UNCHANGED <<owner, lease, left>>
         /\ \A j \in Calls \ {callOf[r]} : status'[j] = status[j] /\ result'[j] = result[j]
         /\ verdict[r] # "completed" => result' = result
         /\ \/ /\ lease[callOf[r]] = r /\ status[callOf[r]] = "running"
               /\ status'[callOf[r]] = verdict[r]
               /\ verdict[r] = "completed" => result' = [result EXCEPT ![callOf[r]] = r]
               /\ verdict[r] = "completed" => result'[callOf[r]] = r
            \/ lease[callOf[r]] # r /\ status' = status /\ result' = result
<1>1. /\ callOf[r] \in Calls /\ verdict[r] \in Settled
      /\ status \in [Calls -> States] /\ result \in [Calls -> Invocations \cup {Nobody}]
      /\ Settled \subseteq States
  BY DEF TypeOK, States
<1>2. lease[callOf[r]] = r => status[callOf[r]] = "running"
  BY DEF LeaseInv, HolderInv
<1>3. CASE /\ HoldsLease(r)
           /\ status' = [status EXCEPT ![callOf[r]] = verdict[r]]
           /\ result' = IF verdict[r] = "completed"
                        THEN [result EXCEPT ![callOf[r]] = r] ELSE result
  BY <1>1, <1>2, <1>3 DEF StoreRow, HoldsLease
<1>4. CASE ~HoldsLease(r) /\ UNCHANGED <<status, result>>
  BY <1>1, <1>4 DEF StoreRow, HoldsLease
<1>. QED BY <1>3, <1>4 DEF StoreRow

\* A sequence from which one element is taken out.
LEMMA LeaveFacts ==
  ASSUME TypeOK, NEW r \in Invocations, LeaveGpu(r)
  PROVE  /\ gpuQueue' \in Seq(Invocations)
         /\ \/ /\ gpuQueue' = gpuQueue
               /\ \A i \in 1 .. Len(gpuQueue) : gpuQueue[i] # r
            \/ \E i \in 1 .. Len(gpuQueue) :
                 /\ gpuQueue[i] = r
                 /\ Len(gpuQueue') = Len(gpuQueue) - 1
                 /\ \A j \in 1 .. Len(gpuQueue) - 1 :
                      gpuQueue'[j] = IF j < i THEN gpuQueue[j] ELSE gpuQueue[j + 1]
<1>. DEFINE n == Len(gpuQueue)
<1>0. /\ n \in Nat /\ gpuQueue \in Seq(Invocations)
      /\ \A i \in 1 .. n : gpuQueue[i] \in Invocations
  BY LenProperties, ElementOfSeq DEF TypeOK
<1>1. CASE UNCHANGED gpuQueue /\ \A i \in 1 .. n : gpuQueue[i] # r
  BY <1>0, <1>1
<1>2. ASSUME NEW i \in 1 .. n, gpuQueue[i] = r,
             gpuQueue' = [j \in 1 .. n - 1 |->
                            IF j < i THEN gpuQueue[j] ELSE gpuQueue[j + 1]]
      PROVE  /\ gpuQueue' \in Seq(Invocations) /\ Len(gpuQueue') = n - 1
             /\ \A j \in 1 .. n - 1 :
                  gpuQueue'[j] = IF j < i THEN gpuQueue[j] ELSE gpuQueue[j + 1]
  <2>. HIDE DEF n
  <2>1. n - 1 \in Nat
    BY <1>0, <1>2
  <2>2. \A j \in 1 .. n - 1 : j \in 1 .. n /\ j + 1 \in 1 .. n
    BY <1>0
  <2>3. gpuQueue' \in [1 .. n - 1 -> Invocations]
    BY <1>0, <1>2, <2>2
  <2>4. gpuQueue' \in Seq(Invocations)
    BY <2>1, <2>3, SeqDef
  <2>5. Len(gpuQueue') = n - 1
    <3>1. /\ Len(gpuQueue') \in Nat /\ DOMAIN gpuQueue' = 1 .. Len(gpuQueue')
          /\ DOMAIN gpuQueue' = 1 .. n - 1
      BY <2>3, <2>4, LenProperties
    <3>. DEFINE m == Len(gpuQueue')
    <3>. HIDE DEF m
    <3>2. m \in Nat /\ 1 .. m = 1 .. n - 1 => m = n - 1
      BY <2>1
    <3>. QED BY <3>1, <3>2 DEF m
  <2>. QED BY <1>2, <2>4, <2>5
<1>. QED BY <1>1, <1>2 DEF LeaveGpu

-----------------------------------------------------------------------------
LEMMA TypeInit == Init => TypeOK
BY LeaseConstants, EmptySeq DEF Init, TypeOK, Settled, States, Labels

LEMMA TypeNext == ASSUME TypeOK, LeaseInv, [Next]_vars  PROVE TypeOK'
<1>1. ASSUME NEW r \in Invocations, Register(r)  PROVE TypeOK'
  BY <1>1, RegisterFacts DEF Register, TypeOK
<1>2. ASSUME NEW r \in Invocations, Claim(r)  PROVE TypeOK'
  <2>1. Timeout + Slack - age[r] \in -(Lag + 1) .. Timeout + Slack
    BY <1>2, ClaimFacts, LeaseConstants
  <2>2. gpuQueue' \in Seq(Invocations)
    <3>1. gpuQueue' = gpuQueue \/ gpuQueue' = Append(gpuQueue, r)
      BY <1>2 DEF Claim
    <3>. QED BY <3>1, QueueFacts DEF TypeOK
  <2>3. left' \in [Calls -> -(Lag + 1) .. Timeout + Slack]
    BY <1>2, <2>1, ClaimFacts DEF TypeOK
  <2>4. /\ status' \in [Calls -> States]
        /\ lease' \in [Calls -> Invocations \cup {Nobody}]
    <3>1. /\ status \in [Calls -> States] /\ "running" \in States
          /\ lease \in [Calls -> Invocations \cup {Nobody}]
      BY DEF TypeOK, States
    <3>2. \/ /\ status' = [status EXCEPT ![callOf[r]] = "running"]
             /\ lease' = [lease EXCEPT ![callOf[r]] = r]
          \/ status' = status /\ lease' = lease
      BY <1>2 DEF Claim
    <3>. QED BY <3>1, <3>2
  <2>5. pc' \in [Invocations -> Labels] /\ age' \in [Invocations -> Nat]
    BY <1>2, ClaimFacts
  <2>. QED BY <1>2, <2>2, <2>3, <2>4, <2>5 DEF Claim, TypeOK
<1>3. ASSUME NEW r \in Invocations, AcquireGpu(r)  PROVE TypeOK'
  BY <1>3, GoToFacts DEF AcquireGpu, TypeOK, Labels, Timed, row
<1>4. ASSUME NEW r \in Invocations, NEW st \in Settled, EndHandler(r, st)  PROVE TypeOK'
  <2>1. gpuQueue' \in Seq(Invocations)
    <3>1. callOf[r] \in GpuCalls => gpuQueue # <<>>
      BY <1>4 DEF LeaseInv, QueueInv, EndHandler
    <3>. QED BY <1>4, <3>1, QueueFacts DEF EndHandler, ReleaseGpu, TypeOK
  <2>2. pc' \in [Invocations -> Labels] /\ age' \in [Invocations -> Nat]
    BY <1>4, GoToFacts DEF EndHandler, Labels, Timed
  <2>. QED BY <1>4, <2>1, <2>2 DEF EndHandler, TypeOK, row
<1>5. ASSUME NEW r \in Invocations, Store(r)  PROVE TypeOK'
  <2>1. verdict[r] \in Settled
    BY DEF TypeOK
  <2>2. /\ status' \in [Calls -> States]
        /\ result' \in [Calls -> Invocations \cup {Nobody}]
        /\ UNCHANGED <<owner, lease, left>>
    BY <1>5, StoreRowFacts DEF Store
  <2>. QED BY <1>5, <2>1, <2>2, ReturnFacts DEF Store, TypeOK
<1>6. ASSUME NEW r \in Invocations, StoreFails(r)  PROVE TypeOK'
  <2>1. verdict' \in [Invocations -> Settled]
    BY <1>6 DEF StoreFails, TypeOK, Settled
  <2>2. pc' \in [Invocations -> Labels] /\ age' \in [Invocations -> Nat]
    BY <1>6, GoToFacts DEF StoreFails, Labels, Timed
  <2>. QED BY <1>6, <2>1, <2>2 DEF StoreFails, TypeOK, row
<1>11. ASSUME NEW r \in Invocations, Normalize(r)  PROVE TypeOK'
  <2>1. verdict' \in [Invocations -> Settled]
    BY <1>11 DEF Normalize, TypeOK
  <2>2. pc' \in [Invocations -> Labels] /\ age' \in [Invocations -> Nat]
    BY <1>11, GoToFacts DEF Normalize, Labels, Timed
  <2>. QED BY <1>11, <2>1, <2>2 DEF Normalize, TypeOK, row
<1>12. ASSUME NEW r \in Invocations, Abandon(r)  PROVE TypeOK'
  <2>1. pc' \in [Invocations -> Labels] /\ age' \in [Invocations -> Nat]
    BY <1>12, GoToFacts DEF Abandon, Labels
  <2>2. gpuQueue' \in Seq(Invocations)
    BY <1>12, LeaveFacts DEF Abandon
  <2>3. /\ status' \in [Calls -> States]
        /\ result' \in [Calls -> Invocations \cup {Nobody}]
        /\ UNCHANGED <<owner, lease, left>>
    BY <1>12, StoreRowFacts DEF Abandon, row, TypeOK
  <2>. QED BY <1>12, <2>1, <2>2, <2>3 DEF Abandon, TypeOK
<1>7. ASSUME NEW r \in Invocations, Poll(r)  PROVE TypeOK'
  <2>1. result[callOf[r]] \in Invocations \cup {Nobody}
    BY DEF TypeOK
  <2>2. /\ pc' \in [Invocations -> Labels] /\ age' \in [Invocations -> Nat]
        /\ answer' \in [Invocations -> {"none", "pending"} \cup Settled]
        /\ shown' \in [Invocations -> Invocations \cup {Nobody}]
    BY <1>7, <2>1, ReturnFacts DEF Poll, ReturnStored
  <2>. QED BY <1>7, <2>2 DEF Poll, TypeOK, row
<1>8. ASSUME Crash  PROVE TypeOK'
  <2>1. pc' \in [Invocations -> Labels] /\ age' \in [Invocations -> Nat]
    BY <1>8 DEF Crash, TypeOK, Labels
  <2>. QED BY <1>8, <2>1, EmptySeq DEF Crash, TypeOK, row
<1>9. ASSUME Tick  PROVE TypeOK'
  <2>1. \A k \in Calls : left[k] \in -(Lag + 1) .. Timeout + Slack
    BY DEF TypeOK
  <2>2. \A k \in Calls : left[k] >= -Lag =>
          left[k] - 1 \in -(Lag + 1) .. Timeout + Slack
    BY <2>1, LeaseConstants
  <2>3. left' \in [Calls -> -(Lag + 1) .. Timeout + Slack]
    BY <1>9, <2>1, <2>2 DEF Tick
  <2>4. age' \in [Invocations -> Nat]
    BY <1>9 DEF Tick, TypeOK
  <2>. QED BY <1>9, <2>3, <2>4 DEF Tick, TypeOK
<1>10. ASSUME UNCHANGED vars  PROVE TypeOK'
  BY <1>10 DEF vars, row, caller, TypeOK
<1>. QED BY <1>1, <1>2, <1>3, <1>4, <1>5, <1>6, <1>7, <1>8, <1>9, <1>10, <1>11, <1>12
         DEF Next, Step, Finish, TimeOut, Settled

-----------------------------------------------------------------------------
LEMMA LeaseInit == Init => LeaseInv
BY LeaseConstants
   DEF Init, LeaseInv, AgeInv, CoverInv, AtWork, HolderInv, QueueInv, StoredByHolder,
       AnswerInv

LEMMA RegisterKeeps ==
  ASSUME TypeOK, LeaseInv, NEW r \in Invocations, Register(r)
  PROVE  LeaseInv'
<1>1. /\ pc[r] = "idle" /\ pc'[r] \in {"claiming", "raised", "done", "polling"}
      /\ age'[r] = 0
      /\ \A q \in Invocations \ {r} : pc'[q] = pc[q] /\ age'[q] = age[q]
      /\ UNCHANGED <<lease, left, result, callOf, verdict, gpuQueue>>
  BY RegisterFacts DEF Register
<1>2. \A k \in Calls : \/ status'[k] = status[k]
                       \/ status[k] = "none" /\ status'[k] = "queued"
  BY RegisterFacts
<1>3. AgeInv'
  BY <1>1, LeaseConstants DEF LeaseInv, AgeInv
<1>4. CoverInv'
  BY <1>1 DEF LeaseInv, CoverInv, AtWork
<1>5. HolderInv'
  <2>. SUFFICES ASSUME NEW q \in Invocations, lease[callOf[q]] = q,
                       pc'[q] \in {"queueing", "executing", "normalizing", "storing"}
                PROVE  status'[callOf[q]] = "running"
    BY <1>1 DEF HolderInv
  <2>1. status[callOf[q]] = "running" /\ callOf[q] \in Calls
    BY <1>1 DEF LeaseInv, HolderInv, TypeOK
  <2>. QED BY <1>2, <2>1
<1>6. QueueInv'
  BY <1>1 DEF LeaseInv, QueueInv
<1>7. StoredByHolder'
  BY <1>1, <1>2 DEF LeaseInv, StoredByHolder
<1>8. AnswerInv'
  <2>1. \A q \in Invocations \ {r} : answer'[q] = answer[q] /\ shown'[q] = shown[q]
    BY RegisterFacts
  <2>2. \/ answer'[r] = answer[r] /\ shown'[r] = shown[r]
        \/ answer'[r] = status[callOf[r]] /\ shown'[r] = result[callOf[r]]
    BY RegisterFacts
  <2>3. \A k \in Calls : status[k] = "completed" => status'[k] = "completed"
    BY <1>2
  <2>4. \A q \in Invocations : callOf[q] \in Calls
    BY DEF TypeOK
  <2>. SUFFICES ASSUME NEW q \in Invocations, callOf[q] \in PromptCalls,
                       answer'[q] = "completed"
                PROVE  status'[callOf[q]] = "completed" /\ shown'[q] = result[callOf[q]]
    BY <1>1 DEF AnswerInv
  <2>5. CASE answer'[q] = answer[q] /\ shown'[q] = shown[q]
    BY <2>3, <2>4, <2>5 DEF LeaseInv, AnswerInv
  <2>6. CASE q = r /\ answer'[r] = status[callOf[r]] /\ shown'[r] = result[callOf[r]]
    BY <2>3, <2>4, <2>6
  <2>. QED BY <2>1, <2>2, <2>5, <2>6
<1>. QED BY <1>3, <1>4, <1>5, <1>6, <1>7, <1>8 DEF LeaseInv

\* Who has the time of a lease: for a handler that needs no GPU, and for storing
\* the result of a prompt call.
Covered(r) ==
  \/ callOf[r] \notin GpuCalls /\ pc[r] = "executing"
  \/ r \in AtWork /\ pc[r] = "storing"

LEMMA WorkIsCovered == \A r \in Invocations : r \in AtWork => Covered(r)
BY DEF AtWork, Covered, PromptCalls

\* A call that is covered cannot be claimed by anybody else.
LEMMA CoveredIsNotClaimable ==
  ASSUME TypeOK, LeaseInv, NEW r \in Invocations, NEW q \in Invocations,
         pc[r] = "claiming", Covered(q), callOf[q] = callOf[r]
  PROVE  ~Claimable(r)
<1>. DEFINE k == callOf[r]
<1>1. /\ lease[k] = q /\ status[k] = "running"
      /\ \/ pc[q] = "executing" /\ left[k] + age[q] >= Timeout + Slack - Lag
         \/ pc[q] = "storing" /\ left[k] + age[q] >= Slack - Lag
  BY DEF LeaseInv, CoverInv, HolderInv, Covered
<1>2. /\ left[k] \in Int /\ age[q] \in Nat /\ age[r] \in Nat
      /\ pc[q] = "executing" => age[q] <= Timeout
      /\ pc[q] = "storing" => age[q] <= Lag
  BY DEF LeaseInv, AgeInv, TypeOK
<1>3. left[k] >= Slack - 2 * Lag
  BY <1>1, <1>2, LeaseConstants
<1>4. ~(left[k] < -age[r])
  BY <1>2, <1>3, LeaseConstants
<1>. QED BY <1>1, <1>4 DEF Claimable, ExpiredBefore

LEMMA ClaimKeeps ==
  ASSUME TypeOK, LeaseInv, NEW r \in Invocations, Claim(r)
  PROVE  LeaseInv'
<1>. DEFINE k == callOf[r]
<1>0. k \in Calls /\ pc[r] = "claiming" /\ age[r] \in Nat /\ age[r] <= Lag
  BY ClaimFacts
<1>1. /\ pc'[r] \in {"queueing", "executing", "polling"} /\ age'[r] = 0
      /\ \A q \in Invocations \ {r} : pc'[q] = pc[q] /\ age'[q] = age[q]
      /\ UNCHANGED <<result, callOf, verdict, answer, shown>>
  BY ClaimFacts DEF Claim
<1>2. \A j \in Calls \ {k} : status'[j] = status[j] /\ lease'[j] = lease[j] /\ left'[j] = left[j]
  BY ClaimFacts
<1>3. \/ /\ Claimable(r) /\ status'[k] = "running" /\ lease'[k] = r
         /\ left'[k] = Timeout + Slack - age[r]
         /\ \/ pc'[r] = "queueing" /\ k \in GpuCalls
            \/ pc'[r] = "executing" /\ k \notin GpuCalls
      \/ /\ ~Claimable(r) /\ pc'[r] = "polling"
         /\ UNCHANGED <<status, lease, left>>
  BY ClaimFacts
<1>4. AgeInv'
  BY <1>1, LeaseConstants DEF LeaseInv, AgeInv
<1>5. CoverInv'
  <2>1. ASSUME pc'[r] = "executing"
        PROVE  lease'[k] = r /\ left'[k] + age'[r] >= Timeout + Slack - Lag
    <3>1. lease'[k] = r /\ left'[k] = Timeout + Slack - age[r]
      BY <1>3, <2>1
    <3>. QED BY <1>0, <1>1, <3>1, LeaseConstants
  <2>2. ASSUME NEW q \in Invocations \ {r}, Covered(q)
        PROVE  lease'[callOf[q]] = lease[callOf[q]] /\ left'[callOf[q]] = left[callOf[q]]
    BY <1>0, <1>2, <1>3, <2>2, CoveredIsNotClaimable DEF TypeOK
  <2>3. ASSUME NEW q \in Invocations \ {r}
        PROVE  (q \in AtWork)' <=> q \in AtWork
    BY <1>1 DEF AtWork
  <2>. QED BY <1>1, <2>1, <2>2, <2>3 DEF LeaseInv, CoverInv, Covered
<1>6. HolderInv'
  BY <1>1, <1>2, <1>3 DEF LeaseInv, HolderInv, TypeOK
<1>7. QueueInv'
  <2>1. gpuQueue' = gpuQueue \/ gpuQueue' = Append(gpuQueue, r)
    BY DEF Claim
  <2>2. gpuQueue # <<>> => gpuQueue' # <<>> /\ Head(gpuQueue') = Head(gpuQueue)
    BY <2>1, QueueFacts DEF TypeOK
  <2>3. pc'[r] = "executing" => callOf[r] \notin GpuCalls
    BY <1>3
  <2>4. pc'[r] = "queueing" => callOf[r] \in GpuCalls
    BY <1>3
  <2>. QED BY <1>1, <2>2, <2>3, <2>4 DEF LeaseInv, QueueInv
<1>8. StoredByHolder'
  <2>1. Claimable(r) => status[k] # "completed"
    BY DEF Claimable
  <2>. QED BY <1>1, <1>2, <1>3, <2>1 DEF LeaseInv, StoredByHolder
<1>9. AnswerInv'
  <2>1. Claimable(r) => status[k] # "completed"
    BY DEF Claimable
  <2>. QED BY <1>1, <1>2, <1>3, <2>1 DEF LeaseInv, AnswerInv, TypeOK
<1>. QED BY <1>4, <1>5, <1>6, <1>7, <1>8, <1>9 DEF LeaseInv

LEMMA AcquireGpuKeeps ==
  ASSUME TypeOK, LeaseInv, NEW r \in Invocations, AcquireGpu(r)
  PROVE  LeaseInv'
<1>1. /\ pc[r] = "queueing" /\ pc'[r] = "executing" /\ age'[r] = 0
      /\ \A q \in Invocations \ {r} : pc'[q] = pc[q] /\ age'[q] = age[q]
      /\ UNCHANGED <<status, lease, left, result, callOf, verdict, answer, shown, gpuQueue>>
      /\ callOf[r] \in GpuCalls
  BY GoToFacts DEF AcquireGpu, row, Labels, Timed, LeaseInv, QueueInv
<1>2. AgeInv'
  BY <1>1, LeaseConstants DEF LeaseInv, AgeInv
<1>3. CoverInv'
  BY <1>1 DEF LeaseInv, CoverInv, AtWork
<1>4. HolderInv'
  BY <1>1 DEF LeaseInv, HolderInv
<1>5. QueueInv'
  BY <1>1 DEF LeaseInv, QueueInv, AcquireGpu
<1>6. StoredByHolder' /\ AnswerInv'
  BY <1>1 DEF LeaseInv, StoredByHolder, AnswerInv
<1>. QED BY <1>2, <1>3, <1>4, <1>5, <1>6 DEF LeaseInv

LEMMA EndHandlerKeeps ==
  ASSUME TypeOK, LeaseInv, NEW r \in Invocations, NEW st \in Settled, EndHandler(r, st)
  PROVE  LeaseInv'
<1>1. /\ pc[r] = "executing" /\ age'[r] = 0
      /\ \/ pc'[r] = "storing"
         \/ pc'[r] = "normalizing" /\ callOf[r] \in NormalizedCalls
      /\ \A q \in Invocations \ {r} : /\ pc'[q] = pc[q] /\ age'[q] = age[q]
                                      /\ verdict'[q] = verdict[q]
      /\ UNCHANGED <<status, lease, left, result, callOf, answer, shown>>
      /\ callOf[r] \notin GpuCalls => gpuQueue' = gpuQueue
  BY GoToFacts DEF EndHandler, row, Labels, Timed, ReleaseGpu, TypeOK
<1>2. AgeInv'
  BY <1>1, LeaseConstants DEF LeaseInv, AgeInv
<1>3. CoverInv'
  <2>1. ASSUME callOf[r] \in PromptCalls
        PROVE  lease[callOf[r]] = r /\ left[callOf[r]] + age'[r] >= Slack - Lag
    <3>1. /\ lease[callOf[r]] = r
          /\ left[callOf[r]] + age[r] >= Timeout + Slack - Lag
          /\ age[r] <= Timeout /\ age[r] \in Nat /\ left[callOf[r]] \in Int
      BY <1>1, <2>1 DEF LeaseInv, CoverInv, AgeInv, PromptCalls, TypeOK
    <3>. QED BY <1>1, <3>1, LeaseConstants
  <2>2. (r \in AtWork)' => callOf[r] \in PromptCalls
    BY <1>1 DEF AtWork
  <2>3. ASSUME NEW q \in Invocations \ {r}
        PROVE  (q \in AtWork)' <=> q \in AtWork
    BY <1>1 DEF AtWork
  <2>. QED BY <1>1, <2>1, <2>2, <2>3 DEF LeaseInv, CoverInv
<1>4. HolderInv'
  BY <1>1 DEF LeaseInv, HolderInv
<1>5. QueueInv'
  <2>1. \A q \in Invocations \ {r} :
          callOf[r] \in GpuCalls => ~(pc[q] = "executing" /\ callOf[q] \in GpuCalls)
    BY <1>1 DEF LeaseInv, QueueInv
  <2>. QED BY <1>1, <2>1 DEF LeaseInv, QueueInv
<1>6. StoredByHolder' /\ AnswerInv'
  BY <1>1 DEF LeaseInv, StoredByHolder, AnswerInv
<1>. QED BY <1>2, <1>3, <1>4, <1>5, <1>6 DEF LeaseInv

\* Normalising is for calls that are not prompt: nothing is promised for the time
\* of storing them.
LEMMA NormalizeKeeps ==
  ASSUME TypeOK, LeaseInv, NEW r \in Invocations, Normalize(r)
  PROVE  LeaseInv'
<1>1. /\ pc[r] = "normalizing" /\ pc'[r] = "storing" /\ age'[r] = 0
      /\ \A q \in Invocations \ {r} : /\ pc'[q] = pc[q] /\ age'[q] = age[q]
                                      /\ verdict'[q] = verdict[q]
      /\ UNCHANGED <<status, lease, left, result, callOf, answer, shown, gpuQueue>>
  BY GoToFacts DEF Normalize, row, Labels, Timed, TypeOK
<1>2. AgeInv'
  BY <1>1, LeaseConstants DEF LeaseInv, AgeInv
<1>3. CoverInv'
  <2>1. (r \notin AtWork)'
    BY <1>1 DEF LeaseInv, QueueInv, AtWork, PromptCalls
  <2>2. ASSUME NEW q \in Invocations \ {r}
        PROVE  (q \in AtWork)' <=> q \in AtWork
    BY <1>1 DEF AtWork
  <2>. QED BY <1>1, <2>1, <2>2 DEF LeaseInv, CoverInv
<1>4. HolderInv' /\ QueueInv'
  BY <1>1 DEF LeaseInv, HolderInv, QueueInv
<1>5. StoredByHolder' /\ AnswerInv'
  BY <1>1 DEF LeaseInv, StoredByHolder, AnswerInv
<1>. QED BY <1>2, <1>3, <1>4, <1>5 DEF LeaseInv

\* An update of the row by an invocation that ends: what concerns the row.
LEMMA RowStored ==
  ASSUME TypeOK, LeaseInv, NEW r \in Invocations, pc[r] = "storing", StoreRow(r),
         pc'[r] \in {"done", "raised"}, UNCHANGED callOf,
         \A q \in Invocations \ {r} : pc'[q] = pc[q]
  PROVE  /\ HolderInv' /\ StoredByHolder'
         /\ \A k \in Calls : status[k] = "completed" =>
              status'[k] = "completed" /\ result'[k] = result[k]
<1>. DEFINE k == callOf[r]
<1>0. k \in Calls /\ verdict[r] \in Settled
  BY DEF TypeOK
<1>1. /\ UNCHANGED <<lease, left>>
      /\ \A j \in Calls \ {k} : status'[j] = status[j] /\ result'[j] = result[j]
      /\ verdict[r] # "completed" => result' = result
      /\ \/ /\ lease[k] = r /\ status[k] = "running" /\ status'[k] = verdict[r]
            /\ verdict[r] = "completed" => result'[k] = r
         \/ lease[k] # r /\ status' = status /\ result' = result
  BY StoreRowFacts
<1>2. HolderInv'
  <2>. SUFFICES ASSUME NEW q \in Invocations, lease[callOf[q]] = q,
                       pc'[q] \in {"queueing", "executing", "normalizing", "storing"}
                PROVE  status'[callOf[q]] = "running"
    BY <1>1 DEF HolderInv
  <2>1. q # r /\ status[callOf[q]] = "running" /\ callOf[q] \in Calls
    BY DEF LeaseInv, HolderInv, TypeOK
  <2>. QED BY <1>1, <2>1
<1>3. StoredByHolder'
  BY <1>0, <1>1, LeaseConstants DEF LeaseInv, StoredByHolder
<1>4. ASSUME NEW j \in Calls, status[j] = "completed"
      PROVE  status'[j] = "completed" /\ result'[j] = result[j]
  BY <1>1, <1>4
<1>. QED BY <1>2, <1>3, <1>4

LEMMA StoreKeeps ==
  ASSUME TypeOK, LeaseInv, NEW r \in Invocations, Store(r)
  PROVE  LeaseInv'
<1>. DEFINE k == callOf[r]
<1>0. k \in Calls /\ verdict[r] \in Settled /\ pc[r] = "storing" /\ StoreRow(r)
  BY DEF Store, TypeOK
<1>1. /\ pc'[r] = "done" /\ age'[r] = 0
      /\ answer'[r] = verdict[r]
      /\ verdict[r] = "completed" => shown'[r] = r
      /\ \A q \in Invocations \ {r} : /\ pc'[q] = pc[q] /\ age'[q] = age[q]
                                      /\ answer'[q] = answer[q]
                                      /\ shown'[q] = shown[q]
      /\ UNCHANGED <<lease, left, callOf, verdict, gpuQueue>>
  <2>1. UNCHANGED <<lease, left, callOf, verdict, gpuQueue>>
    BY DEF Store, StoreRow
  <2>. QED BY <1>0, <2>1, ReturnFacts DEF Store
<1>2. /\ HolderInv' /\ StoredByHolder'
      /\ \A j \in Calls : status[j] = "completed" =>
           status'[j] = "completed" /\ result'[j] = result[j]
  BY <1>0, <1>1, RowStored
<1>3. AgeInv' /\ CoverInv' /\ QueueInv'
  BY <1>1 DEF LeaseInv, AgeInv, CoverInv, AtWork, QueueInv
<1>4. AnswerInv'
  <2>. SUFFICES ASSUME NEW q \in Invocations, callOf[q] \in PromptCalls,
                       answer'[q] = "completed"
                PROVE  status'[callOf[q]] = "completed" /\ shown'[q] = result'[callOf[q]]
    BY <1>1 DEF AnswerInv
  <2>1. CASE q = r
    <3>1. lease[k] = r
      BY <1>0, <1>1, <2>1 DEF LeaseInv, CoverInv, AtWork
    <3>. QED BY <1>0, <1>1, <2>1, <3>1, StoreRowFacts
  <2>2. CASE q # r
    <3>1. status[callOf[q]] = "completed" /\ shown[q] = result[callOf[q]]
      BY <1>1, <2>2 DEF LeaseInv, AnswerInv
    <3>. QED BY <1>1, <1>2, <2>2, <3>1 DEF TypeOK
  <2>. QED BY <2>1, <2>2
<1>. QED BY <1>2, <1>3, <1>4 DEF LeaseInv

LEMMA StoreFailsKeeps ==
  ASSUME TypeOK, LeaseInv, NEW r \in Invocations, StoreFails(r)
  PROVE  LeaseInv'
<1>1. /\ pc[r] = "storing" /\ pc' = pc /\ age'[r] = 0 /\ verdict'[r] = "failed"
      /\ \A q \in Invocations \ {r} : age'[q] = age[q] /\ verdict'[q] = verdict[q]
      /\ UNCHANGED <<status, lease, left, result, callOf, answer, shown, gpuQueue>>
  BY DEF StoreFails, GoTo, row, TypeOK
<1>2. AgeInv'
  BY <1>1, LeaseConstants DEF LeaseInv, AgeInv
<1>3. CoverInv'
  <2>1. (r \notin AtWork)'
    BY <1>1 DEF AtWork
  <2>2. ASSUME NEW q \in Invocations \ {r}
        PROVE  (q \in AtWork)' <=> q \in AtWork
    BY <1>1 DEF AtWork
  <2>. QED BY <1>1, <2>1, <2>2 DEF LeaseInv, CoverInv
<1>4. HolderInv' /\ QueueInv'
  BY <1>1 DEF LeaseInv, HolderInv, QueueInv
<1>5. StoredByHolder' /\ AnswerInv'
  BY <1>1 DEF LeaseInv, StoredByHolder, AnswerInv
<1>. QED BY <1>2, <1>3, <1>4, <1>5 DEF LeaseInv

LEMMA AbandonKeeps ==
  ASSUME TypeOK, LeaseInv, NEW r \in Invocations, Abandon(r)
  PROVE  LeaseInv'
<1>1. /\ pc'[r] = "raised" /\ UNCHANGED <<lease, left, callOf, verdict, answer, shown>>
      /\ \A q \in Invocations \ {r} : pc'[q] = pc[q] /\ age'[q] = age[q]
  BY GoToFacts, StoreRowFacts DEF Abandon, Labels, row
<1>2. AgeInv' /\ CoverInv'
  BY <1>1 DEF LeaseInv, AgeInv, CoverInv, AtWork
<1>3. QueueInv'
  <2>1. ASSUME NEW q \in Invocations, pc'[q] = "executing", callOf[q] \in GpuCalls
        PROVE  gpuQueue' # <<>> /\ Head(gpuQueue') = q
    <3>1. q # r /\ gpuQueue # <<>> /\ Head(gpuQueue) = q
      BY <1>1, <2>1 DEF LeaseInv, QueueInv
    <3>2. Len(gpuQueue) \in Nat \ {0} /\ gpuQueue[1] = q
      BY <3>1, HeadTailProperties, EmptySeq, LenProperties DEF TypeOK
    <3>3. LeaveGpu(r)
      BY DEF Abandon
    <3>4. CASE gpuQueue' = gpuQueue
      BY <3>1, <3>4
    <3>5. ASSUME NEW i \in 1 .. Len(gpuQueue), gpuQueue[i] = r,
                 Len(gpuQueue') = Len(gpuQueue) - 1,
                 \A j \in 1 .. Len(gpuQueue) - 1 :
                   gpuQueue'[j] = IF j < i THEN gpuQueue[j] ELSE gpuQueue[j + 1]
          PROVE  gpuQueue' # <<>> /\ Head(gpuQueue') = q
      <4>1. i # 1
        BY <3>1, <3>2, <3>5
      <4>2. 1 \in 1 .. Len(gpuQueue) - 1 /\ 1 < i
        BY <3>2, <4>1
      <4>3. gpuQueue'[1] = q /\ Len(gpuQueue') # 0
        BY <3>2, <3>5, <4>2
      <4>4. gpuQueue' \in Seq(Invocations)
        BY <3>3, LeaveFacts
      <4>. QED BY <4>3, <4>4, HeadTailProperties, EmptySeq, LenProperties
    <3>. QED BY <3>3, <3>4, <3>5, LeaveFacts
  <2>. QED BY <1>1, <2>1 DEF LeaseInv, QueueInv
<1>4. CASE UNCHANGED row
  <2>1. HolderInv' /\ StoredByHolder' /\ AnswerInv'
    BY <1>1, <1>4 DEF LeaseInv, HolderInv, StoredByHolder, AnswerInv, row
  <2>. QED BY <1>2, <1>3, <2>1 DEF LeaseInv
<1>5. CASE pc[r] = "storing" /\ StoreRow(r)
  <2>1. /\ HolderInv' /\ StoredByHolder'
        /\ \A k \in Calls : status[k] = "completed" =>
             status'[k] = "completed" /\ result'[k] = result[k]
    BY <1>1, <1>5, RowStored
  <2>2. AnswerInv'
    BY <1>1, <2>1 DEF LeaseInv, AnswerInv, TypeOK
  <2>. QED BY <1>2, <1>3, <2>1, <2>2 DEF LeaseInv
<1>. QED BY <1>4, <1>5 DEF Abandon

LEMMA PollKeeps ==
  ASSUME TypeOK, LeaseInv, NEW r \in Invocations, Poll(r)
  PROVE  LeaseInv'
<1>1. /\ pc'[r] = "done"
      /\ \A q \in Invocations \ {r} : /\ pc'[q] = pc[q] /\ age'[q] = age[q]
                                      /\ answer'[q] = answer[q]
                                      /\ shown'[q] = shown[q]
      /\ \/ answer'[r] = status[callOf[r]] /\ shown'[r] = result[callOf[r]]
         \/ answer'[r] = "pending"
      /\ UNCHANGED <<status, lease, left, result, callOf, verdict, gpuQueue>>
  <2>1. /\ result[callOf[r]] \in Invocations \cup {Nobody}
        /\ Nobody \in Invocations \cup {Nobody}
        /\ "pending" \in {"none", "pending"} \cup Settled
    BY DEF TypeOK
  <2>2. CASE status[callOf[r]] \in Settled /\ ReturnStored(r)
    <3>2. /\ pc'[r] = "done"
          /\ answer'[r] = status[callOf[r]] /\ shown'[r] = result[callOf[r]]
          /\ \A q \in Invocations \ {r} : /\ pc'[q] = pc[q] /\ age'[q] = age[q]
                                          /\ answer'[q] = answer[q]
                                          /\ shown'[q] = shown[q]
      BY <2>2, ReturnStoredFacts
    <3>. QED BY <3>2 DEF Poll, row
  <2>3. CASE Return(r, "pending", Nobody)
    <3>1. /\ pc'[r] = "done" /\ age'[r] = 0
          /\ answer'[r] = "pending" /\ shown'[r] = Nobody
          /\ \A q \in Invocations \ {r} : /\ pc'[q] = pc[q] /\ age'[q] = age[q]
                                          /\ answer'[q] = answer[q]
                                          /\ shown'[q] = shown[q]
      BY <2>1, <2>3, ReturnFacts
    <3>. QED BY <3>1 DEF Poll, row
  <2>. QED BY <2>2, <2>3 DEF Poll
<1>2. AgeInv' /\ CoverInv' /\ HolderInv' /\ QueueInv'
  BY <1>1 DEF LeaseInv, AgeInv, CoverInv, AtWork, HolderInv, QueueInv
<1>3. StoredByHolder' /\ AnswerInv'
  BY <1>1 DEF LeaseInv, StoredByHolder, AnswerInv
<1>. QED BY <1>2, <1>3 DEF LeaseInv

LEMMA CrashKeeps == ASSUME TypeOK, LeaseInv, Crash  PROVE LeaseInv'
<1>1. /\ \A r \in Invocations :
           pc'[r] \notin {"claiming", "queueing", "executing", "normalizing", "storing"}
      /\ UNCHANGED <<status, lease, result, callOf, answer, shown>>
  BY DEF Crash, Alive, Timed, row, TypeOK
<1>. QED BY <1>1
         DEF LeaseInv, AgeInv, CoverInv, AtWork, HolderInv, QueueInv, StoredByHolder,
             AnswerInv

LEMMA TickKeeps == ASSUME TypeOK, LeaseInv, Tick  PROVE LeaseInv'
<1>1. UNCHANGED <<status, lease, result, pc, callOf, verdict, answer, shown, gpuQueue>>
  BY DEF Tick
<1>2. \A r \in Invocations :
        /\ age[r] \in Nat
        /\ pc[r] \in {"claiming", "storing"} => age[r] < Lag /\ age'[r] = age[r] + 1
        /\ pc[r] = "executing" => age[r] < Timeout /\ age'[r] = age[r] + 1
  BY DEF Tick, Timed, Stay, TypeOK
<1>3. \A k \in Calls : left[k] \in Int /\ (left'[k] = left[k] \/ left'[k] = left[k] - 1)
  BY DEF Tick, TypeOK
<1>4. AgeInv'
  BY <1>1, <1>2, LeaseConstants DEF AgeInv
<1>5. CoverInv'
  <2>1. \A r \in Invocations : callOf[r] \in Calls
    BY DEF TypeOK
  <2>2. AtWork' = AtWork
    BY <1>1 DEF AtWork
  <2>3. ASSUME NEW r \in Invocations, pc[r] \in {"executing", "storing"}, NEW n \in Int,
               left[callOf[r]] + age[r] >= n
        PROVE  left'[callOf[r]] + age'[r] >= n
    BY <1>2, <1>3, <2>1, <2>3
  <2>4. Timeout + Slack - Lag \in Int /\ Slack - Lag \in Int
    BY LeaseConstants
  <2>. QED BY <1>1, <2>2, <2>3, <2>4 DEF LeaseInv, CoverInv
<1>6. HolderInv' /\ QueueInv'
  BY <1>1 DEF LeaseInv, HolderInv, QueueInv
<1>7. StoredByHolder' /\ AnswerInv'
  BY <1>1 DEF LeaseInv, StoredByHolder, AnswerInv
<1>. QED BY <1>4, <1>5, <1>6, <1>7 DEF LeaseInv

LEMMA LeaseNext == ASSUME TypeOK, LeaseInv, [Next]_vars  PROVE LeaseInv'
<1>1. ASSUME NEW r \in Invocations, Step(r)  PROVE LeaseInv'
  <2>1. CASE \E st \in Settled : EndHandler(r, st)
    BY <2>1, EndHandlerKeeps
  <2>2. TimeOut(r) => \E st \in Settled : EndHandler(r, st)
    BY DEF TimeOut, Settled
  <2>. QED BY <1>1, <2>1, <2>2, RegisterKeeps, ClaimKeeps, AcquireGpuKeeps,
              NormalizeKeeps, StoreKeeps, StoreFailsKeeps, PollKeeps, AbandonKeeps
           DEF Step, Finish
<1>2. ASSUME UNCHANGED vars  PROVE LeaseInv'
  BY <1>2 DEF vars, row, caller, LeaseInv, AgeInv, CoverInv, AtWork, HolderInv,
              QueueInv, StoredByHolder, AnswerInv
<1>. QED BY <1>1, <1>2, CrashKeeps, TickKeeps DEF Next

\* ToolLease is well typed, whatever the invocations, calls and times.
THEOREM LeaseTypeCorrect == Spec => []TypeOK
<1>1. Init => TypeOK /\ LeaseInv
  BY TypeInit, LeaseInit
<1>2. TypeOK /\ LeaseInv /\ [Next]_vars => (TypeOK /\ LeaseInv)'
  BY TypeNext, LeaseNext
<1>. QED BY <1>1, <1>2, PTL DEF Spec

LEMMA LeaseInvImplies ==
  ASSUME TypeOK, LeaseInv
  PROVE  /\ HandlersDoNotOverlap
         /\ AnswersAgree
         /\ AnsweredCallsRest
         /\ StoredByHolder
         /\ OneGpuHandler
<1>1. HandlersDoNotOverlap
  BY DEF LeaseInv, CoverInv, QueueInv, HandlersDoNotOverlap, Running
<1>2. AnswersAgree
  BY DEF LeaseInv, AnswerInv, AnswersAgree
<1>3. AnsweredCallsRest
  BY DEF LeaseInv, AnswerInv, CoverInv, HolderInv, AnsweredCallsRest, PromptCalls
<1>4. OneGpuHandler
  BY DEF LeaseInv, QueueInv, OneGpuHandler
<1>. QED BY <1>1, <1>2, <1>3, <1>4 DEF LeaseInv

\* The lease protocol, for any number of invocations and calls and any timeout
\* whose slack covers twice the lag: two handlers of one call never run at the
\* same time, GPU handlers never do, the stored result is the lease holder's,
\* and a prompt call has one result, after which it is not executed again.
THEOREM LeaseSafety ==
  Spec => [](/\ HandlersDoNotOverlap
             /\ AnswersAgree
             /\ AnsweredCallsRest
             /\ StoredByHolder
             /\ OneGpuHandler)
<1>1. Init => TypeOK /\ LeaseInv
  BY TypeInit, LeaseInit
<1>2. TypeOK /\ LeaseInv /\ [Next]_vars => (TypeOK /\ LeaseInv)'
  BY TypeNext, LeaseNext
<1>3. TypeOK /\ LeaseInv => /\ HandlersDoNotOverlap
                            /\ AnswersAgree
                            /\ AnsweredCallsRest
                            /\ StoredByHolder
                            /\ OneGpuHandler
  BY LeaseInvImplies
<1>. QED BY <1>1, <1>2, <1>3, PTL DEF Spec

LEMMA StepKeepsCompleted ==
  ASSUME TypeOK, LeaseInv, Next, NEW k \in Calls, status[k] = "completed"
  PROVE  status'[k] = "completed" /\ lease'[k] = lease[k] /\ result'[k] = result[k]
<1>1. ASSUME NEW r \in Invocations, Register(r)
      PROVE  status'[k] = "completed" /\ lease'[k] = lease[k] /\ result'[k] = result[k]
  BY <1>1, RegisterFacts DEF Register
<1>2. ASSUME NEW r \in Invocations, Claim(r)
      PROVE  status'[k] = "completed" /\ lease'[k] = lease[k] /\ result'[k] = result[k]
  <2>1. Claimable(r) => callOf[r] # k
    BY DEF Claimable
  <2>. QED BY <1>2, <2>1, ClaimFacts DEF Claim
<1>3. ASSUME NEW r \in Invocations, pc[r] = "storing", StoreRow(r)
      PROVE  status'[k] = "completed" /\ lease'[k] = lease[k] /\ result'[k] = result[k]
  BY <1>3, StoreRowFacts
<1>4. ASSUME UNCHANGED <<status, lease, result>>
      PROVE  status'[k] = "completed" /\ lease'[k] = lease[k] /\ result'[k] = result[k]
  BY <1>4
<1>. QED BY <1>1, <1>2, <1>3, <1>4
         DEF Next, Step, AcquireGpu, Finish, TimeOut, EndHandler, Normalize, Store,
             StoreFails, Poll, Abandon, Crash, Tick, row

\* A completed row is never claimed or changed again, by whatever invocation and
\* however late.
THEOREM LeaseFinality == Spec => CompletedIsFinal
<1>1. Init => TypeOK /\ LeaseInv
  BY TypeInit, LeaseInit
<1>2. TypeOK /\ LeaseInv /\ [Next]_vars => (TypeOK /\ LeaseInv)'
  BY TypeNext, LeaseNext
<1>3. TypeOK /\ LeaseInv /\ [Next]_vars =>
        [\A k \in Calls : status[k] = "completed" =>
           /\ status'[k] = "completed"
           /\ lease'[k] = lease[k]
           /\ result'[k] = result[k]]_vars
  BY StepKeepsCompleted
<1>. QED BY <1>1, <1>2, <1>3, PTL DEF Spec, CompletedIsFinal

-----------------------------------------------------------------------------
(***************************************************************************)
(* The order of the queue of the semaphore.                                *)
(***************************************************************************)
LEMMA OrderInit == Init => OrderInv
BY EmptySeq DEF Init, OrderInv

\* What the queue's members and the leases of their calls keep.
LEMMA OrderKept ==
  ASSUME OrderInv, UNCHANGED <<gpuQueue, callOf>>,
         \A i \in 1 .. Len(gpuQueue) :
           /\ pc'[gpuQueue[i]] \in {"queueing", "executing"}
           /\ lease'[callOf[gpuQueue[i]]] = lease[callOf[gpuQueue[i]]]
           /\ HolderGone(callOf[gpuQueue[i]]) => HolderGone(callOf[gpuQueue[i]])'
  PROVE  OrderInv'
<1>1. ASSUME NEW i \in 1 .. Len(gpuQueue), HolderBehind(i)  PROVE HolderBehind(i)'
  <2>1. PICK j \in i .. Len(gpuQueue) :
          /\ callOf[gpuQueue[j]] = callOf[gpuQueue[i]]
          /\ gpuQueue[j] = lease[callOf[gpuQueue[i]]]
    BY <1>1 DEF HolderBehind
  <2>. QED BY <2>1 DEF HolderBehind
<1>2. ASSUME NEW i \in 1 .. Len(gpuQueue)
      PROVE  HolderBehind(i)' \/ HolderGone(callOf[gpuQueue[i]])'
  BY <1>1 DEF OrderInv
<1>. QED BY <1>2 DEF OrderInv

\* A holder that is gone stays so while its call stays running under its lease.
LEMMA GoneStays ==
  ASSUME NEW k \in Calls, HolderGone(k), status'[k] = status[k], lease'[k] = lease[k],
         NEW r \in Invocations, pc[r] # "raised",
         \A q \in Invocations \ {r} : pc'[q] = pc[q]
  PROVE  HolderGone(k)'
BY DEF HolderGone

\* Nobody waits for a call whose holder is about to store its outcome.
LEMMA NobodyWaits ==
  ASSUME TypeOK, OrderInv, NEW r \in Invocations, pc[r] \notin {"queueing", "executing"},
         pc[r] # "raised", lease[callOf[r]] = r,
         NEW i \in 1 .. Len(gpuQueue)
  PROVE  callOf[gpuQueue[i]] # callOf[r]
<1>. SUFFICES ASSUME callOf[gpuQueue[i]] = callOf[r]  PROVE FALSE
  OBVIOUS
<1>1. ~HolderGone(callOf[r])
  BY DEF HolderGone
<1>2. PICK j \in i .. Len(gpuQueue) : gpuQueue[j] = r
  BY <1>1 DEF OrderInv, HolderBehind
<1>3. j \in 1 .. Len(gpuQueue)
  BY <1>2, LenProperties DEF TypeOK
<1>. QED BY <1>2, <1>3 DEF OrderInv

\* An update of the row takes no place in the queue from anybody.
LEMMA RowStoredOrders ==
  ASSUME TypeOK, LeaseInv, OrderInv, NEW r \in Invocations, pc[r] = "storing", StoreRow(r),
         UNCHANGED <<callOf, gpuQueue>>,
         \A q \in Invocations \ {r} : pc'[q] = pc[q]
  PROVE  OrderInv'
<1>. SUFFICES ASSUME NEW i \in 1 .. Len(gpuQueue)
              PROVE  LET k == callOf[gpuQueue[i]] IN
                       /\ pc'[gpuQueue[i]] \in {"queueing", "executing"}
                       /\ lease'[k] = lease[k]
                       /\ HolderGone(k) => HolderGone(k)'
  BY OrderKept
<1>1. gpuQueue[i] \in Invocations /\ callOf[gpuQueue[i]] \in Calls
  BY ElementOfSeq DEF TypeOK
<1>2. pc[gpuQueue[i]] \in {"queueing", "executing"}
  BY DEF OrderInv
<1>3. lease' = lease
  BY StoreRowFacts
<1>4. status'[callOf[gpuQueue[i]]] = status[callOf[gpuQueue[i]]]
  <2>1. CASE lease[callOf[r]] = r
    BY <1>1, <2>1, NobodyWaits, StoreRowFacts
  <2>2. CASE lease[callOf[r]] # r
    BY <2>2, StoreRowFacts
  <2>. QED BY <2>1, <2>2
<1>5. HolderGone(callOf[gpuQueue[i]]) => HolderGone(callOf[gpuQueue[i]])'
  BY <1>1, <1>3, <1>4, GoneStays
<1>. QED BY <1>1, <1>2, <1>3, <1>5

\* Whoever claims a GPU call goes to the end of the queue: the holder of the
\* call comes last again.
LEMMA ClaimOrders ==
  ASSUME TypeOK, LeaseInv, OrderInv, NEW r \in Invocations, Claim(r)
  PROVE  OrderInv'
<1>. DEFINE k == callOf[r]
            n == Len(gpuQueue)
<1>0. /\ n \in Nat
      /\ \A i \in 1 .. n : gpuQueue[i] \in Invocations
  BY LenProperties, ElementOfSeq DEF TypeOK
<1>1. \A i \in 1 .. n : gpuQueue[i] # r
  BY ClaimFacts DEF OrderInv
<1>2. /\ UNCHANGED callOf
      /\ \A q \in Invocations \ {r} : pc'[q] = pc[q]
      /\ \A j \in Calls \ {k} : lease'[j] = lease[j] /\ status'[j] = status[j]
      /\ \A q \in Invocations : callOf[q] \in Calls
  BY ClaimFacts DEF Claim, TypeOK
<1>6. \A j \in Calls : (j # k \/ UNCHANGED <<status, lease>>) /\ HolderGone(j) => HolderGone(j)'
  BY <1>2, ClaimFacts, GoneStays
<1>3. CASE UNCHANGED <<status, lease, gpuQueue>>
  BY <1>0, <1>1, <1>2, <1>3, <1>6, OrderKept DEF OrderInv
<1>4. CASE k \notin GpuCalls /\ gpuQueue' = gpuQueue
  <2>1. \A i \in 1 .. n : callOf[gpuQueue[i]] # k
    BY <1>4 DEF OrderInv
  <2>. QED BY <1>0, <1>1, <1>2, <1>4, <1>6, <2>1, OrderKept DEF OrderInv
<1>5. CASE /\ k \in GpuCalls /\ pc'[r] = "queueing" /\ lease'[k] = r
           /\ gpuQueue' = Append(gpuQueue, r)
  <2>1. /\ Len(gpuQueue') = n + 1
        /\ \A i \in 1 .. n : gpuQueue'[i] = gpuQueue[i]
        /\ gpuQueue'[n + 1] = r
    BY <1>5, AppendProperties DEF TypeOK
  <2>. HIDE DEF n
  <2>2. \A i, j \in 1 .. n + 1 : gpuQueue'[i] = gpuQueue'[j] => i = j
    <3>1. \A i, j \in 1 .. n : gpuQueue[i] = gpuQueue[j] => i = j
      BY DEF OrderInv, n
    <3>. QED BY <1>0, <1>1, <2>1, <3>1
  <2>3. ASSUME NEW i \in 1 .. n + 1
        PROVE  /\ pc'[gpuQueue'[i]] \in {"queueing", "executing"}
               /\ callOf[gpuQueue'[i]] \in GpuCalls
    <3>1. CASE i = n + 1
      BY <1>5, <2>1, <3>1
    <3>2. CASE i \in 1 .. n
      <4>1. /\ pc[gpuQueue[i]] \in {"queueing", "executing"}
            /\ callOf[gpuQueue[i]] \in GpuCalls
        BY <3>2 DEF OrderInv, n
      <4>. QED BY <1>0, <1>1, <1>2, <2>1, <3>2, <4>1
    <3>. QED BY <1>0, <3>1, <3>2
  <2>4. ASSUME NEW i \in 1 .. n + 1
        PROVE  \/ \E j \in i .. n + 1 :
                     /\ callOf[gpuQueue'[j]] = callOf[gpuQueue'[i]]
                     /\ gpuQueue'[j] = lease'[callOf[gpuQueue'[i]]]
               \/ HolderGone(callOf[gpuQueue[i]])'
    <3>1. CASE callOf[gpuQueue'[i]] = k
      <4>1. n + 1 \in i .. n + 1
        BY <1>0
      <4>. QED BY <1>5, <2>1, <3>1, <4>1
    <3>2. CASE callOf[gpuQueue'[i]] # k
      <4>1. i \in 1 .. n
        BY <1>0, <2>1, <3>2
      <4>2. /\ callOf[gpuQueue[i]] \in Calls \ {k}
            /\ gpuQueue'[i] = gpuQueue[i]
            /\ lease'[callOf[gpuQueue[i]]] = lease[callOf[gpuQueue[i]]]
        BY <1>0, <1>2, <2>1, <3>2, <4>1
      <4>3. CASE HolderBehind(i)
        <5>1. PICK j \in i .. n : /\ callOf[gpuQueue[j]] = callOf[gpuQueue[i]]
                                  /\ gpuQueue[j] = lease[callOf[gpuQueue[i]]]
          BY <4>1, <4>3 DEF HolderBehind, n
        <5>2. j \in 1 .. n /\ j \in i .. n + 1
          BY <1>0, <4>1, <5>1
        <5>. QED BY <2>1, <4>1, <4>2, <5>1, <5>2
      <4>4. CASE HolderGone(callOf[gpuQueue[i]])
        BY <1>2, <1>6, <4>2, <4>4 DEF HolderGone
      <4>. QED BY <4>1, <4>3, <4>4 DEF OrderInv, n
    <3>. QED BY <3>1, <3>2
  <2>5. ASSUME NEW i \in 1 .. n + 1  PROVE HolderBehind(i)' \/ HolderGone(callOf[gpuQueue[i]])'
    BY <1>2, <2>1, <2>4 DEF HolderBehind
  <2>. QED BY <1>2, <2>1, <2>2, <2>3, <2>5 DEF OrderInv
<1>. QED BY <1>3, <1>4, <1>5, ClaimFacts

\* The one that leaves the semaphore was first: the others keep their order.
LEMMA EndHandlerOrders ==
  ASSUME TypeOK, LeaseInv, OrderInv, NEW r \in Invocations, NEW st \in Settled,
         EndHandler(r, st)
  PROVE  OrderInv'
<1>. DEFINE n == Len(gpuQueue)
<1>0. /\ n \in Nat
      /\ \A i \in 1 .. n : gpuQueue[i] \in Invocations
  BY LenProperties, ElementOfSeq DEF TypeOK
<1>1. /\ pc[r] = "executing" /\ UNCHANGED <<status, lease, callOf>>
      /\ \A q \in Invocations \ {r} : pc'[q] = pc[q]
      /\ \A q \in Invocations : callOf[q] \in Calls
  BY GoToFacts DEF EndHandler, row, Labels, Timed, TypeOK
<1>4. \A k \in Calls : HolderGone(k) => HolderGone(k)'
  BY <1>1, GoneStays
<1>2. CASE callOf[r] \notin GpuCalls
  <2>1. \A i \in 1 .. n : gpuQueue[i] # r
    BY <1>2 DEF OrderInv
  <2>2. gpuQueue' = gpuQueue
    BY <1>2 DEF EndHandler, ReleaseGpu
  <2>. QED BY <1>0, <1>1, <1>4, <2>1, <2>2, OrderKept DEF OrderInv
<1>3. CASE callOf[r] \in GpuCalls
  <2>1. gpuQueue # <<>> /\ Head(gpuQueue) = r /\ gpuQueue' = Tail(gpuQueue)
    BY <1>1, <1>3 DEF EndHandler, ReleaseGpu, LeaseInv, QueueInv
  <2>2. /\ n \in Nat \ {0} /\ gpuQueue[1] = r
        /\ Len(gpuQueue') = n - 1
        /\ \A i \in 1 .. n - 1 : gpuQueue'[i] = gpuQueue[i + 1]
    BY <2>1, HeadTailProperties, EmptySeq, LenProperties DEF TypeOK
  <2>. HIDE DEF n
  <2>3. \A i, j \in 1 .. n : gpuQueue[i] = gpuQueue[j] => i = j
    BY DEF OrderInv, n
  <2>4. \A i, j \in 1 .. n - 1 : gpuQueue'[i] = gpuQueue'[j] => i = j
    <3>. SUFFICES ASSUME NEW i \in 1 .. n - 1, NEW j \in 1 .. n - 1,
                         gpuQueue'[i] = gpuQueue'[j]
                  PROVE  i = j
      OBVIOUS
    <3>1. i + 1 \in 1 .. n /\ j + 1 \in 1 .. n /\ gpuQueue[i + 1] = gpuQueue[j + 1]
      BY <2>2
    <3>2. i + 1 = j + 1
      BY <2>3, <3>1
    <3>. QED BY <3>2
  <2>5. ASSUME NEW i \in 1 .. n - 1
        PROVE  /\ pc'[gpuQueue'[i]] \in {"queueing", "executing"}
               /\ callOf[gpuQueue'[i]] \in GpuCalls
    <3>1. i + 1 \in 1 .. n /\ i + 1 # 1 /\ 1 \in 1 .. n
      BY <2>2
    <3>2. gpuQueue[i + 1] # r
      BY <2>2, <2>3, <3>1
    <3>3. /\ pc[gpuQueue[i + 1]] \in {"queueing", "executing"}
          /\ callOf[gpuQueue[i + 1]] \in GpuCalls
      BY <3>1 DEF OrderInv, n
    <3>. QED BY <1>0, <1>1, <2>2, <3>1, <3>2, <3>3
  <2>6. ASSUME NEW i \in 1 .. n - 1
        PROVE  \/ \E j \in i .. n - 1 :
                     /\ callOf[gpuQueue'[j]] = callOf[gpuQueue'[i]]
                     /\ gpuQueue'[j] = lease[callOf[gpuQueue'[i]]]
               \/ HolderGone(callOf[gpuQueue[i]])'
    <3>1. i + 1 \in 1 .. n
      BY <2>2
    <3>5. CASE HolderGone(callOf[gpuQueue[i + 1]])
      BY <1>0, <1>1, <1>4, <2>2, <3>1, <3>5 DEF HolderGone
    <3>6. SUFFICES ASSUME HolderBehind(i + 1)
                   PROVE  \E j \in i .. n - 1 :
                            /\ callOf[gpuQueue'[j]] = callOf[gpuQueue'[i]]
                            /\ gpuQueue'[j] = lease[callOf[gpuQueue'[i]]]
      BY <3>1, <3>5 DEF OrderInv, n
    <3>2. PICK m \in i + 1 .. n : /\ callOf[gpuQueue[m]] = callOf[gpuQueue[i + 1]]
                                  /\ gpuQueue[m] = lease[callOf[gpuQueue[i + 1]]]
      BY <3>6 DEF HolderBehind, n
    <3>3. m - 1 \in i .. n - 1 /\ m - 1 \in 1 .. n - 1 /\ m = (m - 1) + 1
      BY <2>2, <3>1, <3>2
    <3>4. gpuQueue'[m - 1] = gpuQueue[m] /\ gpuQueue'[i] = gpuQueue[i + 1]
      BY <2>2, <3>3
    <3>. QED BY <3>2, <3>3, <3>4
  <2>7. ASSUME NEW i \in 1 .. n - 1  PROVE HolderBehind(i)' \/ HolderGone(callOf[gpuQueue[i]])'
    BY <1>1, <2>2, <2>6 DEF HolderBehind
  <2>. QED BY <1>1, <2>2, <2>4, <2>5, <2>7 DEF OrderInv
<1>. QED BY <1>2, <1>3

\* Who is cancelled leaves the queue from wherever it stands.  The others keep
\* their order; those that were before it lose the holder behind them, but it
\* held the lease of a running call and is gone.
LEMMA AbandonOrders ==
  ASSUME TypeOK, LeaseInv, OrderInv, NEW r \in Invocations, Abandon(r)
  PROVE  OrderInv'
<1>. DEFINE n == Len(gpuQueue)
<1>0. /\ n \in Nat
      /\ \A i \in 1 .. n : gpuQueue[i] \in Invocations
  BY LenProperties, ElementOfSeq DEF TypeOK
<1>1. /\ pc'[r] = "raised" /\ pc[r] \notin {"raised", "done"} /\ UNCHANGED callOf
      /\ \A q \in Invocations \ {r} : pc'[q] = pc[q]
      /\ \A q \in Invocations : callOf[q] \in Calls
      /\ LeaveGpu(r)
  BY GoToFacts DEF Abandon, Alive, Labels, Timed, TypeOK
<1>2. CASE gpuQueue' = gpuQueue /\ \A i \in 1 .. n : gpuQueue[i] # r
  <2>1. CASE UNCHANGED row
    <3>1. \A k \in Calls : HolderGone(k) => HolderGone(k)'
      BY <1>1, <2>1, GoneStays DEF row
    <3>. QED BY <1>0, <1>1, <1>2, <2>1, <3>1, OrderKept DEF OrderInv, row
  <2>2. CASE pc[r] = "storing" /\ StoreRow(r)
    BY <1>1, <1>2, <2>2, RowStoredOrders
  <2>. QED BY <2>1, <2>2 DEF Abandon
<1>3. ASSUME NEW m \in 1 .. n, gpuQueue[m] = r, Len(gpuQueue') = n - 1,
             \A j \in 1 .. n - 1 :
               gpuQueue'[j] = IF j < m THEN gpuQueue[j] ELSE gpuQueue[j + 1]
      PROVE  OrderInv'
  <2>. DEFINE old(j) == IF j < m THEN j ELSE j + 1
  <2>1. pc[r] \in {"queueing", "executing"}
    BY <1>3 DEF OrderInv
  <2>2. UNCHANGED <<status, lease>>
    BY <2>1 DEF Abandon, row
  <2>3. \A k \in Calls : HolderGone(k) => HolderGone(k)'
    BY <1>1, <2>2, GoneStays
  <2>4. \A i, j \in 1 .. n : gpuQueue[i] = gpuQueue[j] => i = j
    BY DEF OrderInv
  <2>5. \A i \in 1 .. n :
          /\ pc[gpuQueue[i]] \in {"queueing", "executing"}
          /\ callOf[gpuQueue[i]] \in GpuCalls
          /\ HolderBehind(i) \/ HolderGone(callOf[gpuQueue[i]])
    BY DEF OrderInv
  <2>6. \A i \in 1 .. n : HolderBehind(i) =>
          \E j \in i .. n : /\ callOf[gpuQueue[j]] = callOf[gpuQueue[i]]
                           /\ gpuQueue[j] = lease[callOf[gpuQueue[i]]]
    BY DEF HolderBehind
  <2>. HIDE DEF n
  <2>7. \A j \in 1 .. n - 1 : /\ old(j) \in 1 .. n /\ old(j) # m
                              /\ gpuQueue'[j] = gpuQueue[old(j)]
    BY <1>0, <1>3
  <2>8. \A i, j \in 1 .. n - 1 : old(i) = old(j) => i = j
    BY <1>0
  <2>9. \A i \in 1 .. n - 1, h \in 1 .. n : h # m /\ h >= old(i) =>
          \E j \in i .. n - 1 : j \in 1 .. n - 1 /\ old(j) = h
    <3>. SUFFICES ASSUME NEW i \in 1 .. n - 1, NEW h \in 1 .. n, h # m, h >= old(i)
                  PROVE  \E j \in i .. n - 1 : j \in 1 .. n - 1 /\ old(j) = h
      OBVIOUS
    <3>1. CASE h < m
      <4>1. h \in i .. n - 1 /\ h \in 1 .. n - 1 /\ old(h) = h
        BY <1>0, <3>1
      <4>. QED BY <4>1
    <3>2. CASE h > m
      <4>1. h - 1 \in i .. n - 1 /\ h - 1 \in 1 .. n - 1 /\ old(h - 1) = h
        BY <1>0, <3>2
      <4>. QED BY <4>1
    <3>. QED BY <1>0, <3>1, <3>2
  <2>. HIDE DEF old
  <2>10. \A i \in 1 .. n - 1 : gpuQueue[old(i)] \in Invocations \ {r}
    BY <1>0, <1>3, <2>4, <2>7
  <2>11. \A i, j \in 1 .. n - 1 : gpuQueue'[i] = gpuQueue'[j] => i = j
    BY <2>4, <2>7, <2>8
  <2>12. ASSUME NEW i \in 1 .. n - 1
         PROVE  /\ pc'[gpuQueue'[i]] \in {"queueing", "executing"}
                /\ callOf'[gpuQueue'[i]] \in GpuCalls
    BY <1>1, <2>5, <2>7, <2>10
  <2>13. ASSUME NEW i \in 1 .. n - 1
         PROVE  HolderBehind(i)' \/ HolderGone(callOf[gpuQueue[i]])'
    <3>. DEFINE k == callOf[gpuQueue[old(i)]]
    <3>1. /\ old(i) \in 1 .. n /\ gpuQueue'[i] = gpuQueue[old(i)] /\ k \in Calls
      BY <1>1, <2>7, <2>10
    <3>2. CASE HolderGone(k)
      BY <1>1, <2>3, <3>1, <3>2 DEF HolderGone
    <3>3. ASSUME NEW h \in old(i) .. n, callOf[gpuQueue[h]] = k, gpuQueue[h] = lease[k]
          PROVE  HolderBehind(i)' \/ HolderGone(callOf[gpuQueue[i]])'
      <4>1. CASE h = m
        <5>1. lease[k] = r /\ k = callOf[r]
          BY <1>3, <3>3, <4>1
        <5>2. status[k] = "running"
          BY <2>1, <5>1 DEF LeaseInv, HolderInv
        <5>. QED BY <1>1, <2>2, <3>1, <5>1, <5>2 DEF HolderGone
      <4>2. CASE h # m
        <5>1. h \in 1 .. n /\ h >= old(i)
          BY <1>0, <3>1
        <5>2. PICK j \in i .. n - 1 : j \in 1 .. n - 1 /\ old(j) = h
          BY <2>9, <4>2, <5>1
        <5>3. /\ gpuQueue'[j] = gpuQueue[h] /\ Len(gpuQueue') = n - 1
          BY <1>3, <2>7, <5>2
        <5>. QED BY <1>1, <2>2, <3>1, <3>3, <5>2, <5>3 DEF HolderBehind
      <4>. QED BY <4>1, <4>2
    <3>. QED BY <2>5, <2>6, <3>1, <3>2, <3>3
  <2>. QED BY <1>1, <1>3, <2>11, <2>12, <2>13 DEF OrderInv
<1>. QED BY <1>1, <1>2, <1>3, LeaveFacts

\* The other steps move nobody in the queue but from waiting to executing.
LEMMA OthersOrder ==
  ASSUME TypeOK, LeaseInv, OrderInv, NEW r \in Invocations,
         \/ Register(r) \/ AcquireGpu(r) \/ Normalize(r) \/ Store(r) \/ StoreFails(r)
         \/ Poll(r)
  PROVE  OrderInv'
<1>0. \A i \in 1 .. Len(gpuQueue) : /\ gpuQueue[i] \in Invocations
                                    /\ callOf[gpuQueue[i]] \in Calls
  BY ElementOfSeq DEF TypeOK
<1>1. UNCHANGED <<lease, callOf, gpuQueue>>
  BY DEF Register, AcquireGpu, Normalize, Store, StoreRow, StoreFails, Poll, row
<1>2. \A q \in Invocations \ {r} : pc'[q] = pc[q]
  BY DEF Register, AcquireGpu, Normalize, Store, StoreFails, Poll, ReturnStored, Return,
         GoTo, TypeOK
<1>3. CASE Store(r)
  BY <1>1, <1>2, <1>3, RowStoredOrders DEF Store
<1>4. CASE ~Store(r)
  <2>1. pc[r] \in {"queueing", "executing"} => pc'[r] = "executing"
    BY GoToFacts, <1>4 DEF Register, AcquireGpu, Normalize, StoreFails, Poll, Labels, Timed
  <2>2. pc[r] # "raised"
    BY <1>4 DEF Register, AcquireGpu, Normalize, StoreFails, Poll
  <2>3. \A k \in Calls : status'[k] = status[k] \/ status[k] = "none"
    BY <1>4, RegisterFacts DEF AcquireGpu, Normalize, StoreFails, Poll, row
  <2>4. \A k \in Calls : HolderGone(k) => HolderGone(k)'
    BY <1>1, <1>2, <2>2, <2>3, GoneStays DEF HolderGone
  <2>. QED BY <1>0, <1>1, <1>2, <2>1, <2>4, OrderKept DEF OrderInv
<1>. QED BY <1>3, <1>4

LEMMA OrderNext == ASSUME TypeOK, LeaseInv, OrderInv, [Next]_vars  PROVE OrderInv'
<1>1. ASSUME NEW r \in Invocations, Step(r)  PROVE OrderInv'
  <2>1. CASE \E st \in Settled : EndHandler(r, st)
    BY <2>1, EndHandlerOrders
  <2>2. TimeOut(r) => \E st \in Settled : EndHandler(r, st)
    BY DEF TimeOut, Settled
  <2>. QED BY <1>1, <2>1, <2>2, ClaimOrders, OthersOrder,
              AbandonOrders DEF Step, Finish
<1>2. CASE Crash
  BY <1>2, EmptySeq DEF Crash, OrderInv
<1>3. CASE Tick
  BY <1>3 DEF Tick, OrderInv, HolderBehind, HolderGone
<1>4. CASE UNCHANGED vars
  BY <1>4 DEF vars, row, caller, OrderInv, HolderBehind, HolderGone
<1>. QED BY <1>1, <1>2, <1>3, <1>4 DEF Next

\* A call whose result is stored is not executed, not even on the GPU by a
\* holder that lost its lease: whoever stored the result took the lease over,
\* and with it a place behind that holder.
THEOREM CompletedCallsRest == Spec => []NoExecutionAfterCompletion
<1>1. Init => TypeOK /\ LeaseInv /\ OrderInv
  BY TypeInit, LeaseInit, OrderInit
<1>2. (TypeOK /\ LeaseInv /\ OrderInv) /\ [Next]_vars => (TypeOK /\ LeaseInv /\ OrderInv)'
  BY TypeNext, LeaseNext, OrderNext
<1>3. TypeOK /\ LeaseInv /\ OrderInv => NoExecutionAfterCompletion
  <2>. SUFFICES ASSUME TypeOK, LeaseInv, OrderInv, NEW r \in Invocations,
                       pc[r] = "executing", status[callOf[r]] = "completed"
                PROVE  FALSE
    BY DEF NoExecutionAfterCompletion, Running
  <2>1. CASE callOf[r] \notin GpuCalls
    BY <2>1 DEF LeaseInv, CoverInv, HolderInv
  <2>2. CASE callOf[r] \in GpuCalls
    <3>1. /\ gpuQueue # <<>> /\ Len(gpuQueue) \in Nat \ {0} /\ gpuQueue[1] = r
      BY <2>2, HeadTailProperties, EmptySeq, LenProperties
      DEF LeaseInv, QueueInv, TypeOK
    <3>4. ~HolderGone(callOf[r])
      BY DEF HolderGone
    <3>2. PICK j \in 1 .. Len(gpuQueue) : /\ callOf[gpuQueue[j]] = callOf[r]
                                          /\ gpuQueue[j] = lease[callOf[r]]
      BY <3>1, <3>4 DEF OrderInv, HolderBehind
    <3>3. gpuQueue[j] \in Invocations /\ pc[gpuQueue[j]] \in {"queueing", "executing"}
      BY <3>2, ElementOfSeq DEF OrderInv, TypeOK
    <3>. QED BY <3>2, <3>3 DEF LeaseInv, HolderInv
  <2>. QED BY <2>1, <2>2
<1>. QED BY <1>1, <1>2, <1>3, PTL DEF Spec

-----------------------------------------------------------------------------
(***************************************************************************)
(* ToolLease implements SerialCalls.                                       *)
(***************************************************************************)
SerialStep == [Serial!Next]_(Serial!vars)

LEMMA DoneInit == Init => DoneInv
BY DEF Init, DoneInv

LEMMA DoneNext == ASSUME TypeOK, LeaseInv, DoneInv, [Next]_vars  PROVE DoneInv'
<1>1. ASSUME UNCHANGED answer,
             \A r \in Invocations : pc[r] = "done" => pc'[r] = "done"
      PROVE  DoneInv'
  BY <1>1 DEF DoneInv
<1>2. ASSUME NEW r \in Invocations, Register(r)  PROVE DoneInv'
  <2>1. CASE pc'[r] = "done"
    BY <1>2, <2>1, RegisterFacts DEF DoneInv
  <2>2. CASE pc'[r] # "done"
    <3>1. UNCHANGED answer
      BY <1>2, <2>2, ReturnStoredFacts DEF Register
    <3>. QED BY <1>1, <1>2, <3>1, RegisterFacts
  <2>. QED BY <2>1, <2>2
<1>3. ASSUME NEW r \in Invocations, Claim(r)  PROVE DoneInv'
  BY <1>1, <1>3, ClaimFacts DEF Claim
<1>4. ASSUME NEW r \in Invocations, AcquireGpu(r)  PROVE DoneInv'
  BY <1>1, <1>4, GoToFacts DEF AcquireGpu, Labels, Timed
<1>5. ASSUME NEW r \in Invocations, NEW st \in Settled, EndHandler(r, st)
      PROVE  DoneInv'
  BY <1>1, <1>5, GoToFacts DEF EndHandler, Labels, Timed
<1>6. ASSUME NEW r \in Invocations, Store(r)  PROVE DoneInv'
  BY <1>6 DEF Store, Return, GoTo, DoneInv, TypeOK
<1>7. ASSUME NEW r \in Invocations, Normalize(r) \/ StoreFails(r) \/ Abandon(r)
      PROVE  DoneInv'
  <2>1. pc[r] # "done" /\ UNCHANGED answer
    BY <1>7 DEF Normalize, StoreFails, Abandon, Alive, Timed
  <2>2. \A q \in Invocations \ {r} : pc'[q] = pc[q]
    BY <1>7 DEF Normalize, StoreFails, Abandon, GoTo, TypeOK
  <2>. QED BY <1>1, <2>1, <2>2
<1>8. ASSUME NEW r \in Invocations, Poll(r)  PROVE DoneInv'
  BY <1>8 DEF Poll, ReturnStored, Return, GoTo, DoneInv, TypeOK
<1>9. ASSUME Crash \/ Tick \/ UNCHANGED vars  PROVE DoneInv'
  BY <1>1, <1>9 DEF Crash, Tick, vars, caller, Alive, Timed, TypeOK
<1>10. ASSUME NEW r \in Invocations, Step(r)  PROVE DoneInv'
  <2>1. TimeOut(r) => \E st \in Settled : EndHandler(r, st)
    BY DEF TimeOut, Settled
  <2>. QED BY <1>2, <1>3, <1>4, <1>5, <1>6, <1>7, <1>8, <1>10, <2>1 DEF Step, Finish
<1>. QED BY <1>9, <1>10 DEF Next

\* A step that brings nobody to work, and neither stores nor returns a result of
\* a prompt call.
LEMMA QuietStep ==
  ASSUME UNCHANGED callOf, AtWork' \subseteq AtWork,
         \A k \in PromptCalls : result'[k] = result[k],
         \A r \in Invocations : ToldResult(r)' = ToldResult(r)
  PROVE  SerialStep
<1>. DEFINE R == AtWork \ AtWork'
<1>1. R \in SUBSET AtWork /\ AtWork' = AtWork \ R
  OBVIOUS
<1>2. Serial!Leave(R)
  BY <1>1 DEF Serial!Leave
<1>. QED BY <1>1, <1>2 DEF SerialStep, Serial!Next

\* The same for a step of one invocation that it does not bring to work.
LEMMA QuietInvocation ==
  ASSUME NEW r \in Invocations, UNCHANGED callOf,
         \A k \in PromptCalls : result'[k] = result[k],
         r \in AtWork' => r \in AtWork,
         ToldResult(r)' = ToldResult(r),
         \A q \in Invocations \ {r} : /\ pc'[q] = pc[q]
                                       /\ verdict'[q] = verdict[q]
                                       /\ answer'[q] = answer[q]
                                       /\ shown'[q] = shown[q]
  PROVE  SerialStep
<1>1. AtWork' \subseteq AtWork
  BY DEF AtWork
<1>2. \A q \in Invocations : ToldResult(q)' = ToldResult(q)
  BY DEF ToldResult
<1>. QED BY <1>1, <1>2, QuietStep

\* An invocation returns the outcome it found in the row.
LEMMA StoredIsTold ==
  ASSUME TypeOK, LeaseInv, DoneInv, NEW r \in Invocations,
         pc[r] \in {"idle", "polling"},
         status[callOf[r]] \in Settled, ReturnStored(r),
         UNCHANGED <<callOf, result, verdict>>
  PROVE  SerialStep
<1>. DEFINE k == callOf[r]
<1>1. /\ k \in Calls /\ answer[r] = "none" /\ pc'[r] = "done"
      /\ answer'[r] = status[k] /\ shown'[r] = result[k]
      /\ \A q \in Invocations \ {r} : /\ pc'[q] = pc[q]
                                      /\ answer'[q] = answer[q]
                                      /\ shown'[q] = shown[q]
  BY ReturnStoredFacts DEF TypeOK, DoneInv
<1>4. r \notin AtWork'
  BY <1>1 DEF AtWork
<1>2. CASE k \notin PromptCalls \/ status[k] # "completed"
  <2>1. ToldResult(r) = Nobody /\ ToldResult(r)' = Nobody
    BY <1>1, <1>2 DEF ToldResult
  <2>. QED BY <1>1, <1>4, <2>1, QuietInvocation
<1>3. CASE k \in PromptCalls /\ status[k] = "completed"
  <2>1. result[k] # Nobody
    BY <1>1, <1>3 DEF LeaseInv, StoredByHolder
  <2>2. ToldResult(r) = Nobody /\ ToldResult(r)' = result[k]
    BY <1>1, <1>3 DEF ToldResult
  <2>3. \A q \in Invocations : q # r => ToldResult(q)' = ToldResult(q)
    BY <1>1 DEF ToldResult
  <2>4. AtWork' = AtWork
    BY <1>1 DEF AtWork
  <2>5. Serial!Tell(r)
    <3>1. [q \in Invocations |-> ToldResult(q)'] =
            [[q \in Invocations |-> ToldResult(q)] EXCEPT
               ![r] = [j \in PromptCalls |-> result[j]][k]]
      BY <1>1, <1>3, <2>2, <2>3
    <3>2. /\ [q \in Invocations |-> ToldResult(q)][r] = Nobody
          /\ k \in PromptCalls
          /\ [j \in PromptCalls |-> result[j]][k] # Nobody
          /\ [j \in PromptCalls |-> result[j]]' = [j \in PromptCalls |-> result[j]]
      BY <1>1, <1>3, <2>1, <2>2
    <3>. QED BY <2>4, <3>1, <3>2 DEF Serial!Tell
  <2>. QED BY <2>5 DEF SerialStep, Serial!Next
<1>. QED BY <1>2, <1>3

LEMMA RegisterIsSerial ==
  ASSUME TypeOK, LeaseInv, DoneInv, NEW r \in Invocations, Register(r)
  PROVE  SerialStep
<1>1. CASE status[callOf[r]] \in Settled /\ ReturnStored(r)
  BY <1>1, StoredIsTold DEF Register
<1>2. CASE UNCHANGED <<answer, shown>>
  <2>1. r \notin AtWork'
    BY RegisterFacts DEF AtWork
  <2>2. ToldResult(r)' = ToldResult(r)
    BY <1>2 DEF Register, ToldResult
  <2>3. UNCHANGED <<callOf, result, verdict>>
    BY DEF Register
  <2>. QED BY <2>1, <2>2, <2>3, RegisterFacts, QuietInvocation
<1>. QED BY <1>1, <1>2 DEF Register

\* A claim begins an attempt: nobody is at work on the call, or its lease would
\* cover them, and no attempt has succeeded.
LEMMA ClaimIsSerial ==
  ASSUME TypeOK, LeaseInv, DoneInv, NEW r \in Invocations, Claim(r)
  PROVE  SerialStep
<1>. DEFINE k == callOf[r]
<1>1. /\ pc[r] = "claiming" /\ k \in Calls
      /\ UNCHANGED <<callOf, result, verdict, answer, shown>>
      /\ \A q \in Invocations \ {r} : pc'[q] = pc[q]
  BY ClaimFacts DEF Claim
<1>2. \A q \in Invocations : ToldResult(q)' = ToldResult(q)
  BY <1>1 DEF ToldResult
<1>3. CASE pc'[r] \in {"queueing", "polling"} \/ k \notin PromptCalls
  <2>1. r \notin AtWork'
    BY <1>1, <1>3 DEF AtWork
  <2>. QED BY <1>1, <1>2, <2>1, QuietInvocation
<1>4. CASE Claimable(r) /\ pc'[r] = "executing" /\ k \in PromptCalls
  <2>1. AtWork' = AtWork \cup {r}
    BY <1>1, <1>4 DEF AtWork
  <2>2. \A q \in AtWork : callOf[q] # k
    <3>1. \A q \in AtWork : q \in Invocations
      BY DEF AtWork
    <3>. QED BY <1>1, <1>4, <3>1, WorkIsCovered, CoveredIsNotClaimable
  <2>3. result[k] = Nobody
    <3>1. status[k] # "completed"
      BY <1>4 DEF Claimable
    <3>. QED BY <1>1, <3>1 DEF LeaseInv, StoredByHolder
  <2>4. Serial!Begin(r)
    <3>1. /\ [j \in PromptCalls |-> result[j]][k] = Nobody
          /\ [j \in PromptCalls |-> result[j]]' = [j \in PromptCalls |-> result[j]]
          /\ [q \in Invocations |-> ToldResult(q)]' = [q \in Invocations |-> ToldResult(q)]
      BY <1>1, <1>2, <1>4, <2>3
    <3>. QED BY <1>1, <1>4, <2>1, <2>2, <3>1 DEF Serial!Begin
  <2>. QED BY <2>4 DEF SerialStep, Serial!Next
<1>. QED BY <1>3, <1>4, ClaimFacts

\* An update of the row: it stores the result of an attempt at a prompt call that
\* its lease covers, or no result of a prompt call.
LEMMA StoreIsSerial ==
  ASSUME TypeOK, LeaseInv, DoneInv, NEW r \in Invocations, pc[r] = "storing", StoreRow(r),
         pc'[r] \in {"done", "raised"}, UNCHANGED <<callOf, verdict>>,
         \/ answer'[r] = verdict[r] /\ (verdict[r] = "completed" => shown'[r] = r)
         \/ answer'[r] = answer[r],
         \A q \in Invocations \ {r} : /\ pc'[q] = pc[q]
                                       /\ answer'[q] = answer[q]
                                       /\ shown'[q] = shown[q]
  PROVE  SerialStep
<1>. DEFINE k == callOf[r]
<1>1. k \in Calls /\ answer[r] = "none" /\ verdict[r] \in Settled
  BY DEF TypeOK, DoneInv
<1>2. r \notin AtWork'
  BY DEF AtWork
<1>3. ToldResult(r) = Nobody /\ \A q \in Invocations \ {r} : ToldResult(q)' = ToldResult(q)
  BY <1>1 DEF ToldResult
<1>4. CASE k \notin PromptCalls \/ verdict[r] = "failed"
  <2>1. \A j \in PromptCalls : result'[j] = result[j]
    BY <1>1, <1>4, StoreRowFacts DEF PromptCalls
  <2>2. ToldResult(r)' = Nobody
    BY <1>1, <1>4 DEF ToldResult
  <2>. QED BY <1>2, <1>3, <2>1, <2>2, QuietInvocation
<1>5. CASE k \in PromptCalls /\ verdict[r] = "completed"
  <2>1. r \in AtWork /\ lease[k] = r
    BY <1>5 DEF LeaseInv, CoverInv, AtWork
  <2>2. AtWork' = AtWork \ {r}
    BY <1>2, <2>1 DEF AtWork
  <2>3. result' = [result EXCEPT ![k] = r]
    BY <1>5, <2>1, StoreRowFacts
  <2>4. ToldResult(r)' \in {Nobody, r}
    BY <1>1, <1>5 DEF ToldResult
  <2>5. Serial!Complete(r)
    <3>1. [j \in PromptCalls |-> result'[j]] =
            [[j \in PromptCalls |-> result[j]] EXCEPT ![k] = r]
      BY <1>1, <1>5, <2>3 DEF TypeOK, PromptCalls
    <3>2. \/ [q \in Invocations |-> ToldResult(q)'] = [q \in Invocations |-> ToldResult(q)]
          \/ [q \in Invocations |-> ToldResult(q)'] =
               [[q \in Invocations |-> ToldResult(q)] EXCEPT ![r] = r]
      BY <1>3, <2>4
    <3>. QED BY <2>1, <2>2, <3>1, <3>2 DEF Serial!Complete
  <2>. QED BY <2>5 DEF SerialStep, Serial!Next
<1>. QED BY <1>1, <1>4, <1>5 DEF Settled

LEMMA AbandonIsSerial ==
  ASSUME TypeOK, LeaseInv, DoneInv, NEW r \in Invocations, Abandon(r)
  PROVE  SerialStep
<1>1. /\ pc'[r] = "raised" /\ UNCHANGED <<callOf, verdict, answer, shown>>
      /\ \A q \in Invocations \ {r} : pc'[q] = pc[q]
  BY GoToFacts DEF Abandon, Labels
<1>2. CASE UNCHANGED row
  <2>1. r \notin AtWork' /\ ToldResult(r)' = ToldResult(r)
    BY <1>1 DEF AtWork, ToldResult
  <2>. QED BY <1>1, <1>2, <2>1, QuietInvocation DEF row
<1>3. CASE pc[r] = "storing" /\ StoreRow(r)
  BY <1>1, <1>3, StoreIsSerial
<1>. QED BY <1>2, <1>3 DEF Abandon

LEMMA StepIsSerial == ASSUME TypeOK, LeaseInv, DoneInv, [Next]_vars  PROVE SerialStep
<1>1. ASSUME NEW r \in Invocations, AcquireGpu(r) \/ Normalize(r) \/ StoreFails(r)
      PROVE  SerialStep
  <2>1. \/ callOf[r] \notin PromptCalls
        \/ verdict'[r] = "failed" /\ pc'[r] = "storing"
    <3>1. AcquireGpu(r) \/ Normalize(r) => callOf[r] \notin PromptCalls
      BY DEF AcquireGpu, Normalize, LeaseInv, QueueInv, PromptCalls
    <3>2. StoreFails(r) => verdict'[r] = "failed" /\ pc'[r] = "storing"
      BY DEF StoreFails, GoTo, TypeOK
    <3>. QED BY <1>1, <3>1, <3>2
  <2>2. \A q \in Invocations \ {r} : pc'[q] = pc[q] /\ verdict'[q] = verdict[q]
    BY <1>1 DEF AcquireGpu, Normalize, StoreFails, GoTo, TypeOK
  <2>3. UNCHANGED <<callOf, result, answer, shown>>
    BY <1>1 DEF AcquireGpu, Normalize, StoreFails, row
  <2>4. r \notin AtWork' /\ ToldResult(r)' = ToldResult(r)
    BY <2>1, <2>3 DEF AtWork, ToldResult
  <2>. QED BY <2>2, <2>3, <2>4, QuietInvocation
<1>2. ASSUME NEW r \in Invocations, NEW st \in Settled, EndHandler(r, st)
      PROVE  SerialStep
  <2>1. pc[r] = "executing" /\ \A q \in Invocations \ {r} : pc'[q] = pc[q] /\ verdict'[q] = verdict[q]
    BY <1>2 DEF EndHandler, GoTo, TypeOK
  <2>2. UNCHANGED <<callOf, result, answer, shown>>
    BY <1>2 DEF EndHandler, row
  <2>3. (r \in AtWork' => r \in AtWork) /\ ToldResult(r)' = ToldResult(r)
    BY <2>1, <2>2 DEF AtWork, ToldResult
  <2>. QED BY <2>1, <2>2, <2>3, QuietInvocation
<1>7. ASSUME NEW r \in Invocations, Store(r)  PROVE SerialStep
  <2>. DEFINE res == IF verdict[r] = "completed" THEN r ELSE Nobody
  <2>1. /\ pc[r] = "storing" /\ StoreRow(r) /\ UNCHANGED <<callOf, verdict>>
        /\ verdict[r] = "completed" => res = r
    BY <1>7 DEF Store
  <2>3. /\ Return(r, verdict[r], res) /\ res \in Invocations \cup {Nobody}
        /\ verdict[r] \in {"none", "pending"} \cup Settled
    BY <1>7 DEF Store, TypeOK
  <2>. HIDE DEF res
  <2>2. /\ pc'[r] = "done" /\ answer'[r] = verdict[r] /\ shown'[r] = res
        /\ \A q \in Invocations \ {r} : /\ pc'[q] = pc[q]
                                        /\ answer'[q] = answer[q]
                                        /\ shown'[q] = shown[q]
    BY <2>3, ReturnFacts
  <2>. QED BY <2>1, <2>2, StoreIsSerial
<1>3. ASSUME NEW r \in Invocations, Poll(r)  PROVE SerialStep
  <2>1. CASE status[callOf[r]] \in Settled /\ ReturnStored(r)
    BY <1>3, <2>1, StoredIsTold DEF Poll, row, caller
  <2>2. CASE Return(r, "pending", Nobody)
    <3>1. /\ pc'[r] = "done" /\ answer'[r] = "pending"
          /\ \A q \in Invocations \ {r} : /\ pc'[q] = pc[q]
                                          /\ answer'[q] = answer[q]
                                          /\ shown'[q] = shown[q]
      BY <2>2, ReturnFacts
    <3>2. ToldResult(r)' = Nobody /\ ToldResult(r) = Nobody
      BY <1>3, <3>1 DEF Poll, DoneInv, ToldResult
    <3>3. r \notin AtWork'
      BY <3>1 DEF AtWork
    <3>. QED BY <1>3, <3>1, <3>2, <3>3, QuietInvocation DEF Poll, row
  <2>. QED BY <1>3, <2>1, <2>2 DEF Poll
<1>4. ASSUME Crash  PROVE SerialStep
  <2>1. UNCHANGED <<callOf, result, answer, shown>>
    BY <1>4 DEF Crash, row
  <2>2. \A q \in Invocations : ToldResult(q)' = ToldResult(q)
    BY <2>1 DEF ToldResult
  <2>3. AtWork' = {}
    BY <1>4 DEF Crash, AtWork, Alive, Timed
  <2>. QED BY <2>1, <2>2, <2>3, QuietStep
<1>5. ASSUME Tick \/ UNCHANGED vars  PROVE SerialStep
  <2>1. UNCHANGED <<callOf, result, answer, shown, pc, verdict>>
    BY <1>5 DEF Tick, vars, row, caller
  <2>. QED BY <2>1, QuietStep DEF AtWork, ToldResult
<1>6. ASSUME NEW r \in Invocations, Step(r)  PROVE SerialStep
  <2>1. TimeOut(r) => \E st \in Settled : EndHandler(r, st)
    BY DEF TimeOut, Settled
  <2>. QED BY <1>1, <1>2, <1>3, <1>6, <1>7, <2>1, RegisterIsSerial, ClaimIsSerial,
              AbandonIsSerial DEF Step, Finish
<1>. QED BY <1>4, <1>5, <1>6 DEF Next

\* Idempotency of run_tool for prompt calls, whatever the number of callers,
\* the timeouts, and the places where an invocation is cancelled or the process
\* ends: attempts that may still succeed never overlap, the first that succeeds is the last, and everybody who is told that
\* the call has completed is told the one result, which nothing replaces.
THEOREM LeaseMakesCallsSerial == Spec => CallsAreSerial
<1>1. Init => TypeOK /\ LeaseInv /\ DoneInv
  BY TypeInit, LeaseInit, DoneInit
<1>2. (TypeOK /\ LeaseInv /\ DoneInv) /\ [Next]_vars => (TypeOK /\ LeaseInv /\ DoneInv)'
  BY TypeNext, LeaseNext, DoneNext
<1>3. Init => Serial!Init
  <2>1. ASSUME Init  PROVE AtWork = {} /\ \A r \in Invocations : ToldResult(r) = Nobody
    BY <2>1 DEF Init, AtWork, ToldResult
  <2>2. PromptCalls \cup (Calls \ PromptCalls) = Calls
    BY DEF PromptCalls
  <2>. QED BY <2>1, <2>2 DEF Init, Serial!Init
<1>4. (TypeOK /\ LeaseInv /\ DoneInv) /\ [Next]_vars => SerialStep
  BY StepIsSerial
<1>. QED BY <1>1, <1>2, <1>3, <1>4, PTL
         DEF Spec, CallsAreSerial, Serial!Spec, SerialStep
=============================================================================
