------------------------- MODULE EventManagerProofs -------------------------
(***************************************************************************)
(* Theorems about EventManager, for every value of its constants.          *)
(***************************************************************************)
EXTENDS EventManager, SequenceTheorems, FiniteSetTheorems, TLAPS

(***************************************************************************)
(* Sequences of positions.                                                 *)
(***************************************************************************)

\* Yielding the head of the backlog to the client leaves the stream as it is.
LEMMA YieldKeepsStream ==
  ASSUME NEW s \in Seq(Nat), NEW t \in Seq(Nat), t # <<>>
  PROVE  /\ Append(s, Head(t)) \o Tail(t) = s \o t
         /\ Append(s, Head(t)) \in Seq(Nat)
         /\ Tail(t) \in Seq(Nat)
         /\ Head(t) \in Nat
<1>1. Head(t) \in Nat /\ Tail(t) \in Seq(Nat)
  BY HeadTailProperties
<1>2. Append(s, Head(t)) = s \o <<Head(t)>>
  BY <1>1, AppendIsConcat
<1>3. t = <<Head(t)>> \o Tail(t)
  BY <1>1, HeadTailProperties
<1>4. <<Head(t)>> \in Seq(Nat)
  BY <1>1
<1>5. (s \o <<Head(t)>>) \o Tail(t) = s \o (<<Head(t)>> \o Tail(t))
  BY <1>1, <1>4, ConcatAssociative
<1>6. Append(s, Head(t)) \in Seq(Nat)
  BY <1>1, AppendProperties
<1>. QED BY <1>1, <1>2, <1>3, <1>5, <1>6

\* Queueing an event appends it to the stream.
LEMMA QueueAppendsToStream ==
  ASSUME NEW s \in Seq(Nat), NEW t \in Seq(Nat), NEW n \in Nat
  PROVE  s \o Append(t, n) = Append(s \o t, n)
<1>1. <<n>> \in Seq(Nat) /\ s \o t \in Seq(Nat)
  BY ConcatProperties
<1>2. Append(t, n) = t \o <<n>> /\ Append(s \o t, n) = (s \o t) \o <<n>>
  BY <1>1, AppendIsConcat
<1>. QED BY <1>1, <1>2, ConcatAssociative

\* The next position, or a first one, keeps a sequence without gaps.
LEMMA ConsecutiveAppend ==
  ASSUME NEW s \in Seq(Nat), NEW n \in Nat, Consecutive(s),
         s # <<>> => LastOf(s) + 1 = n
  PROVE  /\ Append(s, n) \in Seq(Nat)
         /\ Len(Append(s, n)) = Len(s) + 1
         /\ Append(s, n) # <<>>
         /\ LastOf(Append(s, n)) = n
         /\ Consecutive(Append(s, n))
<1>1. /\ Append(s, n) \in Seq(Nat)
      /\ Len(Append(s, n)) = Len(s) + 1
      /\ \A i \in 1 .. Len(s) : Append(s, n)[i] = s[i]
      /\ Append(s, n)[Len(s) + 1] = n
      /\ Append(s, n) # <<>>
      /\ Len(s) \in Nat
  BY AppendProperties, LenProperties
<1>2. ASSUME NEW i \in 1 .. Len(Append(s, n)) - 1
      PROVE  Append(s, n)[i + 1] = Append(s, n)[i] + 1
  <2>1. CASE i = Len(s)
    BY <1>1, <2>1, EmptySeq DEF LastOf
  <2>2. CASE i # Len(s)
    BY <1>1, <2>2 DEF Consecutive
  <2>. QED BY <2>1, <2>2
<1>. QED BY <1>1, <1>2 DEF Consecutive, LastOf


\* Trimming keeps the newest events, at most BufferLimit of them, unbroken.
LEMMA NewestProperties ==
  ASSUME NEW s \in Seq(Nat), s # <<>>
  PROVE  /\ Newest(s) \in Seq(Nat)
         /\ Newest(s) # <<>>
         /\ Len(Newest(s)) <= BufferLimit
         /\ LastOf(Newest(s)) = LastOf(s)
         /\ Consecutive(s) => Consecutive(Newest(s))
         /\ \A n \in Nat : Within(s, n) => Within(Newest(s), n)
<1>. USE ConstantsAssumption
<1>1. Len(s) \in Nat \ {0}
  BY EmptySeq, LenProperties
<1>2. CASE Len(s) <= BufferLimit
  <2>1. Newest(s) = s
    BY <1>1, <1>2 DEF Newest
  <2>. QED BY <1>2, <2>1
<1>3. CASE Len(s) > BufferLimit
  <2>. DEFINE d == Len(s) - BufferLimit
  <2>1. d \in Nat \ {0} /\ d + 1 \in 1 .. Len(s) + 1 /\ Len(s) \in d .. Len(s)
    BY <1>1, <1>3
  <2>2. Newest(s) = SubSeq(s, d + 1, Len(s))
    BY <1>1, <1>3 DEF Newest
  <2>3. /\ Newest(s) \in Seq(Nat)
        /\ Len(Newest(s)) = BufferLimit
        /\ \A i \in 1 .. BufferLimit : Newest(s)[i] = s[i + d]
    <3>1. \A i \in d + 1 .. Len(s) : s[i] \in Nat
      BY <1>1, <2>1, ElementOfSeq
    <3>2. SubSeq(s, d + 1, Len(s)) \in Seq(Nat)
      BY <1>1, <2>1, <3>1, SubSeqProperties
    <3>3. Len(SubSeq(s, d + 1, Len(s))) = BufferLimit
      BY <1>1, <1>3, <2>1, SubSeqProperties
    <3>4. \A i \in 1 .. BufferLimit : SubSeq(s, d + 1, Len(s))[i] = s[i + d]
      BY <1>1, <1>3, <2>1, SubSeqProperties
    <3>. QED BY <2>2, <3>2, <3>3, <3>4
  <2>4. \A i \in 1 .. BufferLimit : i + d \in 1 .. Len(s)
    BY <1>1, <1>3, <2>1
  <2>5. Newest(s) # <<>> /\ LastOf(Newest(s)) = LastOf(s)
    BY <1>1, <1>3, <2>3, EmptySeq DEF LastOf
  <2>6. ASSUME Consecutive(s)  PROVE Consecutive(Newest(s))
    <3>1. ASSUME NEW i \in 1 .. BufferLimit - 1
          PROVE  Newest(s)[i + 1] = Newest(s)[i] + 1
      <4>1. i + d \in 1 .. Len(s) - 1 /\ i + 1 \in 1 .. BufferLimit /\ i \in 1 .. BufferLimit
        BY <1>1, <1>3, <2>1
      <4>2. s[(i + d) + 1] = s[i + d] + 1
        BY <4>1, <2>6 DEF Consecutive
      <4>3. (i + d) + 1 = (i + 1) + d
        BY <1>1, <2>1
      <4>. QED BY <2>3, <4>1, <4>2, <4>3
    <3>. QED BY <2>3, <3>1 DEF Consecutive
  <2>7. \A n \in Nat : Within(s, n) => Within(Newest(s), n)
    BY <2>3, <2>4 DEF Within
  <2>. QED BY <2>3, <2>5, <2>6, <2>7
<1>. QED BY <1>1, <1>2, <1>3

-----------------------------------------------------------------------------
(***************************************************************************)
(* Type correctness.                                                       *)
(***************************************************************************)
StreamTypes ==
  /\ log \in [Runs -> Seq(Kinds)]
  /\ terminal \in [Runs -> Nat]
  /\ listeners \in [Runs -> Conns \cup {NoConn}]
  /\ buffer \in [Runs -> Seq(Nat)]
  /\ older \in SUBSET (Runs \X Runs)
  /\ stamp \in [Runs -> Nat]
  /\ inbox \in [Conns -> Seq(Nat)]

LEMMA BacklogType ==
  ASSUME TypeOK
  PROVE  /\ \A r \in Runs : Backlog(r) \in Seq(Nat)
         /\ Kept \subseteq Runs
<1>1. Kept \subseteq Runs
  BY DEF Kept, Buffered
<1>2. \A r \in Runs : Backlog(r) \in Seq(Nat)
  BY EmptySeq DEF TypeOK, Backlog
<1>. QED BY <1>1, <1>2

LEMMA PublishType ==
  ASSUME TypeOK, NEW r \in Runs, NEW kind \in Kinds, Publish(r, kind)
  PROVE  StreamTypes'
<1>. DEFINE n == Len(log[r]) + 1
<1>1. n \in Nat
  BY LenProperties DEF TypeOK
<1>2. CASE terminal[r] # 0 /\ UNCHANGED streamVars
  BY <1>2 DEF TypeOK, StreamTypes, streamVars
<1>3. CASE /\ log' = [log EXCEPT ![r] = Append(@, kind)]
           /\ terminal' = [terminal EXCEPT ![r] = IF kind \in Terminal THEN n ELSE 0]
           /\ UNCHANGED listeners
           /\ \/ /\ listeners[r] # NoConn
                 /\ inbox' = [inbox EXCEPT ![listeners[r]] = Append(@, n)]
                 /\ UNCHANGED <<buffer, older, stamp>>
              \/ /\ listeners[r] = NoConn
                 /\ BufferEvent(r, n)
                 /\ UNCHANGED inbox
  <2>1. log' \in [Runs -> Seq(Kinds)]
    <3>1. Append(log[r], kind) \in Seq(Kinds)
      BY AppendProperties DEF TypeOK
    <3>. QED BY <1>3, <3>1 DEF TypeOK
  <2>2. terminal' \in [Runs -> Nat] /\ listeners' \in [Runs -> Conns \cup {NoConn}]
    BY <1>1, <1>3 DEF TypeOK
  <2>3. CASE /\ listeners[r] # NoConn
             /\ inbox' = [inbox EXCEPT ![listeners[r]] = Append(@, n)]
             /\ UNCHANGED <<buffer, older, stamp>>
    <3>1. listeners[r] \in Conns
      BY <2>3 DEF TypeOK
    <3>2. Append(inbox[listeners[r]], n) \in Seq(Nat)
      BY <1>1, <3>1, AppendProperties DEF TypeOK
    <3>3. inbox' \in [Conns -> Seq(Nat)]
      BY <2>3, <3>1, <3>2 DEF TypeOK
    <3>. QED BY <2>1, <2>2, <2>3, <3>3 DEF TypeOK, StreamTypes
  <2>4. CASE /\ listeners[r] = NoConn
             /\ BufferEvent(r, n)
             /\ UNCHANGED inbox
    <3>1. Append(Backlog(r), n) \in Seq(Nat) /\ Append(Backlog(r), n) # <<>>
      BY <1>1, BacklogType, AppendProperties
    <3>2. Newest(Append(Backlog(r), n)) \in Seq(Nat)
      BY <3>1, NewestProperties
    <3>3. buffer' \in [Runs -> Seq(Nat)]
      BY <2>4, <3>2, BacklogType DEF BufferEvent
    <3>4. stamp' \in [Runs -> Nat]
      BY <2>4, BacklogType DEF BufferEvent, TypeOK
    <3>5. older' \in SUBSET (Runs \X Runs)
      <4>1. older \cap (Kept \X Kept) \in SUBSET (Runs \X Runs)
        BY DEF TypeOK
      <4>2. {<<q, r>> : q \in IF r \in Kept THEN {} ELSE Kept} \in SUBSET (Runs \X Runs)
        BY BacklogType
      <4>. QED BY <2>4, <4>1, <4>2 DEF BufferEvent
    <3>. QED BY <2>1, <2>2, <2>4, <3>3, <3>4, <3>5 DEF TypeOK, StreamTypes
  <2>. QED BY <1>3, <2>3, <2>4
<1>. QED BY <1>2, <1>3 DEF Publish

\* Every variable keeps its type: in particular a queue is only ever fed for a
\* run that has a registered connection.
THEOREM TypeCorrect == Spec => []TypeOK
<1>1. Init => TypeOK
  BY EmptySeq DEF Init, TypeOK
<1>2. ASSUME TypeOK, [Next]_vars  PROVE TypeOK'
  <2>. USE <1>2 DEF TypeOK
  <2>1. ASSUME NEW r \in Runs, NEW kind \in Kinds, Emit(r, kind)  PROVE TypeOK'
    <3>1. StreamTypes'
      BY <2>1, PublishType DEF Emit
    <3>2. CASE ReleaseToolResults(r) /\ UNCHANGED <<connVars, now>>
      BY <3>1, <3>2 DEF StreamTypes, ReleaseToolResults, connVars
    <3>3. CASE UNCHANGED toolVars /\ UNCHANGED <<connVars, now>>
      BY <3>1, <3>3 DEF StreamTypes, toolVars, connVars
    <3>. QED BY <2>1, <3>2, <3>3 DEF Emit
  <2>2. ASSUME NEW c \in Conns, NEW r \in Runs, Listen(c, r)  PROVE TypeOK'
    <3>1. Append(Backlog(r), terminal[r]) \in Seq(Nat)
      BY BacklogType, AppendProperties
    <3>2. inbox' \in [Conns -> Seq(Nat)]
      BY <2>2, <3>1, BacklogType DEF Listen, Replay, TakeBacklog
    <3>3. buffer' \in [Runs -> Seq(Nat)]
      BY <2>2, BacklogType, EmptySeq DEF Listen, Replay, TakeBacklog
    <3>4. stamp' \in [Runs -> Nat] /\ older' \in SUBSET (Runs \X Runs)
      BY <2>2, BacklogType DEF Listen, TakeBacklog
    <3>5. /\ listeners' \in [Runs -> Conns \cup {NoConn}]
          /\ pc' \in [Conns -> {"idle", "streaming", "leaving", "gone"}]
          /\ runOf' \in [Conns -> Runs \cup {NoRun}]
      BY <2>2 DEF Listen, Replay, TakeBacklog
    <3>. QED BY <2>2, <3>2, <3>3, <3>4, <3>5 DEF Listen, Replay, TakeBacklog, toolVars
  <2>3. ASSUME NEW c \in Conns, Deliver(c)  PROVE TypeOK'
    <3>1. /\ Tail(inbox[c]) \in Seq(Nat)
          /\ Append(got[c], Head(inbox[c])) \in Seq(Nat)
      BY <2>3, YieldKeepsStream DEF Deliver
    <3>2. inbox' \in [Conns -> Seq(Nat)] /\ got' \in [Conns -> Seq(Nat)]
      BY <2>3, <3>1 DEF Deliver
    <3>3. pc' \in [Conns -> {"idle", "streaming", "leaving", "gone"}]
      BY <2>3 DEF Deliver, EndsStream
    <3>. QED BY <2>3, <3>2, <3>3 DEF Deliver, EndsStream, toolVars
  <2>4. ASSUME NEW c \in Conns, Drop(c) \/ Cancel(c)  PROVE TypeOK'
    BY <2>4 DEF Drop, Cancel, streamVars, toolVars
  <2>5. ASSUME NEW c \in Conns, Cleanup(c)  PROVE TypeOK'
    BY <2>5, EmptySeq DEF Cleanup, toolVars
  <2>6. ASSUME NEW k \in Keys, Dispatch(k)  PROVE TypeOK'
    <3>1. k[1] \in Runs /\ "update" \in Kinds
      BY DEF Keys, Kinds
    <3>2. StreamTypes'
      BY <2>6, <3>1, PublishType DEF Dispatch
    <3>. QED BY <2>6, <3>2 DEF Dispatch, StreamTypes, connVars
  <2>7. ASSUME NEW k \in Keys, BeginWait(k)  PROVE TypeOK'
    BY <2>7 DEF BeginWait, Settle, streamVars, connVars
  <2>8. ASSUME NEW k \in Keys, TimeOut(k) \/ CancelWait(k)  PROVE TypeOK'
    BY <2>8 DEF TimeOut, CancelWait, streamVars, connVars
  <2>9. ASSUME NEW k \in Keys, FinishWait(k)  PROVE TypeOK'
    <3>1. /\ outcome' \in [Keys -> Posts \cup {NoPost, "timeout", "cancelled"}]
          /\ phase' \in [Keys -> {"idle", "expected", "waiting", "done"}]
          /\ expected' \in SUBSET Keys
          /\ submitted' \in SUBSET Keys
      <4>1. CASE Settle(k, held[k])
        BY <4>1 DEF Settle
      <4>2. CASE Settle(k, "timeout")
        BY <4>2 DEF Settle
      <4>3. CASE Settle(k, "cancelled")
        BY <4>3 DEF Settle
      <4>. QED BY <2>9, <4>1, <4>2, <4>3 DEF FinishWait
    <3>. QED BY <2>9, <3>1 DEF FinishWait, streamVars, connVars
  <2>10. ASSUME NEW p \in Posts, NEW k \in Keys, PostResult(p, k)  PROVE TypeOK'
    <3>1. k[1] \in Runs /\ "update" \in Kinds
      BY DEF Keys, Kinds
    <3>2. StreamTypes'
      BY <2>10, <3>1, PublishType DEF PostResult, StreamTypes, streamVars
    <3>3. /\ fut' \in [Keys -> {"none", "pending", "resolved", "timedOut", "cancelled"}]
          /\ held' \in [Keys -> Posts \cup {NoPost}]
          /\ parked' \in [Keys -> Posts \cup {NoPost}]
          /\ submitted' \in SUBSET Keys
          /\ accepted' \in [Keys -> SUBSET Posts]
      <4>1. CASE UNCHANGED <<streamVars, submitted, parked, fut, held, accepted>>
        BY <4>1
      <4>2. CASE /\ submitted' = submitted \cup {k}
                 /\ accepted' = [accepted EXCEPT ![k] = @ \cup {p}]
                 /\ HandOver(k, p)
        <5>1. submitted' \in SUBSET Keys
          BY <4>2
        <5>2. accepted[k] \cup {p} \in SUBSET Posts
          OBVIOUS
        <5>3. accepted' \in [Keys -> SUBSET Posts]
          BY <4>2, <5>2
        <5>4. CASE /\ fut' = [fut EXCEPT ![k] = "resolved"]
                   /\ held' = [held EXCEPT ![k] = p]
                   /\ UNCHANGED parked
          BY <5>1, <5>3, <5>4
        <5>5. CASE parked' = [parked EXCEPT ![k] = p] /\ UNCHANGED <<fut, held>>
          BY <5>1, <5>3, <5>5
        <5>. QED BY <4>2, <5>4, <5>5 DEF HandOver
      <4>. QED BY <2>10, <4>1, <4>2 DEF PostResult
    <3>. QED BY <2>10, <3>2, <3>3 DEF PostResult, StreamTypes, connVars
  <2>11. ASSUME Tick  PROVE TypeOK'
    <3>1. now' \in Nat
      BY <2>11 DEF Tick
    <3>2. UNCHANGED <<streamVars, connVars, toolVars>>
      BY <2>11 DEF Tick
    <3>. QED BY <3>1, <3>2, Zenon DEF streamVars, connVars, toolVars
  <2>12. ASSUME UNCHANGED vars  PROVE TypeOK'
    BY <2>12 DEF vars, streamVars, connVars, toolVars
  <2>. QED BY <2>1, <2>2, <2>3, <2>4, <2>5, <2>6, <2>7, <2>8, <2>9, <2>10,
              <2>11, <2>12 DEF Next
<1>. QED BY <1>1, <1>2, PTL DEF Spec

-----------------------------------------------------------------------------
(***************************************************************************)
(* The invariant of streams.                                               *)
(***************************************************************************)
SInv == LogInv /\ BufferInv /\ ConnInv /\ StreamInv /\ RegisteredInv

LEMMA ConsecutivePrefix ==
  ASSUME NEW s \in Seq(Nat), NEW t \in Seq(Nat), Consecutive(s \o t)
  PROVE  Consecutive(s)
<1>1. /\ Len(s \o t) = Len(s) + Len(t)
      /\ \A i \in 1 .. Len(s) : (s \o t)[i] = s[i]
      /\ Len(s) \in Nat /\ Len(t) \in Nat
  BY ConcatProperties, LenProperties
<1>2. ASSUME NEW i \in 1 .. Len(s) - 1  PROVE s[i + 1] = s[i] + 1
  <2>1. i \in 1 .. Len(s) /\ i + 1 \in 1 .. Len(s) /\ i \in 1 .. Len(s \o t) - 1
    BY <1>1
  <2>. QED BY <1>1, <2>1 DEF Consecutive
<1>. QED BY <1>2 DEF Consecutive

\* The backlog of a run is its buffer or nothing.
LEMMA BacklogCases ==
  ASSUME NEW r \in Runs
  PROVE  Backlog(r) = buffer[r] \/ Backlog(r) = <<>>
BY DEF Backlog

\* An accepted event becomes the last of its run's log; only the log of an
\* ended run ends with a terminal event.
LEMMA PublishLog ==
  ASSUME TypeOK, LogInv, NEW r \in Runs, NEW kind \in Kinds, terminal[r] = 0,
         log' = [log EXCEPT ![r] = Append(@, kind)],
         terminal' = [terminal EXCEPT ![r] =
                        IF kind \in Terminal THEN Len(log[r]) + 1 ELSE 0]
  PROVE  /\ LogInv'
         /\ Len(log'[r]) = Len(log[r]) + 1
         /\ \A q \in Runs : Len(log[q]) \in Nat /\ Len(log'[q]) \in Nat
                              /\ Len(log[q]) <= Len(log'[q])
         /\ \A q \in Runs : q # r => log'[q] = log[q] /\ terminal'[q] = terminal[q]
<1>1. /\ Len(log'[r]) = Len(log[r]) + 1
      /\ \A i \in 1 .. Len(log[r]) : log'[r][i] = log[r][i]
      /\ log'[r][Len(log[r]) + 1] = kind
      /\ Len(log[r]) \in Nat
  BY AppendProperties, LenProperties DEF TypeOK
<1>2. terminal'[r] = IF kind \in Terminal THEN Len(log[r]) + 1 ELSE 0
  BY DEF TypeOK
<1>3. \A q \in Runs : q # r => log'[q] = log[q] /\ terminal'[q] = terminal[q]
  BY DEF TypeOK
<1>4. \A q \in Runs : Len(log[q]) \in Nat
  BY LenProperties DEF TypeOK
<1>5. ASSUME NEW i \in 1 .. Len(log'[r])
      PROVE  log'[r][i] \in Terminal <=> i = terminal'[r]
  <2>1. CASE i = Len(log[r]) + 1
    BY <1>1, <1>2, <2>1
  <2>2. CASE i # Len(log[r]) + 1
    <3>1. i \in 1 .. Len(log[r])
      BY <1>1, <2>2
    <3>2. log[r][i] \notin Terminal
      BY <3>1 DEF LogInv
    <3>. QED BY <1>1, <1>2, <3>1, <3>2
  <2>. QED BY <2>1, <2>2
<1>6. LogInv'
  <2>1. ASSUME NEW q \in Runs
        PROVE  /\ terminal'[q] # 0 => terminal'[q] = Len(log'[q])
               /\ \A i \in 1 .. Len(log'[q]) : log'[q][i] \in Terminal <=> i = terminal'[q]
    <3>1. CASE q = r
      BY <1>1, <1>2, <1>5, <3>1
    <3>2. CASE q # r
      BY <1>3, <3>2 DEF LogInv
    <3>. QED BY <3>1, <3>2
  <2>. QED BY <2>1 DEF LogInv
<1>. QED BY <1>1, <1>3, <1>4, <1>6

\* A longer log still contains the stream.
LEMMA WithinMonotone ==
  ASSUME NEW s \in Seq(Nat), NEW m \in Nat, NEW n \in Nat, m <= n, Within(s, m)
  PROVE  Within(s, n)
BY DEF Within

LEMMA WithinAppend ==
  ASSUME NEW s \in Seq(Nat), NEW n \in Nat \ {0}, Within(s, n)
  PROVE  Within(Append(s, n), n)
<1>1. /\ Len(Append(s, n)) = Len(s) + 1
      /\ \A i \in 1 .. Len(s) : Append(s, n)[i] = s[i]
      /\ Append(s, n)[Len(s) + 1] = n
      /\ Len(s) \in Nat
  BY AppendProperties, LenProperties
<1>. QED BY <1>1 DEF Within

\* Steps that touch neither logs nor streams.
LEMMA StutterKeepsSInv ==
  ASSUME SInv, UNCHANGED <<streamVars, pc, runOf, got>>, online' \in SUBSET online,
         \A c \in Conns : pc[c] = "idle" /\ c \in online => c \in online'
  PROVE  SInv'
<1>. USE DEF streamVars
<1>1. LogInv'
  BY DEF SInv, LogInv
<1>2. BufferInv'
  BY DEF SInv, BufferInv, Within, Consecutive, LastOf
<1>3. ConnInv'
  BY DEF SInv, ConnInv
<1>4. StreamInv'
  BY DEF SInv, StreamInv, Within, Consecutive, Stream
<1>5. RegisteredInv'
  BY DEF SInv, RegisteredInv, LastOf, Stream
<1>. QED BY <1>1, <1>2, <1>3, <1>4, <1>5 DEF SInv

\* emit, in each of its callers.
LEMMA PublishKeepsSInv ==
  ASSUME TypeOK, SInv, NEW r \in Runs, NEW kind \in Kinds, Publish(r, kind),
         UNCHANGED connVars
  PROVE  SInv'
<1>. DEFINE n == Len(log[r]) + 1
<1>1. CASE UNCHANGED streamVars
  BY <1>1, StutterKeepsSInv DEF connVars
<1>2. CASE /\ terminal[r] = 0
           /\ log' = [log EXCEPT ![r] = Append(@, kind)]
           /\ terminal' = [terminal EXCEPT ![r] = IF kind \in Terminal THEN n ELSE 0]
           /\ UNCHANGED listeners
           /\ \/ /\ listeners[r] # NoConn
                 /\ inbox' = [inbox EXCEPT ![listeners[r]] = Append(@, n)]
                 /\ UNCHANGED <<buffer, older, stamp>>
              \/ /\ listeners[r] = NoConn
                 /\ BufferEvent(r, n)
                 /\ UNCHANGED inbox
  <2>1. /\ LogInv'
        /\ Len(log'[r]) = n
        /\ \A q \in Runs : Len(log[q]) \in Nat /\ Len(log'[q]) \in Nat
                             /\ Len(log[q]) <= Len(log'[q])
        /\ \A q \in Runs : q # r => log'[q] = log[q] /\ terminal'[q] = terminal[q]
    BY <1>2, PublishLog DEF SInv
  <2>2. n \in Nat \ {0}
    BY <2>1
  <2>3. ConnInv'
    <3>1. \A c \in Conns : pc[c] = "idle" => inbox'[c] = inbox[c]
      <4>1. CASE /\ listeners[r] # NoConn
                 /\ inbox' = [inbox EXCEPT ![listeners[r]] = Append(@, n)]
        <5>1. PICK c \in Conns : listeners[r] = c
          BY <4>1 DEF TypeOK
        <5>2. pc[c] \in {"streaming", "leaving"}
          BY <5>1 DEF SInv, ConnInv
        <5>. QED BY <4>1, <5>1, <5>2 DEF TypeOK
      <4>2. CASE UNCHANGED inbox
        BY <4>2
      <4>. QED BY <1>2, <4>1, <4>2
    <3>. QED BY <1>2, <3>1 DEF SInv, ConnInv, connVars
  <2>4. CASE /\ listeners[r] # NoConn
             /\ inbox' = [inbox EXCEPT ![listeners[r]] = Append(@, n)]
             /\ UNCHANGED <<buffer, older, stamp>>
    <3>0. PICK c \in Conns : listeners[r] = c
      BY <2>4 DEF TypeOK
    <3>1. c \in Conns /\ listeners[r] = c /\ runOf[c] = r
      BY <3>0 DEF SInv, ConnInv
    <3>2. inbox'[c] = Append(inbox[c], n) /\ \A d \in Conns : d # c => inbox'[d] = inbox[d]
      BY <2>4, <3>1 DEF TypeOK
    <3>3. /\ inbox[c] \in Seq(Nat) /\ got[c] \in Seq(Nat)
          /\ Stream(c) \in Seq(Nat)
      BY <3>1, ConcatProperties DEF TypeOK, Stream
    <3>4. Stream(c)' = Append(Stream(c), n)
      <4>1. Stream(c)' = got[c] \o Append(inbox[c], n)
        BY <3>2 DEF Stream, connVars
      <4>2. n \in Nat
        BY <2>2
      <4>3. got[c] \o Append(inbox[c], n) = Append(got[c] \o inbox[c], n)
        BY <3>3, <4>2, QueueAppendsToStream
      <4>. QED BY <4>1, <4>3 DEF Stream
    <3>5. BufferInv'
      <4>1. buffer[r] = <<>>
        BY <2>4 DEF SInv, BufferInv
      <4>2. ASSUME NEW q \in Runs
            PROVE  /\ Within(buffer'[q], Len(log'[q]))
                   /\ Consecutive(buffer'[q])
                   /\ Len(buffer'[q]) <= BufferLimit
                   /\ buffer'[q] # <<>> => /\ listeners'[q] = NoConn
                                           /\ LastOf(buffer'[q]) = Len(log'[q])
        <5>1. CASE q = r
          BY <2>4, <4>1, <5>1, EmptySeq, ConstantsAssumption DEF Within, Consecutive
        <5>2. CASE q # r
          BY <1>2, <2>1, <2>4, <5>2 DEF SInv, BufferInv
        <5>. QED BY <5>1, <5>2
      <4>. QED BY <4>2 DEF BufferInv, Within, Consecutive, LastOf
    <3>6. c \in online => /\ Consecutive(Stream(c)')
                          /\ Stream(c)' # <<>>
                          /\ LastOf(Stream(c)') = n
      <4>1. ASSUME c \in online  PROVE Consecutive(Stream(c))
        BY <3>1, <4>1 DEF SInv, StreamInv
      <4>2. ASSUME c \in online, Stream(c) # <<>>  PROVE LastOf(Stream(c)) + 1 = n
        BY <3>1, <4>2 DEF SInv, RegisteredInv
      <4>. QED BY <2>2, <3>3, <3>4, <4>1, <4>2, ConsecutiveAppend
    <3>7. StreamInv'
      <4>1. ASSUME NEW d \in Conns
            PROVE  /\ Consecutive(got'[d])
                   /\ d \in online' => Consecutive(Stream(d)')
                   /\ runOf'[d] # NoRun => /\ Within(got'[d], Len(log'[runOf'[d]]))
                                           /\ Within(inbox'[d], Len(log'[runOf'[d]]))
        <5>1. got'[d] = got[d] /\ runOf'[d] = runOf[d] /\ online' = online
          BY DEF connVars
        <5>2. Consecutive(got[d])
          BY DEF SInv, StreamInv
        <5>3. CASE d = c
          <6>1. Within(inbox[c], Len(log[r])) /\ Within(got[c], Len(log[r]))
            BY <3>1, ConstantsAssumption DEF SInv, StreamInv
          <6>2. Within(inbox[c], n) /\ Within(got[c], n)
            BY <2>1, <2>2, <3>3, <6>1, WithinMonotone
          <6>3. Within(inbox'[c], n)
            BY <2>2, <3>2, <3>3, <6>2, WithinAppend
          <6>. QED BY <2>1, <3>1, <3>6, <5>1, <5>2, <5>3, <6>2, <6>3
        <5>4. CASE d # c
          <6>1. inbox'[d] = inbox[d] /\ Stream(d)' = Stream(d)
            BY <3>2, <5>1, <5>4 DEF Stream
          <6>2. ASSUME runOf[d] # NoRun
                PROVE  /\ Within(got[d], Len(log'[runOf[d]]))
                       /\ Within(inbox[d], Len(log'[runOf[d]]))
            <7>1. runOf[d] \in Runs /\ got[d] \in Seq(Nat) /\ inbox[d] \in Seq(Nat)
              BY <6>2 DEF TypeOK
            <7>2. Within(got[d], Len(log[runOf[d]])) /\ Within(inbox[d], Len(log[runOf[d]]))
              BY <6>2 DEF SInv, StreamInv
            <7>. QED BY <2>1, <7>1, <7>2, WithinMonotone
          <6>. QED BY <5>1, <5>2, <6>1, <6>2 DEF SInv, StreamInv
        <5>. QED BY <5>3, <5>4
      <4>. QED BY <4>1 DEF StreamInv, Within, Consecutive
    <3>8. RegisteredInv'
      <4>1. ASSUME NEW d \in online, NEW q \in Runs, listeners'[q] = d
            PROVE  /\ Stream(d)' # <<>> => LastOf(Stream(d)') = Len(log'[q])
                   /\ terminal'[q] # 0 => Stream(d)' # <<>>
        <5>1. d \in Conns /\ listeners[q] = d /\ runOf[d] = q
          BY <1>2, <4>1 DEF SInv, ConnInv, TypeOK
        <5>2. CASE d = c
          BY <2>1, <3>1, <3>6, <5>1, <5>2
        <5>3. CASE d # c
          <6>1. q # r
            BY <3>1, <5>1, <5>3
          <6>2. Stream(d)' = Stream(d)
            BY <3>2, <5>1, <5>3 DEF Stream, connVars
          <6>. QED BY <2>1, <5>1, <6>1, <6>2 DEF SInv, RegisteredInv
        <5>. QED BY <5>2, <5>3
      <4>. QED BY <4>1 DEF RegisteredInv, LastOf, connVars
    <3>. QED BY <2>1, <2>3, <3>5, <3>7, <3>8 DEF SInv
  <2>5. CASE listeners[r] = NoConn /\ BufferEvent(r, n) /\ UNCHANGED inbox
    <3>1. \A d \in Conns : Stream(d)' = Stream(d) /\ inbox'[d] = inbox[d] /\ got'[d] = got[d]
      BY <2>5 DEF Stream, connVars
    <3>2. BufferInv'
      <4>1. ASSUME NEW q \in Runs
            PROVE  /\ Within(buffer'[q], Len(log'[q]))
                   /\ Consecutive(buffer'[q])
                   /\ Len(buffer'[q]) <= BufferLimit
                   /\ buffer'[q] # <<>> => /\ listeners'[q] = NoConn
                                           /\ LastOf(buffer'[q]) = Len(log'[q])
        <5>1. /\ Backlog(q) \in Seq(Nat)
              /\ Within(Backlog(q), Len(log[q]))
              /\ Consecutive(Backlog(q))
              /\ Len(Backlog(q)) <= BufferLimit
              /\ Backlog(q) # <<>> => /\ listeners[q] = NoConn
                                      /\ LastOf(Backlog(q)) = Len(log[q])
          <6>1. CASE Backlog(q) = buffer[q]
            BY <6>1, BacklogType DEF SInv, BufferInv
          <6>2. CASE Backlog(q) = <<>>
            BY <6>2, EmptySeq, BacklogType, ConstantsAssumption DEF Within, Consecutive
          <6>. QED BY <6>1, <6>2, BacklogCases
        <5>2. CASE q = r
          <6>. DEFINE s == Append(Backlog(r), n)
          <6>1. s \in Seq(Nat) /\ s # <<>> /\ Consecutive(s) /\ LastOf(s) = n
            BY <2>2, <5>1, <5>2, ConsecutiveAppend
          <6>2. Within(s, n)
            <7>1. Within(Backlog(r), n)
              BY <2>1, <2>2, <5>1, <5>2, WithinMonotone
            <7>. QED BY <2>2, <5>1, <5>2, <7>1, WithinAppend
          <6>3. buffer'[r] = Newest(s)
            BY <2>5 DEF BufferEvent
          <6>4. /\ Len(Newest(s)) <= BufferLimit
                /\ LastOf(Newest(s)) = n
                /\ Consecutive(Newest(s))
                /\ Within(Newest(s), n)
            BY <2>2, <6>1, <6>2, NewestProperties
          <6>. QED BY <1>2, <2>1, <2>5, <5>2, <6>3, <6>4
        <5>3. CASE q # r
          <6>1. buffer'[q] = Backlog(q)
            BY <2>5, <5>3 DEF BufferEvent
          <6>. QED BY <1>2, <2>1, <5>1, <5>3, <6>1
        <5>. QED BY <5>2, <5>3
      <4>. QED BY <4>1 DEF BufferInv, Within, Consecutive, LastOf
    <3>3. StreamInv'
      <4>1. ASSUME NEW d \in Conns, runOf[d] # NoRun
            PROVE  /\ Within(got[d], Len(log'[runOf[d]]))
                   /\ Within(inbox[d], Len(log'[runOf[d]]))
        <5>1. runOf[d] \in Runs /\ got[d] \in Seq(Nat) /\ inbox[d] \in Seq(Nat)
          BY <4>1 DEF TypeOK
        <5>2. Within(got[d], Len(log[runOf[d]])) /\ Within(inbox[d], Len(log[runOf[d]]))
          BY <4>1 DEF SInv, StreamInv
        <5>. QED BY <2>1, <5>1, <5>2, WithinMonotone
      <4>2. \A d \in Conns : /\ Consecutive(got[d])
                             /\ d \in online => Consecutive(Stream(d))
        BY DEF SInv, StreamInv
      <4>. QED BY <3>1, <4>1, <4>2 DEF StreamInv, Within, Consecutive, connVars
    <3>4. RegisteredInv'
      <4>1. ASSUME NEW d \in online, NEW q \in Runs, listeners'[q] = d
            PROVE  /\ Stream(d)' # <<>> => LastOf(Stream(d)') = Len(log'[q])
                   /\ terminal'[q] # 0 => Stream(d)' # <<>>
        <5>1. d \in Conns /\ listeners[q] = d /\ q # r
          BY <1>2, <2>5, <4>1, ConstantsAssumption DEF TypeOK
        <5>. QED BY <2>1, <3>1, <5>1 DEF SInv, RegisteredInv
      <4>. QED BY <4>1 DEF RegisteredInv, LastOf, connVars
    <3>. QED BY <2>1, <2>3, <3>2, <3>3, <3>4 DEF SInv
  <2>. QED BY <1>2, <2>4, <2>5
<1>. QED BY <1>1, <1>2 DEF Publish

LEMMA ListenKeepsSInv ==
  ASSUME TypeOK, SInv, NEW c \in Conns, NEW r \in Runs, Listen(c, r)
  PROVE  SInv'
<1>. DEFINE b == Backlog(r)
            replay == IF terminal[r] # 0 /\ ~(\E i \in DOMAIN b : log[r][b[i]] \in Terminal)
                      THEN Append(b, terminal[r]) ELSE b
<1>1. /\ pc[c] = "idle" /\ got[c] = <<>> /\ inbox[c] = <<>>
      /\ runOf'[c] = r /\ pc'[c] = "streaming" /\ inbox'[c] = replay /\ got'[c] = <<>>
      /\ UNCHANGED <<log, terminal, online, got>>
      /\ \A d \in Conns : d # c => /\ pc'[d] = pc[d] /\ runOf'[d] = runOf[d]
                                   /\ inbox'[d] = inbox[d]
      /\ listeners'[r] = c /\ \A q \in Runs : q # r => listeners'[q] = listeners[q]
  BY DEF Listen, Replay, TakeBacklog, SInv, ConnInv, TypeOK
<1>2. \A q \in Runs : /\ Backlog(q) \in Seq(Nat)
                      /\ Within(Backlog(q), Len(log[q]))
                      /\ Consecutive(Backlog(q))
                      /\ Len(Backlog(q)) <= BufferLimit
                      /\ Backlog(q) # <<>> => /\ listeners[q] = NoConn
                                              /\ LastOf(Backlog(q)) = Len(log[q])
  <2>. SUFFICES ASSUME NEW q \in Runs
                PROVE  /\ Backlog(q) \in Seq(Nat)
                       /\ Within(Backlog(q), Len(log[q]))
                       /\ Consecutive(Backlog(q))
                       /\ Len(Backlog(q)) <= BufferLimit
                       /\ Backlog(q) # <<>> => /\ listeners[q] = NoConn
                                               /\ LastOf(Backlog(q)) = Len(log[q])
    OBVIOUS
  <2>1. CASE Backlog(q) = buffer[q]
    BY <2>1, BacklogType DEF SInv, BufferInv
  <2>2. CASE Backlog(q) = <<>>
    BY <2>2, EmptySeq, BacklogType, ConstantsAssumption DEF Within, Consecutive
  <2>. QED BY <2>1, <2>2, BacklogCases
<1>3. \A q \in Runs : Len(log[q]) \in Nat
  BY LenProperties DEF TypeOK
\* The replayed terminal event never follows a gap: an ended run's backlog is
\* empty or ends with that event.
<1>4. /\ replay \in Seq(Nat)
      /\ Consecutive(replay)
      /\ Within(replay, Len(log[r]))
      /\ replay # <<>> => LastOf(replay) = Len(log[r])
      /\ terminal[r] # 0 => replay # <<>>
  <2>1. CASE terminal[r] = 0
    BY <1>2, <2>1
  <2>2. CASE terminal[r] # 0 /\ b # <<>>
    <3>1. Len(b) \in DOMAIN b /\ b[Len(b)] = Len(log[r])
      BY <1>2, <2>2, EmptySeq, LenProperties DEF LastOf
    <3>2. Len(log[r]) = terminal[r] /\ Len(log[r]) \in 1 .. Len(log[r])
      BY <1>3, <2>2 DEF SInv, LogInv
    <3>3. log[r][b[Len(b)]] \in Terminal
      BY <3>1, <3>2 DEF SInv, LogInv
    <3>4. replay = b
      BY <3>1, <3>3
    <3>. QED BY <1>2, <2>2, <3>4
  <2>3. CASE terminal[r] # 0 /\ b = <<>>
    <3>1. Len(log[r]) = terminal[r] /\ terminal[r] \in Nat \ {0}
      BY <1>3, <2>3 DEF SInv, LogInv
    <3>2. replay = Append(b, terminal[r])
      BY <2>3
    <3>3. b \in Seq(Nat) /\ Within(b, terminal[r]) /\ Consecutive(b)
      BY <1>2, <3>1
    <3>4. Within(Append(b, terminal[r]), terminal[r])
      BY <3>1, <3>3, WithinAppend
    <3>5. /\ Append(b, terminal[r]) \in Seq(Nat)
          /\ Append(b, terminal[r]) # <<>>
          /\ LastOf(Append(b, terminal[r])) = terminal[r]
          /\ Consecutive(Append(b, terminal[r]))
      BY <2>3, <3>1, <3>3, ConsecutiveAppend
    <3>. QED BY <3>1, <3>2, <3>4, <3>5
  <2>. QED BY <2>1, <2>2, <2>3
<1>5. Stream(c)' = replay
  BY <1>1, <1>4, ConcatEmptySeq DEF Stream
<1>6. \A d \in Conns : d # c => Stream(d)' = Stream(d)
  BY <1>1 DEF Stream
<1>7. LogInv'
  BY <1>1 DEF SInv, LogInv
<1>8. BufferInv'
  <2>1. ASSUME NEW q \in Runs
        PROVE  /\ Within(buffer'[q], Len(log'[q]))
               /\ Consecutive(buffer'[q])
               /\ Len(buffer'[q]) <= BufferLimit
               /\ buffer'[q] # <<>> => /\ listeners'[q] = NoConn
                                       /\ LastOf(buffer'[q]) = Len(log'[q])
    <3>1. CASE q = r
      <4>1. buffer'[q] = <<>>
        BY <3>1 DEF Listen, Replay, TakeBacklog
      <4>. QED BY <4>1, EmptySeq, ConstantsAssumption DEF Within, Consecutive
    <3>2. CASE q # r
      <4>1. buffer'[q] = Backlog(q)
        BY <3>2 DEF Listen, Replay, TakeBacklog
      <4>. QED BY <1>1, <1>2, <3>2, <4>1
    <3>. QED BY <3>1, <3>2
  <2>. QED BY <2>1 DEF BufferInv, Within, Consecutive, LastOf
<1>9. ConnInv'
  <2>1. ASSUME NEW d \in Conns
        PROVE  /\ pc'[d] = "idle" <=> runOf'[d] = NoRun
               /\ pc'[d] = "idle" => inbox'[d] = <<>> /\ got'[d] = <<>> /\ d \in online'
               /\ \A q \in Runs : listeners'[q] = d =>
                    runOf'[d] = q /\ pc'[d] \in {"streaming", "leaving"}
    <3>1. CASE d = c
      <4>1. \A q \in Runs : q # r => listeners[q] # c
        BY <1>1 DEF SInv, ConnInv
      <4>. QED BY <1>1, <3>1, <4>1, ConstantsAssumption
    <3>2. CASE d # c
      BY <1>1, <3>2 DEF SInv, ConnInv
    <3>. QED BY <3>1, <3>2
  <2>. QED BY <2>1 DEF ConnInv
<1>10. StreamInv'
  <2>1. ASSUME NEW d \in Conns
        PROVE  /\ Consecutive(got'[d])
               /\ d \in online' => Consecutive(Stream(d)')
               /\ runOf'[d] # NoRun => /\ Within(got'[d], Len(log'[runOf'[d]]))
                                       /\ Within(inbox'[d], Len(log'[runOf'[d]]))
    <3>1. CASE d = c
      <4>1. Consecutive(<<>>) /\ \A m \in Nat : Within(<<>>, m)
        BY EmptySeq DEF Consecutive, Within
      <4>2. Len(log[r]) \in Nat
        BY <1>3
      <4>. QED BY <1>1, <1>4, <1>5, <3>1, <4>1, <4>2
    <3>2. CASE d # c
      BY <1>1, <1>6, <3>2 DEF SInv, StreamInv
    <3>. QED BY <3>1, <3>2
  <2>. QED BY <2>1 DEF StreamInv, Within, Consecutive
<1>11. RegisteredInv'
  <2>1. ASSUME NEW d \in online', NEW q \in Runs, listeners'[q] = d
        PROVE  /\ Stream(d)' # <<>> => LastOf(Stream(d)') = Len(log'[q])
               /\ terminal'[q] # 0 => Stream(d)' # <<>>
    <3>0. d \in Conns /\ d \in online
      BY <1>1, <2>1 DEF TypeOK
    <3>1. CASE q = r
      BY <1>1, <1>4, <1>5, <2>1, <3>1
    <3>2. CASE q # r
      <4>1. listeners[q] = d /\ d # c
        BY <1>1, <2>1, <3>2 DEF SInv, ConnInv
      <4>. QED BY <1>1, <1>6, <3>0, <3>2, <4>1 DEF SInv, RegisteredInv
    <3>. QED BY <3>1, <3>2
  <2>. QED BY <2>1 DEF RegisteredInv, LastOf
<1>. QED BY <1>7, <1>8, <1>9, <1>10, <1>11 DEF SInv

LEMMA DeliverKeepsSInv ==
  ASSUME TypeOK, SInv, NEW c \in Conns, Deliver(c)
  PROVE  SInv'
<1>. DEFINE n == Head(inbox[c])
<1>1. /\ inbox[c] # <<>> /\ inbox[c] \in Seq(Nat) /\ got[c] \in Seq(Nat)
      /\ inbox'[c] = Tail(inbox[c])
      /\ pc[c] = "streaming" /\ pc'[c] \in {"streaming", "leaving"}
      /\ got'[c] = IF c \in online THEN Append(got[c], n) ELSE got[c]
      /\ \A d \in Conns : d # c => /\ pc'[d] = pc[d] /\ inbox'[d] = inbox[d]
                                   /\ got'[d] = got[d]
      /\ UNCHANGED <<log, terminal, listeners, buffer, runOf, online>>
  BY DEF Deliver, EndsStream, TypeOK
<1>2. /\ Append(got[c], n) \o Tail(inbox[c]) = got[c] \o inbox[c]
      /\ Append(got[c], n) \in Seq(Nat) /\ Tail(inbox[c]) \in Seq(Nat)
      /\ n \in Nat
  BY <1>1, YieldKeepsStream
<1>3. \A d \in Conns : d \in online => Stream(d)' = Stream(d)
  BY <1>1, <1>2 DEF Stream
<1>4. LogInv' /\ BufferInv'
  BY <1>1 DEF SInv, LogInv, BufferInv, Within, Consecutive, LastOf
<1>5. ConnInv'
  <2>1. ASSUME NEW d \in Conns
        PROVE  /\ pc'[d] = "idle" <=> runOf'[d] = NoRun
               /\ pc'[d] = "idle" => inbox'[d] = <<>> /\ got'[d] = <<>> /\ d \in online'
               /\ \A q \in Runs : listeners'[q] = d =>
                    runOf'[d] = q /\ pc'[d] \in {"streaming", "leaving"}
    BY <1>1 DEF SInv, ConnInv
  <2>. QED BY <2>1 DEF ConnInv
<1>6. StreamInv'
  <2>1. c \in online => Consecutive(Append(got[c], n))
    <3>1. ASSUME c \in online  PROVE Consecutive(Append(got[c], n) \o Tail(inbox[c]))
      BY <1>2, <3>1 DEF SInv, StreamInv, Stream
    <3>. QED BY <1>2, <3>1, ConsecutivePrefix
  <2>2. ASSUME NEW m \in Nat, Within(got[c], m), Within(inbox[c], m)
        PROVE  Within(Append(got[c], n), m) /\ Within(Tail(inbox[c]), m)
    <3>1. /\ Len(Append(got[c], n)) = Len(got[c]) + 1
          /\ \A i \in 1 .. Len(got[c]) : Append(got[c], n)[i] = got[c][i]
          /\ Append(got[c], n)[Len(got[c]) + 1] = n
          /\ Len(got[c]) \in Nat
      BY <1>1, <1>2, AppendProperties, LenProperties
    <3>2. /\ Len(Tail(inbox[c])) = Len(inbox[c]) - 1
          /\ \A i \in 1 .. Len(inbox[c]) - 1 : Tail(inbox[c])[i] = inbox[c][i + 1]
          /\ Len(inbox[c]) \in Nat \ {0}
          /\ n = inbox[c][1]
      BY <1>1, HeadTailProperties, LenProperties, EmptySeq
    <3>3. /\ \A i \in 1 .. Len(got[c]) : got[c][i] \in 1 .. m
          /\ \A i \in 1 .. Len(inbox[c]) : inbox[c][i] \in 1 .. m
      BY <2>2 DEF Within
    <3>4. Within(Append(got[c], n), m)
      BY <3>1, <3>2, <3>3 DEF Within
    <3>5. Within(Tail(inbox[c]), m)
      BY <3>2, <3>3 DEF Within
    <3>. QED BY <3>4, <3>5
  <2>3. ASSUME NEW d \in Conns
        PROVE  /\ Consecutive(got'[d])
               /\ d \in online' => Consecutive(Stream(d)')
               /\ runOf'[d] # NoRun => /\ Within(got'[d], Len(log'[runOf'[d]]))
                                       /\ Within(inbox'[d], Len(log'[runOf'[d]]))
    <3>1. /\ Consecutive(got[d])
          /\ d \in online => Consecutive(Stream(d))
          /\ runOf[d] # NoRun => /\ Within(got[d], Len(log[runOf[d]]))
                                 /\ Within(inbox[d], Len(log[runOf[d]]))
      BY DEF SInv, StreamInv
    <3>2. runOf[d] # NoRun => Len(log[runOf[d]]) \in Nat
      BY LenProperties DEF TypeOK
    <3>3. CASE d = c
      BY <1>1, <1>3, <2>1, <2>2, <3>1, <3>2, <3>3
    <3>4. CASE d # c
      BY <1>1, <1>3, <3>1, <3>4
    <3>. QED BY <3>3, <3>4
  <2>. QED BY <2>3 DEF StreamInv, Within, Consecutive
<1>7. RegisteredInv'
  <2>1. ASSUME NEW d \in online', NEW q \in Runs, listeners'[q] = d
        PROVE  /\ Stream(d)' # <<>> => LastOf(Stream(d)') = Len(log'[q])
               /\ terminal'[q] # 0 => Stream(d)' # <<>>
    BY <1>1, <1>3, <2>1 DEF SInv, RegisteredInv, TypeOK
  <2>. QED BY <2>1 DEF RegisteredInv, LastOf
<1>. QED BY <1>4, <1>5, <1>6, <1>7 DEF SInv

LEMMA CancelKeepsSInv ==
  ASSUME TypeOK, SInv, NEW c \in Conns, Cancel(c)
  PROVE  SInv'
<1>1. /\ pc[c] = "streaming" /\ pc'[c] = "leaving"
      /\ \A d \in Conns : d # c => pc'[d] = pc[d]
      /\ UNCHANGED <<streamVars, runOf, online, got>>
  BY DEF Cancel, TypeOK
<1>. USE <1>1 DEF streamVars
<1>2. LogInv' /\ BufferInv'
  BY DEF SInv, LogInv, BufferInv, Within, Consecutive, LastOf
<1>3. ConnInv'
  BY DEF SInv, ConnInv
<1>4. StreamInv' /\ RegisteredInv'
  BY DEF SInv, StreamInv, RegisteredInv, Within, Consecutive, LastOf, Stream
<1>. QED BY <1>2, <1>3, <1>4 DEF SInv

LEMMA CleanupKeepsSInv ==
  ASSUME TypeOK, SInv, NEW c \in Conns, Cleanup(c)
  PROVE  SInv'
<1>. DEFINE r == runOf[c]
<1>1. r \in Runs
  BY DEF Cleanup, SInv, ConnInv, TypeOK
<1>2. /\ pc[c] = "leaving" /\ pc'[c] = "gone" /\ inbox'[c] = <<>>
      /\ \A d \in Conns : d # c => pc'[d] = pc[d] /\ inbox'[d] = inbox[d]
      /\ listeners'[r] = NoConn /\ buffer'[r] = <<>>
      /\ \A q \in Runs : q # r => listeners'[q] = listeners[q] /\ buffer'[q] = buffer[q]
      /\ UNCHANGED <<log, terminal, runOf, online, got>>
  BY <1>1 DEF Cleanup, TypeOK
<1>3. \A d \in Conns : d # c => Stream(d)' = Stream(d)
  BY <1>2 DEF Stream
<1>4. Stream(c)' = got[c]
  <2>1. got[c] \in Seq(Nat)
    BY DEF TypeOK
  <2>. QED BY <1>2, <2>1, ConcatEmptySeq DEF Stream
<1>5. LogInv'
  BY <1>2 DEF SInv, LogInv
<1>6. Consecutive(<<>>) /\ Len(<<>>) = 0 /\ \A m \in Nat : Within(<<>>, m)
  BY EmptySeq DEF Consecutive, Within
<1>7. \A q \in Runs : Len(log[q]) \in Nat
  BY LenProperties DEF TypeOK
<1>8. BufferInv'
  <2>1. ASSUME NEW q \in Runs
        PROVE  /\ Within(buffer'[q], Len(log'[q]))
               /\ Consecutive(buffer'[q])
               /\ Len(buffer'[q]) <= BufferLimit
               /\ buffer'[q] # <<>> => /\ listeners'[q] = NoConn
                                       /\ LastOf(buffer'[q]) = Len(log'[q])
    <3>1. CASE q = r
      BY <1>2, <1>6, <1>7, <3>1, ConstantsAssumption
    <3>2. CASE q # r
      BY <1>2, <3>2 DEF SInv, BufferInv
    <3>. QED BY <3>1, <3>2
  <2>. QED BY <2>1 DEF BufferInv, Within, Consecutive, LastOf
<1>9. ConnInv'
  <2>1. ASSUME NEW d \in Conns
        PROVE  /\ pc'[d] = "idle" <=> runOf'[d] = NoRun
               /\ pc'[d] = "idle" => inbox'[d] = <<>> /\ got'[d] = <<>> /\ d \in online'
               /\ \A q \in Runs : listeners'[q] = d =>
                    runOf'[d] = q /\ pc'[d] \in {"streaming", "leaving"}
    <3>1. /\ pc[d] = "idle" <=> runOf[d] = NoRun
          /\ pc[d] = "idle" => inbox[d] = <<>> /\ got[d] = <<>> /\ d \in online
          /\ \A q \in Runs : listeners[q] = d =>
               runOf[d] = q /\ pc[d] \in {"streaming", "leaving"}
      BY DEF SInv, ConnInv
    <3>2. \A q \in Runs : listeners'[q] = d => q # r /\ listeners[q] = d
      BY <1>2, ConstantsAssumption
    <3>. QED BY <1>1, <1>2, <3>1, <3>2
  <2>. QED BY <2>1 DEF ConnInv
<1>10. StreamInv'
  <2>1. ASSUME NEW d \in Conns
        PROVE  /\ Consecutive(got'[d])
               /\ d \in online' => Consecutive(Stream(d)')
               /\ runOf'[d] # NoRun => /\ Within(got'[d], Len(log'[runOf'[d]]))
                                       /\ Within(inbox'[d], Len(log'[runOf'[d]]))
    <3>1. /\ Consecutive(got[d])
          /\ d \in online => Consecutive(Stream(d))
          /\ runOf[d] # NoRun => /\ Within(got[d], Len(log[runOf[d]]))
                                 /\ Within(inbox[d], Len(log[runOf[d]]))
      BY DEF SInv, StreamInv
    <3>2. CASE d = c
      BY <1>1, <1>2, <1>4, <1>6, <1>7, <3>1, <3>2
    <3>3. CASE d # c
      BY <1>2, <1>3, <3>1, <3>3
    <3>. QED BY <3>2, <3>3
  <2>. QED BY <2>1 DEF StreamInv, Within, Consecutive
<1>11. RegisteredInv'
  <2>1. ASSUME NEW d \in online', NEW q \in Runs, listeners'[q] = d
        PROVE  /\ Stream(d)' # <<>> => LastOf(Stream(d)') = Len(log'[q])
               /\ terminal'[q] # 0 => Stream(d)' # <<>>
    <3>1. d \in Conns /\ d \in online /\ q # r /\ listeners[q] = d
      BY <1>2, <2>1, ConstantsAssumption DEF TypeOK
    <3>2. d # c
      BY <3>1 DEF SInv, ConnInv
    <3>. QED BY <1>2, <1>3, <3>1, <3>2 DEF SInv, RegisteredInv
  <2>. QED BY <2>1 DEF RegisteredInv, LastOf
<1>. QED BY <1>5, <1>8, <1>9, <1>10, <1>11 DEF SInv

LEMMA SInvInit == Init => SInv
<1>. SUFFICES ASSUME Init  PROVE SInv
  OBVIOUS
<1>1. Consecutive(<<>>) /\ Len(<<>>) = 0 /\ \A m \in Nat : Within(<<>>, m)
  BY EmptySeq DEF Consecutive, Within
<1>2. \A c \in Conns : Stream(c) = <<>>
  BY ConcatEmptySeq, EmptySeq DEF Init, Stream
<1>. QED BY <1>1, <1>2, ConstantsAssumption
         DEF Init, SInv, LogInv, BufferInv, ConnInv, StreamInv, RegisteredInv

LEMMA SInvNext == ASSUME TypeOK, SInv, [Next]_vars  PROVE SInv'
<1>1. ASSUME NEW r \in Runs, NEW kind \in Kinds, Emit(r, kind)  PROVE SInv'
  BY <1>1, PublishKeepsSInv DEF Emit
<1>2. ASSUME NEW c \in Conns, NEW r \in Runs, Listen(c, r)  PROVE SInv'
  BY <1>2, ListenKeepsSInv
<1>3. ASSUME NEW c \in Conns, Deliver(c)  PROVE SInv'
  BY <1>3, DeliverKeepsSInv
<1>4. ASSUME NEW c \in Conns, Drop(c)  PROVE SInv'
  BY <1>4, StutterKeepsSInv DEF Drop
<1>5. ASSUME NEW c \in Conns, Cancel(c)  PROVE SInv'
  BY <1>5, CancelKeepsSInv
<1>6. ASSUME NEW c \in Conns, Cleanup(c)  PROVE SInv'
  BY <1>6, CleanupKeepsSInv
<1>7. ASSUME NEW k \in Keys, Dispatch(k)  PROVE SInv'
  <2>1. k[1] \in Runs /\ "update" \in Kinds
    BY DEF Keys, Kinds
  <2>. QED BY <1>7, <2>1, PublishKeepsSInv DEF Dispatch
<1>8. ASSUME NEW k \in Keys,
             BeginWait(k) \/ TimeOut(k) \/ CancelWait(k) \/ FinishWait(k)  PROVE SInv'
  BY <1>8, StutterKeepsSInv DEF BeginWait, TimeOut, CancelWait, FinishWait, connVars
<1>9. ASSUME NEW p \in Posts, NEW k \in Keys, PostResult(p, k)  PROVE SInv'
  <2>1. k[1] \in Runs /\ "update" \in Kinds
    BY DEF Keys, Kinds
  <2>2. CASE UNCHANGED streamVars
    BY <1>9, <2>2, StutterKeepsSInv DEF PostResult, connVars
  <2>3. CASE Publish(k[1], "update")
    BY <1>9, <2>1, <2>3, PublishKeepsSInv DEF PostResult
  <2>. QED BY <1>9, <2>2, <2>3 DEF PostResult
<1>10. ASSUME Tick  PROVE SInv'
  BY <1>10, StutterKeepsSInv DEF Tick, connVars
<1>11. ASSUME UNCHANGED vars  PROVE SInv'
  BY <1>11, StutterKeepsSInv DEF vars, connVars
<1>. QED BY <1>1, <1>2, <1>3, <1>4, <1>5, <1>6, <1>7, <1>8, <1>9, <1>10, <1>11
         DEF Next

\* An index into a concatenation falls into one of its parts.
LEMMA SplitIndex ==
  ASSUME NEW g \in Nat, NEW b \in Nat, NEW i \in 1 .. g + b
  PROVE  /\ g + b \in Nat \ {0}
         /\ i \in 1 .. g \/ i - g \in 1 .. b
         /\ i \in 1 .. g <=> i <= g
OBVIOUS

\* The four promises about streams follow from the invariant.
LEMMA SInvImplies ==
  ASSUME TypeOK, SInv
  PROVE  /\ StreamsHaveNoGaps
         /\ NothingFollowsTerminal
         /\ RegisteredHoldsTerminal
         /\ BacklogIsCurrent
<1>1. StreamsHaveNoGaps
  BY DEF SInv, StreamInv, StreamsHaveNoGaps
<1>2. BacklogIsCurrent
  BY DEF SInv, BufferInv, BacklogIsCurrent, LastOf
<1>3. \A r \in Runs : Len(log[r]) \in Nat
  BY LenProperties DEF TypeOK
<1>4. ASSUME NEW c \in online, NEW i \in 1 .. Len(Stream(c))
      PROVE  /\ Stream(c) \in Seq(Nat)
             /\ Len(Stream(c)) \in Nat \ {0}
             /\ runOf[c] \in Runs
             /\ Stream(c)[i] \in 1 .. Len(log[runOf[c]])
  <2>1. c \in Conns /\ got[c] \in Seq(Nat) /\ inbox[c] \in Seq(Nat)
    BY DEF TypeOK
  <2>2. /\ Stream(c) \in Seq(Nat)
        /\ Len(Stream(c)) = Len(got[c]) + Len(inbox[c])
        /\ Stream(c)[i] = IF i <= Len(got[c]) THEN got[c][i] ELSE inbox[c][i - Len(got[c])]
        /\ Len(got[c]) \in Nat /\ Len(inbox[c]) \in Nat
    BY <2>1, ConcatProperties, LenProperties DEF Stream
  <2>3. runOf[c] # NoRun
    <3>1. ASSUME runOf[c] = NoRun  PROVE FALSE
      <4>1. Len(got[c]) = 0 /\ Len(inbox[c]) = 0
        BY <2>1, <3>1, EmptySeq DEF SInv, ConnInv
      <4>. QED BY <2>2, <4>1
    <3>. QED BY <3>1
  <2>4. Within(got[c], Len(log[runOf[c]])) /\ Within(inbox[c], Len(log[runOf[c]]))
    BY <2>1, <2>3 DEF SInv, StreamInv
  <2>5. runOf[c] \in Runs
    BY <2>1, <2>3 DEF TypeOK
  <2>. DEFINE g == Len(got[c])  b == Len(inbox[c])
  <2>6. /\ g \in Nat /\ b \in Nat /\ Len(Stream(c)) = g + b
        /\ i \in 1 .. g + b
    BY <2>2
  <2>. HIDE DEF g, b
  <2>7. /\ g + b \in Nat \ {0}
        /\ i \in 1 .. g \/ i - g \in 1 .. b
        /\ i \in 1 .. g <=> i <= g
    BY <2>6, SplitIndex
  <2>8. Stream(c)[i] \in 1 .. Len(log[runOf[c]])
    <3>1. CASE i \in 1 .. g
      BY <2>2, <2>4, <2>7, <3>1 DEF Within, g
    <3>2. CASE i \notin 1 .. g
      BY <2>2, <2>4, <2>7, <3>2 DEF Within, g, b
    <3>. QED BY <3>1, <3>2
  <2>. QED BY <2>2, <2>5, <2>6, <2>7, <2>8
<1>5. NothingFollowsTerminal
  <2>1. ASSUME NEW r \in Runs, NEW i \in 1 .. Len(log[r]) - 1
        PROVE  log[r][i] \notin Terminal
    <3>1. i \in 1 .. Len(log[r]) /\ i # Len(log[r])
      BY <1>3
    <3>. QED BY <1>3, <3>1 DEF SInv, LogInv
  <2>2. ASSUME NEW c \in online, NEW i \in 1 .. Len(Stream(c)) - 1
        PROVE  log[runOf[c]][Stream(c)[i]] \notin Terminal
    <3>0. Stream(c) \in Seq(Nat)
      BY ConcatProperties DEF TypeOK, Stream
    <3>1. i \in 1 .. Len(Stream(c)) /\ i + 1 \in 1 .. Len(Stream(c))
      BY <3>0, LenProperties
    <3>2. /\ Stream(c)[i] \in 1 .. Len(log[runOf[c]])
          /\ Stream(c)[i + 1] \in 1 .. Len(log[runOf[c]])
          /\ runOf[c] \in Runs
      BY <1>4, <3>1
    <3>3. Stream(c)[i + 1] = Stream(c)[i] + 1
      BY DEF SInv, StreamInv, Consecutive, TypeOK
    <3>4. Stream(c)[i] \in 1 .. Len(log[runOf[c]]) - 1
      BY <1>3, <3>2, <3>3
    <3>. QED BY <2>1, <3>2, <3>4
  <2>. QED BY <2>1, <2>2 DEF NothingFollowsTerminal
<1>6. RegisteredHoldsTerminal
  <2>1. ASSUME NEW c \in online, NEW r \in Runs, listeners[r] = c, terminal[r] # 0
        PROVE  \E i \in DOMAIN Stream(c) : Stream(c)[i] = terminal[r]
    <3>1. Stream(c) \in Seq(Nat)
      BY ConcatProperties DEF TypeOK, Stream
    <3>2. Stream(c) # <<>> /\ LastOf(Stream(c)) = Len(log[r])
      BY <2>1 DEF SInv, RegisteredInv
    <3>3. terminal[r] = Len(log[r])
      BY <2>1 DEF SInv, LogInv
    <3>4. Len(Stream(c)) \in DOMAIN Stream(c)
      BY <3>1, <3>2, EmptySeq, LenProperties
    <3>. QED BY <3>2, <3>3, <3>4 DEF LastOf
  <2>. QED BY <2>1 DEF RegisteredHoldsTerminal
<1>. QED BY <1>1, <1>2, <1>5, <1>6

\* The stream contract, for any number of runs, connections and events and any
\* buffer limits: streams are ordered and without gaps, nothing follows a
\* terminal event, a registered connection holds it once its run has ended, and
\* a backlog is always up to date.
THEOREM StreamSafety ==
  Spec => [](/\ StreamsHaveNoGaps
             /\ NothingFollowsTerminal
             /\ RegisteredHoldsTerminal
             /\ BacklogIsCurrent)
<1>1. Init => SInv
  BY SInvInit
<1>2. TypeOK /\ SInv /\ [Next]_vars => SInv'
  BY SInvNext
<1>3. TypeOK /\ SInv => /\ StreamsHaveNoGaps
                        /\ NothingFollowsTerminal
                        /\ RegisteredHoldsTerminal
                        /\ BacklogIsCurrent
  BY SInvImplies
<1>. QED BY <1>1, <1>2, <1>3, TypeCorrect, PTL DEF Spec

-----------------------------------------------------------------------------
(***************************************************************************)
(* The number of buffered runs.                                            *)
(***************************************************************************)

\* Those who stay in a line still stand in one, and one more may join its end.
LEMMA LineShrinks ==
  ASSUME NEW keys, NEW order, InLine(keys, order), NEW K \in SUBSET keys
  PROVE  InLine(K, order \cap (K \X K))
BY DEF InLine

LEMMA LineGrows ==
  ASSUME NEW K, NEW order, InLine(K, order), NEW r, r \notin K
  PROVE  InLine(K \cup {r}, order \cup {<<q, r>> : q \in K})
<1>. DEFINE o == order \cup {<<q, r>> : q \in K}
<1>1. \A p, q : <<p, q>> \in o <=> <<p, q>> \in order \/ (p \in K /\ q = r)
  OBVIOUS
<1>2. \A p, q : <<p, q>> \in order => p \in K /\ q \in K
  BY DEF InLine
<1>3. o \subseteq (K \cup {r}) \X (K \cup {r})
  BY DEF InLine
<1>. HIDE DEF o
<1>4. \A q \in K \cup {r} : <<q, q>> \notin o
  BY <1>1, <1>2 DEF InLine
<1>5. \A p, q \in K \cup {r} : p # q => <<p, q>> \in o \/ <<q, p>> \in o
  BY <1>1 DEF InLine
<1>6. \A p, q, s \in K \cup {r} : <<p, q>> \in o /\ <<q, s>> \in o => <<p, s>> \in o
  BY <1>1, <1>2 DEF InLine
<1>7. InLine(K \cup {r}, o)
  BY <1>3, <1>4, <1>5, <1>6 DEF InLine
<1>. QED BY <1>7 DEF o

\* In a finite line somebody comes before all the others.
LEMMA SomebodyIsFirst ==
  ASSUME NEW keys, NEW order, InLine(keys, order), IsFiniteSet(keys), keys # {}
  PROVE  \E f \in keys : \A q \in keys \ {f} : <<f, q>> \in order
<1>. DEFINE Ahead(r) == {q \in keys : <<q, r>> \in order}
            T == {Ahead(r) : r \in keys}
<1>1. IsWellFoundedOn(StrictSubsetOrdering(keys), SUBSET keys)
  BY FS_StrictSubsetOrderingWellFounded, FS_FiniteSubsetsOfFinite
<1>2. T \subseteq SUBSET keys /\ T # {}
  OBVIOUS
<1>3. PICK x \in T : \A y \in T : <<y, x>> \notin StrictSubsetOrdering(keys)
  <2>. HIDE DEF T
  <2>. QED BY <1>1, <1>2, WFMin
<1>4. PICK f \in keys : x = Ahead(f)
  OBVIOUS
<1>5. ASSUME NEW q \in keys, <<q, f>> \in order
      PROVE  FALSE
  <2>1. Ahead(q) \in T /\ Ahead(q) \subseteq keys /\ Ahead(f) \subseteq keys
    OBVIOUS
  <2>2. Ahead(q) \subseteq Ahead(f)
    BY <1>5 DEF InLine
  <2>3. q \in Ahead(f) /\ q \notin Ahead(q)
    BY <1>5 DEF InLine
  <2>4. Ahead(q) # Ahead(f)
    BY <2>3
  <2>5. <<Ahead(q), Ahead(f)>> \in StrictSubsetOrdering(keys)
    <3>. HIDE DEF Ahead
    <3>. QED BY <2>1, <2>2, <2>4 DEF StrictSubsetOrdering
  <2>. HIDE DEF Ahead, T
  <2>. QED BY <1>3, <1>4, <2>1, <2>5
<1>6. \A q \in keys \ {f} : <<f, q>> \in order
  BY <1>5 DEF InLine
<1>. QED BY <1>6

\* An eviction leaves at most RunsLimit runs in the buffer.
LEMMA KeptIsBounded ==
  ASSUME LineInv
  PROVE  /\ Kept \subseteq Buffered
         /\ InLine(Kept, older \cap (Kept \X Kept))
         /\ IsFiniteSet(Kept)
         /\ Cardinality(Kept) \in Nat
         /\ Cardinality(Kept) <= RunsLimit
<1>0. Kept \subseteq Buffered /\ RunsLimit \in Nat \ {0}
  BY ConstantsAssumption DEF Kept
<1>1. InLine(Kept, older \cap (Kept \X Kept))
  BY <1>0, LineShrinks DEF LineInv
<1>2. IsFiniteSet(Kept) /\ Cardinality(Kept) \in Nat
  BY <1>0, FS_Subset, FS_CardinalityType DEF LineInv
<1>3. CASE Kept = {}
  BY <1>0, <1>1, <1>2, <1>3, FS_EmptySet
<1>4. CASE Kept # {}
  <2>1. PICK f \in Kept : \A q \in Kept \ {f} : <<f, q>> \in older
    BY <1>1, <1>2, <1>4, SomebodyIsFirst
  <2>. DEFINE live == Buffered \ Expired
              behind == {q \in live : <<f, q>> \in older}
  <2>2. f \in live /\ ~(Cardinality(behind) >= RunsLimit)
    BY <2>1 DEF Kept, Overflow
  <2>3. Kept \ {f} \in SUBSET behind
    BY <2>1 DEF Kept
  <2>4. behind \in SUBSET Buffered
    OBVIOUS
  <2>. HIDE DEF behind
  <2>5. IsFiniteSet(behind) /\ Cardinality(behind) \in Nat
    BY <2>4, FS_Subset, FS_CardinalityType DEF LineInv
  <2>6. Cardinality(Kept \ {f}) <= Cardinality(behind)
    BY <2>3, <2>5, FS_Subset
  <2>7. Cardinality(Kept \ {f}) = Cardinality(Kept) - 1
    BY <1>2, <2>1, FS_RemoveElement
  <2>. QED BY <1>0, <1>1, <1>2, <2>2, <2>5, <2>6, <2>7
<1>. QED BY <1>3, <1>4

\* Runs leave the buffer.
LEMMA LeavingKeepsLine ==
  ASSUME LineInv, NEW K \in SUBSET Buffered, Buffered' = K,
         older' = older \cap (K \X K)
  PROVE  LineInv'
<1>1. InLine(K, older \cap (K \X K))
  BY LineShrinks DEF LineInv
<1>2. IsFiniteSet(K) /\ Cardinality(K) <= Cardinality(Buffered) /\ Cardinality(K) \in Nat
  BY FS_Subset, FS_CardinalityType DEF LineInv
<1>3. Cardinality(Buffered) \in Nat /\ RunsLimit \in Nat
  BY FS_CardinalityType, ConstantsAssumption DEF LineInv
<1>. QED BY <1>1, <1>2, <1>3 DEF LineInv

\* The new event's run is buffered where it was, or at the end of the line.
LEMMA BufferEventKeepsLine ==
  ASSUME TypeOK, LineInv, NEW r \in Runs, NEW n \in Nat, BufferEvent(r, n)
  PROVE  LineInv'
<1>0. /\ Kept \subseteq Buffered /\ Kept \subseteq Runs
      /\ InLine(Kept, older \cap (Kept \X Kept))
      /\ IsFiniteSet(Kept) /\ Cardinality(Kept) \in Nat
      /\ Cardinality(Kept) <= RunsLimit /\ RunsLimit \in Nat
  BY KeptIsBounded, BacklogType, ConstantsAssumption
<1>1. Buffered' = Kept \cup {r}
  <2>1. Newest(Append(Backlog(r), n)) # <<>>
    BY BacklogType, AppendProperties, NewestProperties
  <2>2. \A q \in Runs : Backlog(q) # <<>> <=> q \in Kept
    BY DEF Backlog, Kept, Buffered
  <2>3. \A q \in Runs : buffer'[q] # <<>> <=> q \in Kept \cup {r}
    BY <2>1, <2>2 DEF BufferEvent
  <2>. QED BY <1>0, <2>3 DEF Buffered
<1>2. /\ IsFiniteSet(Kept \cup {r})
      /\ Cardinality(Kept \cup {r}) <= RunsLimit + 1
  BY <1>0, FS_AddElement
<1>3. CASE r \in Kept
  <2>1. Buffered' = Kept /\ older' = older \cap (Kept \X Kept)
    BY <1>1, <1>3 DEF BufferEvent
  <2>. QED BY <1>0, <2>1, LeavingKeepsLine
<1>4. CASE r \notin Kept
  <2>1. older' = (older \cap (Kept \X Kept)) \cup {<<q, r>> : q \in Kept}
    BY <1>4 DEF BufferEvent
  <2>2. InLine(Kept \cup {r}, older')
    BY <1>0, <1>4, <2>1, LineGrows
  <2>. QED BY <1>1, <1>2, <2>2 DEF LineInv
<1>. QED BY <1>3, <1>4

LEMMA PublishKeepsLine ==
  ASSUME TypeOK, LineInv, NEW r \in Runs, NEW kind, Publish(r, kind)
  PROVE  LineInv'
<1>1. CASE UNCHANGED <<buffer, older>>
  BY <1>1 DEF LineInv, Buffered
<1>2. CASE BufferEvent(r, Len(log[r]) + 1)
  <2>1. Len(log[r]) + 1 \in Nat
    BY LenProperties DEF TypeOK
  <2>. QED BY <1>2, <2>1, BufferEventKeepsLine
<1>. QED BY <1>1, <1>2 DEF Publish, streamVars

LEMMA LineNext == ASSUME TypeOK, LineInv, [Next]_vars  PROVE LineInv'
<1>1. ASSUME NEW r \in Runs, NEW kind, Publish(r, kind)  PROVE LineInv'
  BY <1>1, PublishKeepsLine
<1>2. ASSUME NEW c \in Conns, NEW r \in Runs, Listen(c, r)  PROVE LineInv'
  <2>1. Kept \ {r} \in SUBSET Buffered
    BY KeptIsBounded
  <2>2. Buffered' = Kept \ {r}
    BY <1>2 DEF Listen, TakeBacklog, Buffered, Backlog, Kept
  <2>3. older' = older \cap ((Kept \ {r}) \X (Kept \ {r}))
    BY <1>2 DEF Listen, TakeBacklog
  <2>. QED BY <2>1, <2>2, <2>3, LeavingKeepsLine
<1>3. ASSUME NEW c \in Conns, Cleanup(c)  PROVE LineInv'
  <2>. DEFINE K == Buffered \ {runOf[c]}
  <2>1. Buffered' = K
    BY <1>3 DEF Cleanup, Buffered, TypeOK
  <2>2. older' = older \cap ((Runs \ {runOf[c]}) \X (Runs \ {runOf[c]}))
    BY <1>3 DEF Cleanup
  <2>3. older \subseteq Buffered \X Buffered /\ Buffered \subseteq Runs
    BY DEF LineInv, InLine, Buffered
  <2>4. older' = older \cap (K \X K)
    BY <2>2, <2>3
  <2>. QED BY <2>1, <2>4, LeavingKeepsLine
<1>4. CASE UNCHANGED <<buffer, older>>
  BY <1>4 DEF LineInv, Buffered
<1>5. \A k \in Keys : k[1] \in Runs
  BY DEF Keys
<1>6. Next =>
        \/ \E r \in Runs, kind \in Kinds : Publish(r, kind)
        \/ \E c \in Conns, r \in Runs : Listen(c, r)
        \/ \E c \in Conns : Cleanup(c)
        \/ UNCHANGED <<buffer, older>>
  <2>1. "update" \in Kinds
    BY DEF Kinds
  <2>2. ASSUME NEW p \in Posts, NEW k \in Keys, PostResult(p, k)
        PROVE  Publish(k[1], "update") \/ UNCHANGED <<buffer, older>>
    BY <2>2 DEF PostResult, streamVars
  <2>3. ASSUME NEW k \in Keys,
             BeginWait(k) \/ TimeOut(k) \/ CancelWait(k) \/ FinishWait(k)
        PROVE  UNCHANGED <<buffer, older>>
    BY <2>3 DEF BeginWait, TimeOut, CancelWait, FinishWait, streamVars
  <2>4. ASSUME NEW c \in Conns, Deliver(c) \/ Drop(c) \/ Cancel(c)
        PROVE  UNCHANGED <<buffer, older>>
    BY <2>4 DEF Deliver, Drop, Cancel, streamVars
  <2>5. ASSUME NEW k \in Keys, Dispatch(k) PROVE Publish(k[1], "update")
    BY <2>5 DEF Dispatch
  <2>6. ASSUME NEW r \in Runs, NEW kind \in Kinds, Emit(r, kind) PROVE Publish(r, kind)
    BY <2>6 DEF Emit
  <2>7. Tick => UNCHANGED <<buffer, older>>
    BY DEF Tick, streamVars
  <2>. QED BY <1>5, <2>1, <2>2, <2>3, <2>4, <2>5, <2>6, <2>7 DEF Next
<1>7. UNCHANGED vars => UNCHANGED <<buffer, older>>
  BY DEF vars, streamVars
<1>. QED BY <1>1, <1>2, <1>3, <1>4, <1>6, <1>7

\* The buffer keeps its limits, for any number of runs: it evicts the oldest
\* beyond RunsLimit before every event, which then may add one.
THEOREM BufferBounds == Spec => []BufferIsBounded
<1>1. Init => SInv /\ LineInv
  <2>1. Init => Buffered = {}
    BY DEF Init, Buffered
  <2>2. Init => InLine(Buffered, older)
    BY <2>1 DEF Init, InLine
  <2>3. RunsLimit \in Nat /\ IsFiniteSet({}) /\ Cardinality({}) = 0
    BY FS_EmptySet, ConstantsAssumption
  <2>. QED BY <2>1, <2>2, <2>3, SInvInit DEF LineInv
<1>2. TypeOK /\ (SInv /\ LineInv) /\ [Next]_vars => (SInv /\ LineInv)'
  BY SInvNext, LineNext
<1>3. SInv /\ LineInv => BufferIsBounded
  BY DEF SInv, BufferInv, LineInv, BufferIsBounded
<1>. QED BY <1>1, <1>2, <1>3, TypeCorrect, PTL DEF Spec

-----------------------------------------------------------------------------
(***************************************************************************)
(* The bus implements RunStream.                                           *)
(***************************************************************************)
StreamStep == [Events!Next]_(Events!vars)

\* Steps that add to no log and to no stream, and make no request.
LEMMA NothingSeen ==
  ASSUME UNCHANGED <<log, terminal, runOf, got>>
  PROVE  StreamStep
BY DEF StreamStep, Events!vars, Told

\* An accepted event is the next event of its run, and ends it if terminal; an
\* event after the end is not one.
LEMMA PublishIsSeen ==
  ASSUME TypeOK, SInv, NEW r \in Runs, NEW kind \in Kinds, Publish(r, kind),
         UNCHANGED <<runOf, got>>
  PROVE  StreamStep
<1>1. CASE UNCHANGED streamVars
  BY <1>1, NothingSeen DEF streamVars
<1>2. CASE /\ terminal[r] = 0
           /\ log' = [log EXCEPT ![r] = Append(@, kind)]
           /\ terminal' = [terminal EXCEPT ![r] =
                              IF kind \in Terminal THEN Len(log[r]) + 1 ELSE 0]
  <2>. DEFINE end == IF kind \in Terminal THEN kind ELSE "open"
  <2>1. end \in {"open", "final", "error"}
    BY DEF Kinds, Terminal
  <2>2. LogInv
    BY DEF SInv
  <2>3. /\ Len(log'[r]) = Len(log[r]) + 1 /\ Len(log[r]) \in Nat
        /\ \A q \in Runs : q # r => log'[q] = log[q] /\ terminal'[q] = terminal[q]
    BY <1>2, <2>2, PublishLog
  <2>4. log'[r][Len(log[r]) + 1] = kind
    BY <1>2, AppendProperties DEF TypeOK
  <2>5. terminal'[r] = IF kind \in Terminal THEN Len(log[r]) + 1 ELSE 0
    BY <1>2 DEF TypeOK
  <2>6. Told(r) = "open" /\ Told(r)' = end
    <3>1. Len(log[r]) + 1 # 0
      BY <2>3
    <3>. QED BY <1>2, <2>4, <2>5, <3>1 DEF Told
  <2>7. \A q \in Runs : q # r => Told(q)' = Told(q)
    BY <2>3 DEF Told
  <2>. HIDE DEF end
  <2>8. Events!Publish(r, end)
    <3>1. [q \in Runs |-> Len(log'[q])]
            = [[q \in Runs |-> Len(log[q])] EXCEPT ![r] = @ + 1]
      BY <2>3
    <3>2. [q \in Runs |-> Told(q)'] = [[q \in Runs |-> Told(q)] EXCEPT ![r] = end]
      BY <2>6, <2>7
    <3>3. [q \in Runs |-> Told(q)][r] = "open"
      BY <2>6
    <3>. QED BY <3>1, <3>2, <3>3 DEF Events!Publish
  <2>. QED BY <2>1, <2>8 DEF StreamStep, Events!Next
<1>. QED BY <1>1, <1>2 DEF Publish

\* Where the parts of a concatenation meet.
LEMMA ConcatJoint ==
  ASSUME NEW s \in Seq(Nat), NEW t \in Seq(Nat),
         Len(s) \in Nat \ {0}, Len(t) \in Nat \ {0}
  PROVE  /\ Len(s \o t) = Len(s) + Len(t)
         /\ (s \o t)[Len(s)] = s[Len(s)]
         /\ (s \o t)[Len(s) + 1] = t[1]
<1>1. /\ Len(s \o t) = Len(s) + Len(t)
      /\ \A i \in 1 .. Len(s) + Len(t) :
           (s \o t)[i] = IF i <= Len(s) THEN s[i] ELSE t[i - Len(s)]
  BY ConcatProperties
<1>2. /\ Len(s) \in 1 .. Len(s) + Len(t) /\ Len(s) + 1 \in 1 .. Len(s) + Len(t)
      /\ Len(s) <= Len(s) /\ ~(Len(s) + 1 <= Len(s)) /\ (Len(s) + 1) - Len(s) = 1
  OBVIOUS
<1>. QED BY <1>1, <1>2

\* What the generator yields follows what the client has.
LEMMA DeliverIsSeen ==
  ASSUME TypeOK, SInv, NEW c \in Conns, Deliver(c)
  PROVE  StreamStep
<1>. DEFINE n == Head(inbox[c])
<1>1. CASE UNCHANGED got
  BY <1>1, NothingSeen DEF Deliver
<1>2. CASE c \in online /\ got' = [got EXCEPT ![c] = Append(@, n)]
  <2>1. /\ inbox[c] # <<>> /\ inbox[c] \in Seq(Nat) /\ got[c] \in Seq(Nat)
        /\ UNCHANGED <<log, terminal, runOf>>
    BY DEF Deliver, TypeOK
  <2>2. runOf[c] \in Runs
    BY <2>1 DEF SInv, ConnInv, TypeOK
  <2>3. /\ Len(inbox[c]) \in Nat \ {0} /\ n = inbox[c][1] /\ n \in Nat
        /\ Len(got[c]) \in Nat
    BY <2>1, EmptySeq, LenProperties, HeadTailProperties
  <2>4. n \in 1 .. Len(log[runOf[c]])
    <3>1. runOf[c] # NoRun
      BY <2>2, ConstantsAssumption
    <3>2. Within(inbox[c], Len(log[runOf[c]]))
      BY <3>1 DEF SInv, StreamInv
    <3>. QED BY <2>3, <3>2 DEF Within
  <2>5. ASSUME got[c] # <<>>  PROVE n = got[c][Len(got[c])] + 1
    <3>1. Len(got[c]) \in Nat \ {0}
      BY <2>1, <2>5, EmptySeq, LenProperties
    <3>2. Consecutive(got[c] \o inbox[c])
      BY <1>2 DEF SInv, StreamInv, Stream
    <3>3. /\ Len(got[c] \o inbox[c]) = Len(got[c]) + Len(inbox[c])
          /\ (got[c] \o inbox[c])[Len(got[c])] = got[c][Len(got[c])]
          /\ (got[c] \o inbox[c])[Len(got[c]) + 1] = inbox[c][1]
      BY <2>1, <2>3, <3>1, ConcatJoint
    <3>4. Len(got[c]) \in 1 .. Len(got[c] \o inbox[c]) - 1
      BY <2>3, <3>1, <3>3
    <3>5. (got[c] \o inbox[c])[Len(got[c]) + 1] = (got[c] \o inbox[c])[Len(got[c])] + 1
      BY <3>2, <3>4 DEF Consecutive
    <3>. QED BY <2>3, <3>3, <3>5
  <2>. HIDE DEF n
  <2>6. Events!Follows(n, got[c])
    BY <2>5 DEF Events!Follows
  <2>7. Events!Receive(c)
    <3>1. \E m \in 1 .. [q \in Runs |-> Len(log[q])][runOf[c]] :
            /\ Events!Follows(m, got[c])
            /\ got' = [got EXCEPT ![c] = Append(@, m)]
      BY <1>2, <2>2, <2>4, <2>6
    <3>2. /\ [q \in Runs |-> Len(log[q])]' = [q \in Runs |-> Len(log[q])]
          /\ [q \in Runs |-> Told(q)]' = [q \in Runs |-> Told(q)]
      BY <2>1 DEF Told
    <3>. QED BY <2>1, <2>2, <3>1, <3>2 DEF Events!Receive
  <2>. QED BY <2>7 DEF StreamStep, Events!Next
<1>. QED BY <1>1, <1>2 DEF Deliver

\* Every step of the bus publishes the next event of a run, opens a connection,
\* hands a connection its next event, or shows clients nothing.
LEMMA StepIsSeen == ASSUME TypeOK, SInv, [Next]_vars  PROVE StreamStep
<1>1. ASSUME NEW r \in Runs, NEW kind \in Kinds, Emit(r, kind)  PROVE StreamStep
  BY <1>1, PublishIsSeen DEF Emit, connVars
<1>2. ASSUME NEW c \in Conns, NEW r \in Runs, Listen(c, r)  PROVE StreamStep
  <2>1. runOf[c] = NoRun
    BY <1>2 DEF Listen, SInv, ConnInv
  <2>2. /\ [q \in Runs |-> Len(log[q])]' = [q \in Runs |-> Len(log[q])]
        /\ [q \in Runs |-> Told(q)]' = [q \in Runs |-> Told(q)]
    BY <1>2 DEF Listen, Told
  <2>3. Events!Open(c, r)
    BY <1>2, <2>1, <2>2 DEF Listen, Events!Open
  <2>. QED BY <2>3 DEF StreamStep, Events!Next
<1>3. ASSUME NEW c \in Conns, Deliver(c)  PROVE StreamStep
  BY <1>3, DeliverIsSeen
<1>4. ASSUME NEW c \in Conns, Drop(c) \/ Cancel(c) \/ Cleanup(c)  PROVE StreamStep
  BY <1>4, NothingSeen DEF Drop, Cancel, Cleanup, streamVars
<1>5. ASSUME NEW k \in Keys, Dispatch(k)  PROVE StreamStep
  <2>1. k[1] \in Runs /\ "update" \in Kinds
    BY DEF Keys, Kinds
  <2>. QED BY <1>5, <2>1, PublishIsSeen DEF Dispatch, connVars
<1>6. ASSUME NEW k \in Keys,
             BeginWait(k) \/ TimeOut(k) \/ CancelWait(k) \/ FinishWait(k)
      PROVE  StreamStep
  BY <1>6, NothingSeen DEF BeginWait, TimeOut, CancelWait, FinishWait, streamVars, connVars
<1>7. ASSUME NEW p \in Posts, NEW k \in Keys, PostResult(p, k)  PROVE StreamStep
  <2>1. k[1] \in Runs /\ "update" \in Kinds
    BY DEF Keys, Kinds
  <2>2. CASE UNCHANGED streamVars
    BY <1>7, <2>2, NothingSeen DEF PostResult, connVars, streamVars
  <2>3. CASE Publish(k[1], "update")
    BY <1>7, <2>1, <2>3, PublishIsSeen DEF PostResult, connVars
  <2>. QED BY <1>7, <2>2, <2>3 DEF PostResult
<1>8. ASSUME Tick \/ UNCHANGED vars  PROVE StreamStep
  BY <1>8, NothingSeen DEF Tick, vars, connVars, streamVars
<1>. QED BY <1>1, <1>2, <1>3, <1>4, <1>5, <1>6, <1>7, <1>8 DEF Next

\* The bus is one ordered stream per run, for any number of runs and connections
\* and any buffer limits: whatever the buffer keeps, trims or drops, and however
\* often a queue takes another one's place, a client receives an unbroken piece
\* of the run's events, of which nothing comes after the terminal one.
THEOREM BusKeepsStream == Spec => KeepsStream
<1>1. Init => SInv
  BY SInvInit
<1>2. TypeOK /\ SInv /\ [Next]_vars => SInv'
  BY SInvNext
<1>3. Init => Events!Init
  <2>1. ASSUME Init  PROVE \A r \in Runs : Len(log[r]) = 0 /\ Told(r) = "open"
    BY <2>1, EmptySeq DEF Init, Told
  <2>. QED BY <2>1 DEF Init, Events!Init
<1>4. TypeOK /\ SInv /\ [Next]_vars => StreamStep
  BY StepIsSeen
<1>. QED BY <1>1, <1>2, <1>3, <1>4, TypeCorrect, PTL
         DEF Spec, KeepsStream, Events!Spec, StreamStep
=============================================================================
