------------------------- MODULE SyncReceiverProofs -------------------------
(***************************************************************************)
(* SyncReceiver for any number of events, conversations and invocations,   *)
(* any page size and any number of kept ids: SyncInv is inductive, and     *)
(* KnownInv is inductive under it.                                         *)
(***************************************************************************)
EXTENDS SyncReceiver, SequenceTheorems, TLAPS

\* Keeping x keeps what was kept, except that it may drop the oldest.
LEMMA AppendedFacts ==
  ASSUME NEW S, NEW s \in Seq(S), NEW x \in S
  PROVE  /\ Appended(s, x) \in Seq(S)
         /\ \A y : Contains(Appended(s, x), y) => Contains(s, y) \/ y = x
<1>. DEFINE t == IF Contains(s, x) THEN s ELSE Append(s, x)
<1>1. /\ t \in Seq(S)
      /\ Len(t) \in Nat
      /\ \A i \in 1 .. Len(t) : (i \in 1 .. Len(s) /\ t[i] = s[i]) \/ t[i] = x
  BY AppendProperties, LenProperties
<1>2. \A y : Contains(t, y) => Contains(s, y) \/ y = x
  BY <1>1 DEF Contains
<1>3. ASSUME Len(t) > Keep
      PROVE  /\ Tail(t) \in Seq(S)
             /\ \A y : Contains(Tail(t), y) => Contains(t, y)
  <2>1. t # << >>
    BY <1>1, <1>3, SyncAssumption
  <2>2. /\ Tail(t) \in Seq(S)
        /\ Len(Tail(t)) = Len(t) - 1
        /\ \A i \in 1 .. Len(Tail(t)) : Tail(t)[i] = t[i + 1]
    BY <1>1, <2>1, HeadTailProperties
  <2>3. \A i \in 1 .. Len(Tail(t)) : i + 1 \in 1 .. Len(t)
    BY <1>1, <2>2
  <2>. QED BY <2>2, <2>3 DEF Contains
<1>4. Appended(s, x) = IF Len(t) > Keep THEN Tail(t) ELSE t
  BY DEF Appended
<1>. HIDE DEF t
<1>. QED BY <1>1, <1>2, <1>3, <1>4

LEMMA EventFacts ==
  ASSUME NEW e \in Events
  PROVE  ConvOf[e] \in Convs /\ KeyOf[e] \in Keys /\ e \in Int
BY SyncAssumption DEF Convs, Keys, Events

LEMMA EmptyFacts == Empty \in FileState /\ Honest(Empty)
<1>1. Empty \in FileState
  BY EmptySeq DEF Empty, Nothing, FileState, Conversation
<1>2. \A s : s = << >> => \A x : ~Contains(s, x)
  BY DEF Contains
<1>3. \A e \in Bodies : e \in Events /\ e > 0 /\ ConvOf[e] \in Convs
  BY EventFacts, SyncAssumption DEF Events
<1>4. \A c \in Convs : /\ Empty[c].cursor = 0
                       /\ Empty[c].bodyIds = << >>
                       /\ Empty[c].bodyKeys = << >>
  BY DEF Empty, Nothing
<1>5. \A e \in Bodies : ~HasBody(Empty, e)
  BY <1>2, <1>3, <1>4 DEF HasBody
<1>6. Covered(Empty)
  BY <1>3, <1>4 DEF Covered, Events
<1>. QED BY <1>1, <1>5, <1>6 DEF Honest

\* Recording an event keeps the file honest, if every body before it and its
\* own have arrived.
LEMMA RecordedFacts ==
  ASSUME NEW f \in FileState, NEW e \in Events
  PROVE  /\ Recorded(f, e) \in FileState
         /\ ( /\ Honest(f)
              /\ \A d \in Bodies : d < e => Received(d)
              /\ e \in Bodies => e \in got )
            => Honest(Recorded(f, e))
<1>. DEFINE c == f[ConvOf[e]]
            g == Recorded(f, e)
            h == g[ConvOf[e]]
<1>0. ConvOf[e] \in Convs /\ KeyOf[e] \in Keys /\ c \in Conversation
  BY EventFacts DEF FileState
<1>1. /\ Appended(c.ids, e) \in Seq(Events)
      /\ Appended(c.keys, KeyOf[e]) \in Seq(Keys)
      /\ Appended(c.bodyIds, e) \in Seq(Events)
      /\ Appended(c.bodyKeys, KeyOf[e]) \in Seq(Keys)
  BY <1>0, AppendedFacts DEF Conversation
<1>. DEFINE seen == IF Duplicate(f, e) THEN c
                    ELSE [c EXCEPT !.cursor = e, !.ids = Appended(@, e),
                                   !.keys = Appended(@, KeyOf[e])]
            kept == IF e \notin Bodies THEN seen
                    ELSE [seen EXCEPT !.bodyIds = Appended(@, e),
                                      !.bodyKeys = Appended(@, KeyOf[e])]
<1>2. /\ seen \in Conversation
      /\ seen.cursor = c.cursor \/ seen.cursor = e
      /\ seen.bodyIds = c.bodyIds /\ seen.bodyKeys = c.bodyKeys
  BY <1>0, <1>1 DEF Conversation
<1>3. /\ kept \in Conversation
      /\ kept.cursor = c.cursor \/ kept.cursor = e
      /\ IF e \in Bodies THEN /\ kept.bodyIds = Appended(c.bodyIds, e)
                              /\ kept.bodyKeys = Appended(c.bodyKeys, KeyOf[e])
         ELSE kept.bodyIds = c.bodyIds /\ kept.bodyKeys = c.bodyKeys
  <2>. HIDE DEF seen
  <2>. QED BY <1>1, <1>2 DEF Conversation
<1>4. g = [f EXCEPT ![ConvOf[e]] = kept]
  BY DEF Recorded
<1>5. /\ g \in FileState
      /\ h = kept
      /\ \A b \in Convs : b # ConvOf[e] => g[b] = f[b]
  <2>. HIDE DEF kept
  <2>. QED BY <1>0, <1>3, <1>4 DEF FileState
<1>6. ASSUME Honest(f), \A d \in Bodies : d < e => Received(d), e \in Bodies => e \in got
      PROVE  Honest(g)
  <2>0. e \in Bodies => Received(e)
    BY <1>6 DEF Received
  <2>1. Covered(g)
    <3>. SUFFICES ASSUME NEW b \in Convs, NEW d \in Bodies, d <= g[b].cursor
                  PROVE  Received(d)
      BY DEF Covered
    <3>1. d \in Int /\ e \in Int
      BY EventFacts, SyncAssumption
    <3>2. CASE g[b].cursor = f[b].cursor
      BY <1>6, <3>2 DEF Honest, Covered
    <3>3. CASE g[b].cursor = e
      BY <1>6, <2>0, <3>1, <3>3
    <3>. HIDE DEF kept
    <3>. QED BY <1>3, <1>5, <3>2, <3>3
  <2>2. ASSUME NEW d \in Bodies, HasBody(g, d)
        PROVE  Received(d)
    <3>1. CASE ConvOf[d] # ConvOf[e]
      <4>1. d \in Events /\ ConvOf[d] \in Convs
        BY EventFacts, SyncAssumption
      <4>2. HasBody(f, d)
        BY <1>5, <2>2, <3>1, <4>1 DEF HasBody
      <4>. QED BY <1>6, <4>2 DEF Honest
    <3>2. CASE ConvOf[d] = ConvOf[e] /\ HasBody(f, d)
      BY <1>6, <3>2 DEF Honest
    <3>3. CASE ConvOf[d] = ConvOf[e] /\ ~HasBody(f, d)
      <4>1. e \in Bodies /\ (d = e \/ KeyOf[d] = KeyOf[e])
        <5>1. Contains(h.bodyIds, d) \/ Contains(h.bodyKeys, KeyOf[d])
          BY <2>2, <3>3 DEF HasBody
        <5>2. ~Contains(c.bodyIds, d) /\ ~Contains(c.bodyKeys, KeyOf[d])
          BY <3>3 DEF HasBody
        <5>3. e \in Bodies
          <6>. HIDE DEF kept, g, c
          <6>. QED BY <1>3, <1>5, <5>1, <5>2
        <5>4. /\ h.bodyIds = Appended(c.bodyIds, e)
              /\ h.bodyKeys = Appended(c.bodyKeys, KeyOf[e])
          <6>. HIDE DEF kept, g, c
          <6>. QED BY <1>3, <1>5, <5>3
        <5>5. c.bodyIds \in Seq(Events) /\ c.bodyKeys \in Seq(Keys)
          BY <1>0 DEF Conversation
        <5>6. /\ Contains(h.bodyIds, d) => d = e
              /\ Contains(h.bodyKeys, KeyOf[d]) => KeyOf[d] = KeyOf[e]
          <6>. HIDE DEF c, g
          <6>. QED BY <1>0, <5>2, <5>4, <5>5, AppendedFacts
        <5>. QED BY <5>1, <5>3, <5>6
      <4>. QED BY <1>6, <3>3, <4>1 DEF Received
    <3>. QED BY <3>1, <3>2, <3>3
  <2>. QED BY <2>1, <2>2 DEF Honest
<1>. QED BY <1>5, <1>6

-----------------------------------------------------------------------------
(***************************************************************************)
(* The steps.                                                              *)
(***************************************************************************)

\* What has arrived stays, so a file that was honest remains so.
LEMMA HonestRemains ==
  ASSUME got \subseteq got'
  PROVE  /\ \A e : Received(e) => Received(e)'
         /\ \A f : Honest(f) => Honest(f)'
BY DEF Received, Honest, Covered, HasBody

\* The step of one invocation that leaves the others where they are.
LEMMA OneMoves ==
  ASSUME SyncInv, NEW p \in Procs, got \subseteq got',
         TypeOK', Honest(file'),
         Honest(proc'[p].copy),
         \A q \in Procs \ {p} : /\ proc'[q].at = proc[q].at
                                /\ proc'[q].copy = proc[q].copy
                                /\ proc'[q].next = proc[q].next
                                /\ proc'[q].last = proc[q].last,
         PassesOverNothing(p)'
  PROVE  SyncInv'
<1>1. Honest(file)'
  BY HonestRemains DEF Honest, Covered, HasBody
<1>. QED BY <1>1, HonestRemains DEF SyncInv, PassesOverNothing

\* An invocation that ends.
LEMMA EndFacts ==
  ASSUME TypeOK, NEW p \in Procs, End(p)
  PROVE  /\ proc' \in [Procs -> ProcState]
         /\ Honest(proc'[p].copy)
         /\ \A q \in Procs \ {p} : proc'[q] = proc[q]
         /\ proc'[p].at \in {"idle", "done"}
<1>1. Ended(p) \in ProcState /\ Ended(p).copy = Empty /\ Ended(p).at \in {"idle", "done"}
  BY EmptyFacts, SyncAssumption DEF Ended, ProcState
<1>. QED BY <1>1, EmptyFacts DEF End, TypeOK

LEMMA FaultType == ASSUME TypeOK, Fault PROVE faults' \in 0 .. MaxFaults
BY SyncAssumption DEF Fault, TypeOK

\* What is loaded is honest.
LEMMA LoadFacts ==
  ASSUME SyncInv, NEW p \in Procs, NEW f, Loads(p, f)
  PROVE  f \in FileState /\ Honest(f)
BY EmptyFacts DEF SyncInv, TypeOK, Loads

LEMMA LoadedType ==
  ASSUME TypeOK, NEW p \in Procs, NEW step \in {"fetching", "saving"},
         NEW f \in FileState, NEW b \in BOOLEAN,
         proc' = [proc EXCEPT ![p].at = step, ![p].copy = f, ![p].fresh = b]
  PROVE  proc' \in [Procs -> ProcState]
<1>1. [[[proc[p] EXCEPT !.at = step] EXCEPT !.copy = f] EXCEPT !.fresh = b] \in ProcState
  BY DEF TypeOK, ProcState
<1>. QED BY <1>1 DEF TypeOK

LEMMA PollPreserves ==
  ASSUME SyncInv, NEW p \in Procs, Poll(p)
  PROVE  SyncInv'
<1>1. PICK f \in {file, Empty} :
        /\ Loads(p, f)
        /\ proc' = [proc EXCEPT ![p].at = "request", ![p].copy = f]
  BY DEF Poll
<1>2. UNCHANGED <<published, file, got, intact, faults>>
  BY DEF Poll
<1>3. f \in FileState /\ Honest(f)
  BY <1>1, LoadFacts
<1>4. TypeOK'
  <2>1. \A x \in ProcState, g \in FileState :
           [x EXCEPT !.at = "request", !.copy = g] \in ProcState
    BY DEF ProcState
  <2>2. proc \in [Procs -> ProcState]
    BY DEF SyncInv, TypeOK
  <2>3. proc' \in [Procs -> ProcState]
    BY <1>1, <1>3, <2>1, <2>2
  <2>. QED BY <1>2, <2>3 DEF SyncInv, TypeOK
<1>5. /\ proc'[p].copy = f /\ proc'[p].at = "request"
      /\ \A q \in Procs \ {p} : proc'[q] = proc[q]
  BY <1>1 DEF SyncInv, TypeOK, ProcState
<1>6. PassesOverNothing(p)'
  BY <1>5 DEF PassesOverNothing
<1>7. Honest(file') /\ Honest(proc'[p].copy)
  BY <1>2, <1>3, <1>5 DEF SyncInv
<1>. QED BY <1>2, <1>4, <1>5, <1>6, <1>7, OneMoves

\* Before the page begins nothing is missing: either it begins with the first
\* event, or after a cursor that the copy was honest about.
LEMMA ReceivePreserves ==
  ASSUME SyncInv, NEW p \in Procs, Receive(p)
  PROVE  SyncInv'
<1>1. PICK first \in 1 .. published + 1 :
        /\ PageStart(p, first)
        /\ proc' = [proc EXCEPT ![p].at = "next", ![p].copy = Empty, ![p].next = first,
             ![p].last = IF first + Limit - 1 < published THEN first + Limit - 1
                         ELSE published]
  BY DEF Receive
<1>2. UNCHANGED <<published, file, got, intact, faults>>
  BY DEF Receive
<1>3. /\ published \in 0 .. MaxEvents /\ first \in 1 .. MaxEvents + 1
      /\ (IF first + Limit - 1 < published THEN first + Limit - 1 ELSE published)
           \in 0 .. MaxEvents
  BY SyncAssumption DEF SyncInv, TypeOK, Events
<1>4. TypeOK'
  <2>1. proc' \in [Procs -> ProcState]
    <3>. DEFINE last == IF first + Limit - 1 < published THEN first + Limit - 1
                        ELSE published
    <3>1. [[[[proc[p] EXCEPT !.at = "next"] EXCEPT !.copy = Empty] EXCEPT !.next = first]
             EXCEPT !.last = last] \in ProcState
      <4>1. last \in 0 .. MaxEvents
        BY <1>3
      <4>. HIDE DEF last
      <4>. QED BY <1>3, <4>1, EmptyFacts DEF SyncInv, TypeOK, ProcState
    <3>. HIDE DEF last
    <3>2. proc' = [proc EXCEPT ![p].at = "next", ![p].copy = Empty, ![p].next = first,
                               ![p].last = last]
      BY <1>1 DEF last
    <3>. QED BY <3>1, <3>2 DEF SyncInv, TypeOK
  <2>. QED BY <1>2, <2>1 DEF SyncInv, TypeOK
<1>5. /\ proc'[p].copy = Empty /\ proc'[p].at = "next" /\ proc'[p].next = first
      /\ \A q \in Procs \ {p} : proc'[q] = proc[q]
  BY <1>1 DEF SyncInv, TypeOK, ProcState
<1>6. ASSUME NEW e \in Bodies, e < first PROVE Received(e)
  <2>1. e \in Events /\ e \in Int /\ e >= 1
    BY SyncAssumption DEF Events
  <2>2. Honest(proc[p].copy)
    BY DEF SyncInv
  <2>3. PICK c \in Convs : proc[p].copy[c].cursor = first - 1
    BY <1>1, <1>3, <1>6, <2>1 DEF PageStart, IsAccountCursor
  <2>. QED BY <1>3, <1>6, <2>1, <2>2, <2>3 DEF Honest, Covered
<1>7. PassesOverNothing(p)'
  BY <1>2, <1>5, <1>6 DEF PassesOverNothing, Received
<1>8. Honest(file') /\ Honest(proc'[p].copy)
  BY <1>2, <1>5, EmptyFacts DEF SyncInv
<1>. QED BY <1>2, <1>4, <1>5, <1>7, <1>8, OneMoves

\* An event is passed over only if its body has arrived or is not to be
\* fetched.
LEMMA TakePreserves ==
  ASSUME SyncInv, NEW p \in Procs, Take(p)
  PROVE  SyncInv'
<1>. DEFINE e == proc[p].next
<1>1. PICK f \in {file, Empty} :
        /\ Loads(p, f)
        /\ \/ /\ Fetches(f, e)
              /\ proc' = [proc EXCEPT ![p].at = "fetching", ![p].copy = f,
                                      ![p].fresh = ~Misread(f)]
           \/ /\ ~Fetches(f, e)
              /\ ~Duplicate(f, e)
              /\ proc' = [proc EXCEPT ![p].at = "saving", ![p].copy = f,
                                      ![p].fresh = ~Misread(f)]
           \/ /\ ~Fetches(f, e)
              /\ Duplicate(f, e)
              /\ proc' = [proc EXCEPT ![p].next = e + 1]
  BY DEF Take
<1>2. /\ UNCHANGED <<published, file, got, intact, faults>>
      /\ proc[p].at = "next" /\ e <= proc[p].last
  BY DEF Take
<1>3. f \in FileState /\ Honest(f)
  BY <1>1, LoadFacts
<1>4. e \in 1 .. MaxEvents /\ e \in Events /\ proc[p].last \in 0 .. MaxEvents
  BY <1>2, SyncAssumption DEF SyncInv, TypeOK, ProcState, Events
<1>5. \A d \in Bodies : d < e => Received(d)
  BY <1>2 DEF SyncInv, PassesOverNothing
<1>6. Honest(file') /\ Honest(proc[p].copy)
  BY <1>2 DEF SyncInv
<1>7. CASE /\ Fetches(f, e)
           /\ proc' = [proc EXCEPT ![p].at = "fetching", ![p].copy = f,
                                   ![p].fresh = ~Misread(f)]
  <2>1. TypeOK'
    <3>1. (~Misread(f)) \in BOOLEAN
      BY DEF Misread
    <3>2. proc' \in [Procs -> ProcState]
      BY <1>7, <1>3, <3>1, LoadedType DEF SyncInv
    <3>. QED BY <1>2, <3>2 DEF SyncInv, TypeOK
  <2>2. /\ proc'[p].copy = f /\ proc'[p].at = "fetching" /\ proc'[p].next = e
        /\ \A q \in Procs \ {p} : proc'[q] = proc[q]
    BY <1>7 DEF SyncInv, TypeOK, ProcState
  <2>3. PassesOverNothing(p)'
    BY <1>2, <1>5, <1>7, <2>2 DEF PassesOverNothing, Received, Fetches
  <2>. QED BY <1>2, <1>3, <1>6, <2>1, <2>2, <2>3, OneMoves
<1>8. CASE /\ ~Fetches(f, e)
           /\ ~Duplicate(f, e)
           /\ proc' = [proc EXCEPT ![p].at = "saving", ![p].copy = f,
                                   ![p].fresh = ~Misread(f)]
  <2>1. TypeOK'
    <3>1. (~Misread(f)) \in BOOLEAN
      BY DEF Misread
    <3>2. proc' \in [Procs -> ProcState]
      BY <1>8, <1>3, <3>1, LoadedType DEF SyncInv
    <3>. QED BY <1>2, <3>2 DEF SyncInv, TypeOK
  <2>2. /\ proc'[p].copy = f /\ proc'[p].at = "saving" /\ proc'[p].next = e
        /\ \A q \in Procs \ {p} : proc'[q] = proc[q]
    BY <1>8 DEF SyncInv, TypeOK, ProcState
  <2>3. PassesOverNothing(p)'
    BY <1>2, <1>5, <1>8, <2>2 DEF PassesOverNothing, Received, Fetches
  <2>. QED BY <1>2, <1>3, <1>6, <2>1, <2>2, <2>3, OneMoves
<1>9. CASE /\ ~Fetches(f, e)
           /\ Duplicate(f, e)
           /\ proc' = [proc EXCEPT ![p].next = e + 1]
  <2>1. TypeOK'
    BY <1>2, <1>4, <1>9, SyncAssumption DEF SyncInv, TypeOK, ProcState
  <2>2. /\ proc'[p].copy = proc[p].copy /\ proc'[p].at = "next" /\ proc'[p].next = e + 1
        /\ \A q \in Procs \ {p} : proc'[q] = proc[q]
    BY <1>2, <1>9 DEF SyncInv, TypeOK, ProcState
  <2>3. e \in Bodies => Received(e)
    BY <1>3, <1>9 DEF Fetches, Honest
  <2>4. \A d \in Bodies : d < e + 1 => Received(d)
    <3>1. /\ e \in Int
          /\ \A d \in Bodies : d \in Int
      BY <1>4, SyncAssumption DEF Events
    <3>2. \A d \in Int : d < e + 1 => d < e \/ d = e
      BY <3>1
    <3>. QED BY <1>5, <2>3, <3>1, <3>2
  <2>5. PassesOverNothing(p)'
    BY <1>2, <2>2, <2>4 DEF PassesOverNothing, Received
  <2>. QED BY <1>2, <1>6, <2>1, <2>2, <2>5, OneMoves
<1>. QED BY <1>1, <1>7, <1>8, <1>9

LEMMA FetchPreserves ==
  ASSUME SyncInv, NEW p \in Procs, Fetch(p)
  PROVE  SyncInv'
<1>1. /\ proc[p].at = "fetching"
      /\ got' = got \cup {proc[p].next}
      /\ proc' = [proc EXCEPT ![p].at = "saving"]
      /\ UNCHANGED <<published, file, intact, faults>>
  BY DEF Fetch
<1>2. proc[p].next \in Bodies
  BY <1>1 DEF SyncInv, PassesOverNothing
<1>3. TypeOK'
  BY <1>1, <1>2 DEF SyncInv, TypeOK, ProcState
<1>4. /\ proc'[p].copy = proc[p].copy /\ proc'[p].at = "saving"
      /\ proc'[p].next = proc[p].next
      /\ \A q \in Procs \ {p} : proc'[q] = proc[q]
  BY <1>1 DEF SyncInv, TypeOK, ProcState
<1>5. got \subseteq got'
  BY <1>1
<1>6. \A d \in Bodies : d < proc[p].next => Received(d)
  BY <1>1 DEF SyncInv, PassesOverNothing
<1>7. PassesOverNothing(p)'
  BY <1>1, <1>4, <1>5, <1>6, HonestRemains DEF PassesOverNothing
<1>. QED BY <1>1, <1>3, <1>4, <1>5, <1>7, OneMoves DEF SyncInv

LEMMA FailPreserves ==
  ASSUME SyncInv, NEW p \in Procs, Fail(p) \/ Kill(p)
  PROVE  SyncInv'
<1>1. /\ End(p) /\ Fault
      /\ UNCHANGED <<published, got>>
      /\ file' = file \/ file' = Empty
      /\ intact' \in BOOLEAN
  BY DEF Fail, Kill, SyncInv, TypeOK
<1>2. /\ proc' \in [Procs -> ProcState]
      /\ Honest(proc'[p].copy)
      /\ \A q \in Procs \ {p} : proc'[q] = proc[q]
      /\ proc'[p].at \in {"idle", "done"}
  BY <1>1, EndFacts DEF SyncInv
<1>3. TypeOK' /\ Honest(file')
  BY <1>1, <1>2, FaultType, EmptyFacts DEF SyncInv, TypeOK
<1>4. PassesOverNothing(p)'
  BY <1>2 DEF PassesOverNothing
<1>. QED BY <1>1, <1>2, <1>3, <1>4, OneMoves

LEMMA FinishPreserves ==
  ASSUME SyncInv, NEW p \in Procs, Finish(p)
  PROVE  SyncInv'
<1>1. /\ proc[p].at = "next" /\ proc[p].next > proc[p].last
      /\ UNCHANGED <<published, file, got, intact, faults>>
  BY DEF Finish
<1>2. CASE End(p)
  <2>1. /\ proc' \in [Procs -> ProcState]
        /\ Honest(proc'[p].copy)
        /\ \A q \in Procs \ {p} : proc'[q] = proc[q]
        /\ proc'[p].at \in {"idle", "done"}
    BY <1>2, EndFacts DEF SyncInv
  <2>2. TypeOK' /\ Honest(file') /\ PassesOverNothing(p)'
    BY <1>1, <2>1 DEF SyncInv, TypeOK, PassesOverNothing
  <2>. QED BY <1>1, <2>1, <2>2, OneMoves
<1>3. ASSUME NEW f \in {file, Empty}, Loads(p, f),
             proc' = [proc EXCEPT ![p].at = "saving", ![p].copy = f,
                                  ![p].fresh = ~Misread(f)]
      PROVE  SyncInv'
  <2>1. f \in FileState /\ Honest(f)
    BY <1>3, LoadFacts
  <2>2. TypeOK'
    <3>1. (~Misread(f)) \in BOOLEAN
      BY DEF Misread
    <3>2. proc' \in [Procs -> ProcState]
      BY <1>3, <2>1, <3>1, LoadedType DEF SyncInv
    <3>. QED BY <1>1, <3>2 DEF SyncInv, TypeOK
  <2>3. /\ proc'[p].copy = f /\ proc'[p].at = "saving"
        /\ proc'[p].next = proc[p].next /\ proc'[p].last = proc[p].last
        /\ \A q \in Procs \ {p} : proc'[q] = proc[q]
    BY <1>3 DEF SyncInv, TypeOK, ProcState
  <2>4. proc[p].next \in Int /\ proc[p].last \in Int
    BY SyncAssumption DEF SyncInv, TypeOK, ProcState
  <2>5. PassesOverNothing(p)'
    BY <1>1, <2>3, <2>4 DEF SyncInv, PassesOverNothing, Received
  <2>. QED BY <1>1, <2>1, <2>2, <2>3, <2>5, OneMoves DEF SyncInv
<1>. QED BY <1>2, <1>3 DEF Finish

LEMMA OpenPreserves ==
  ASSUME SyncInv, NEW p \in Procs, Open(p)
  PROVE  SyncInv'
<1>1. /\ proc[p].at = "saving"
      /\ proc' = [proc EXCEPT ![p].at = "writing"]
      /\ UNCHANGED <<published, file, got, intact, faults>>
  BY DEF Open
<1>2. TypeOK'
  BY <1>1 DEF SyncInv, TypeOK, ProcState
<1>3. /\ proc'[p].at = "writing" /\ proc'[p].copy = proc[p].copy
      /\ proc'[p].next = proc[p].next /\ proc'[p].last = proc[p].last
      /\ \A q \in Procs \ {p} : proc'[q] = proc[q]
  BY <1>1 DEF SyncInv, TypeOK, ProcState
<1>4. PassesOverNothing(p)'
  BY <1>1, <1>3 DEF SyncInv, PassesOverNothing, Received
<1>. QED BY <1>1, <1>2, <1>3, <1>4, OneMoves DEF SyncInv

LEMMA WriteKeepsBoolean ==
  ASSUME NEW p \in Procs, Write(p)
  PROVE  intact' \in BOOLEAN
BY DEF Write

\* What is written is honest, and then the body of the event has arrived.
LEMMA WritePreserves ==
  ASSUME SyncInv, NEW p \in Procs, Write(p)
  PROVE  SyncInv'
<1>. DEFINE e == proc[p].next
<1>1. /\ proc[p].at = "writing"
      /\ file' = Written(p) \/ file' = Empty
      /\ UNCHANGED <<published, got, faults>>
      /\ proc' = [q \in Procs |->
           IF q # p THEN Outdated(q)
           ELSE IF proc[p].next > proc[p].last THEN Ended(p)
           ELSE [proc[p] EXCEPT !.at = "next", !.copy = Empty, !.fresh = TRUE,
                                !.next = proc[p].next + 1]]
  BY DEF Write, Writing
<1>2. e \in 1 .. MaxEvents + 1 /\ proc[p].last \in 0 .. MaxEvents
  BY DEF SyncInv, TypeOK, ProcState
<1>3. /\ \A d \in Bodies : d < e => Received(d)
      /\ e <= proc[p].last /\ e \in Bodies => e \in got
  BY <1>1 DEF SyncInv, PassesOverNothing
<1>4. proc[p].copy \in FileState /\ Honest(proc[p].copy)
  BY DEF SyncInv, TypeOK, ProcState
<1>5. Written(p) \in FileState /\ Honest(Written(p))
  <2>1. CASE e > proc[p].last
    BY <1>4, <2>1 DEF Written
  <2>2. CASE ~(e > proc[p].last)
    <3>1. e \in Events /\ e <= proc[p].last
      BY <1>2, <2>2, SyncAssumption DEF Events
    <3>. QED BY <1>3, <1>4, <2>2, <3>1, RecordedFacts DEF Written
  <2>. QED BY <2>1, <2>2
<1>6. file' \in FileState /\ Honest(file')
  BY <1>1, <1>5, EmptyFacts
<1>7. \A q \in Procs \ {p} : /\ proc'[q] \in ProcState
                             /\ proc'[q].at = proc[q].at
                             /\ proc'[q].copy = proc[q].copy
                             /\ proc'[q].next = proc[q].next
                             /\ proc'[q].last = proc[q].last
  BY <1>1 DEF Outdated, SyncInv, TypeOK, ProcState
<1>8. CASE e > proc[p].last
  <2>1. /\ proc'[p] \in ProcState /\ proc'[p].copy = Empty
        /\ proc'[p].at \in {"idle", "done"}
    BY <1>1, <1>8, EmptyFacts, SyncAssumption DEF Ended, ProcState
  <2>2. TypeOK'
    BY <1>1, <1>6, <1>7, <2>1, WriteKeepsBoolean DEF SyncInv, TypeOK
  <2>3. PassesOverNothing(p)' /\ Honest(proc'[p].copy)
    BY <2>1, EmptyFacts DEF PassesOverNothing
  <2>. QED BY <1>1, <1>6, <1>7, <2>2, <2>3, OneMoves
<1>9. CASE ~(e > proc[p].last)
  <2>1. /\ proc'[p] = [proc[p] EXCEPT !.at = "next", !.copy = Empty, !.fresh = TRUE,
                                      !.next = e + 1]
        /\ e \in 1 .. MaxEvents /\ e <= proc[p].last
    BY <1>1, <1>2, <1>9, SyncAssumption
  <2>2. /\ proc'[p] \in ProcState /\ proc'[p].copy = Empty
        /\ proc'[p].at = "next" /\ proc'[p].next = e + 1
    <3>1. proc[p] \in ProcState /\ e + 1 \in 1 .. MaxEvents + 1
      BY <2>1, SyncAssumption DEF SyncInv, TypeOK
    <3>. HIDE DEF e
    <3>. QED BY <2>1, <3>1, EmptyFacts DEF ProcState
  <2>3. TypeOK'
    BY <1>1, <1>6, <1>7, <2>2, WriteKeepsBoolean DEF SyncInv, TypeOK
  <2>4. \A d \in Bodies : d < e + 1 => Received(d)
    BY <1>3, <2>1, SyncAssumption DEF Events, Received
  <2>5. PassesOverNothing(p)' /\ Honest(proc'[p].copy)
    BY <1>1, <2>2, <2>4, EmptyFacts DEF PassesOverNothing, Received
  <2>. QED BY <1>1, <1>6, <1>7, <2>3, <2>5, OneMoves
<1>. QED BY <1>8, <1>9

LEMMA PublishPreserves ==
  ASSUME SyncInv, Publish
  PROVE  SyncInv'
BY DEF Publish, SyncInv, TypeOK, Honest, Covered, HasBody, Received, PassesOverNothing

-----------------------------------------------------------------------------
(***************************************************************************)
(* The theorems.                                                           *)
(***************************************************************************)
LEMMA SyncInvInit == ASSUME Init PROVE SyncInv
<1>1. [at |-> "idle", copy |-> Empty, fresh |-> TRUE, next |-> 1, last |-> 0] \in ProcState
  BY EmptyFacts, SyncAssumption DEF ProcState
<1>2. TypeOK
  BY <1>1, EmptyFacts, SyncAssumption DEF Init, TypeOK
<1>. QED BY <1>2, EmptyFacts DEF Init, SyncInv, PassesOverNothing

LEMMA SyncInvNext == ASSUME SyncInv, [Next]_vars PROVE SyncInv'
<1>1. CASE UNCHANGED vars
  BY <1>1 DEF vars, SyncInv, TypeOK, Honest, Covered, HasBody, Received, PassesOverNothing
<1>2. ASSUME NEW p \in Procs, Step(p) PROVE SyncInv'
  BY <1>2, ReceivePreserves, TakePreserves, FetchPreserves, FinishPreserves,
     OpenPreserves, WritePreserves, FailPreserves DEF Step
<1>. QED BY <1>1, <1>2, PollPreserves, PublishPreserves DEF Next

\* The invariant holds of every state.
THEOREM SyncInvariant == Spec => []SyncInv
<1>1. Init => SyncInv
  BY SyncInvInit
<1>2. SyncInv /\ [Next]_vars => SyncInv'
  BY SyncInvNext
<1>. QED BY <1>1, <1>2, PTL DEF Spec

\* The state file and the invocations are of their types, for every number of
\* events, invocations, page size and bound on the ids.
THEOREM SyncTypes == Spec => []TypeOK
BY SyncInvariant, PTL DEF SyncInv

\* No cursor in the file stands past an event whose body has not arrived, so
\* the feed offers every missing one again.
THEOREM SyncSkipsNothing == Spec => []NothingIsSkipped
<1>1. SyncInv => NothingIsSkipped
  BY DEF SyncInv, Honest, Covered, NothingIsSkipped
<1>. QED BY <1>1, SyncInvariant, PTL

-----------------------------------------------------------------------------
(***************************************************************************)
(* The cursor.                                                             *)
(***************************************************************************)

\* Keeping a new x, exactly: it is last, and one more than Keep drops the first.
LEMMA AppendedNew ==
  ASSUME NEW S, NEW s \in Seq(S), NEW x \in S, ~Contains(s, x)
  PROVE  LET m == IF Len(s) + 1 > Keep THEN 1 ELSE 0
         IN  /\ Len(Appended(s, x)) = Len(s) + 1 - m
             /\ \A i \in 1 .. Len(s) + 1 - m :
                  Appended(s, x)[i] = IF i + m <= Len(s) THEN s[i + m] ELSE x
             /\ Contains(Appended(s, x), x)
<1>. DEFINE t == Append(s, x)
            n == Len(s)
<1>1. /\ t \in Seq(S) /\ n \in Nat /\ Len(t) = n + 1
      /\ \A i \in 1 .. n + 1 : t[i] = IF i <= n THEN s[i] ELSE x
  BY AppendProperties, LenProperties
<1>2. Appended(s, x) = IF Len(t) > Keep THEN Tail(t) ELSE t
  BY DEF Appended
<1>. HIDE DEF t, n
<1>3. CASE n + 1 > Keep
  <2>1. t # << >>
    BY <1>1
  <2>2. /\ Len(Tail(t)) = n
        /\ \A i \in 1 .. n : Tail(t)[i] = t[i + 1]
    BY <1>1, <2>1, HeadTailProperties
  <2>3. n >= 1
    BY <1>1, <1>3, SyncAssumption
  <2>4. \A i \in 1 .. n : Tail(t)[i] = IF i + 1 <= n THEN s[i + 1] ELSE x
    BY <1>1, <2>2
  <2>5. Contains(Tail(t), x)
    BY <1>1, <2>2, <2>3, <2>4 DEF Contains
  <2>. QED BY <1>1, <1>2, <1>3, <2>2, <2>4, <2>5 DEF n
<1>4. CASE ~(n + 1 > Keep)
  <2>1. Contains(t, x)
    BY <1>1 DEF Contains
  <2>. QED BY <1>1, <1>2, <1>4, <2>1 DEF n
<1>. QED BY <1>3, <1>4

\* An event is known in a file that knows the ids of one in which it was known.
LEMMA KnownRemains ==
  ASSUME NEW f \in FileState, NEW g \in FileState, SideBySide(f), SideBySide(g),
         \A c \in Convs, e \in Events : Contains(f[c].ids, e) => Contains(g[c].ids, e),
         NEW e \in Events, Duplicate(f, e)
  PROVE  Duplicate(g, e)
<1>. DEFINE c == ConvOf[e]
<1>0. c \in Convs
  BY EventFacts
<1>1. CASE Contains(f[c].ids, e)
  BY <1>0, <1>1 DEF Duplicate
<1>2. CASE Contains(f[c].keys, KeyOf[e])
  <2>0. f[c].ids \in Seq(Events)
    BY <1>0 DEF FileState, Conversation
  <2>1. PICK i \in 1 .. Len(f[c].keys) : f[c].keys[i] = KeyOf[e]
    BY <1>2 DEF Contains
  <2>2. i \in 1 .. Len(f[c].ids) /\ KeyOf[f[c].ids[i]] = KeyOf[e]
    BY <1>0, <2>1 DEF SideBySide
  <2>3. f[c].ids[i] \in Events /\ Contains(f[c].ids, f[c].ids[i])
    BY <2>0, <2>2, ElementOfSeq DEF Contains
  <2>4. Contains(g[c].ids, f[c].ids[i])
    BY <1>0, <2>3
  <2>5. PICK j \in 1 .. Len(g[c].ids) : g[c].ids[j] = f[c].ids[i]
    BY <2>4 DEF Contains
  <2>6. j \in 1 .. Len(g[c].keys) /\ g[c].keys[j] = KeyOf[e]
    BY <1>0, <2>2, <2>5 DEF SideBySide
  <2>. QED BY <2>6 DEF Duplicate, Contains
<1>. QED BY <1>1, <1>2 DEF Duplicate

\* Recording keeps ids and keys side by side; then the event is known, and the
\* cursor stands at it if it was not known before.
LEMMA RecordedKnown ==
  ASSUME NEW f \in FileState, NEW e \in Events, SideBySide(f)
  PROVE  /\ SideBySide(Recorded(f, e))
         /\ Duplicate(Recorded(f, e), e)
         /\ \A c \in Convs :
              \/ Recorded(f, e)[c].cursor = f[c].cursor
              \/ Recorded(f, e)[c].cursor = e /\ c = ConvOf[e] /\ ~Duplicate(f, e)
<1>. DEFINE c == f[ConvOf[e]]
            g == Recorded(f, e)
            h == g[ConvOf[e]]
            seen == IF Duplicate(f, e) THEN c
                    ELSE [c EXCEPT !.cursor = e, !.ids = Appended(@, e),
                                   !.keys = Appended(@, KeyOf[e])]
            kept == IF e \notin Bodies THEN seen
                    ELSE [seen EXCEPT !.bodyIds = Appended(@, e),
                                      !.bodyKeys = Appended(@, KeyOf[e])]
<1>0. /\ ConvOf[e] \in Convs /\ KeyOf[e] \in Keys /\ c \in Conversation
      /\ c.ids \in Seq(Events) /\ c.keys \in Seq(Keys)
  BY EventFacts DEF FileState, Conversation
<1>1. IF Duplicate(f, e)
        THEN seen.cursor = c.cursor /\ seen.ids = c.ids /\ seen.keys = c.keys
        ELSE /\ seen.cursor = e
             /\ seen.ids = Appended(c.ids, e)
             /\ seen.keys = Appended(c.keys, KeyOf[e])
  BY <1>0 DEF Conversation
<1>2. kept.cursor = seen.cursor /\ kept.ids = seen.ids /\ kept.keys = seen.keys
  <2>1. \E a, b, k, l, m : seen = [cursor |-> a, ids |-> b, keys |-> k,
                                   bodyIds |-> l, bodyKeys |-> m]
    BY <1>0 DEF Conversation
  <2>. HIDE DEF seen
  <2>. QED BY <2>1
<1>3. /\ h.cursor = seen.cursor /\ h.ids = seen.ids /\ h.keys = seen.keys
      /\ \A b \in Convs : b # ConvOf[e] => g[b] = f[b]
  <2>1. g = [f EXCEPT ![ConvOf[e]] = kept]
    BY DEF Recorded
  <2>. HIDE DEF kept, seen
  <2>. QED BY <1>0, <1>2, <2>1 DEF FileState
<1>. HIDE DEF seen, kept, g
<1>4. CASE Duplicate(f, e)
  <2>0. \A b \in Convs : g[b].ids = f[b].ids /\ g[b].keys = f[b].keys
    BY <1>1, <1>3, <1>4
  <2>1. SideBySide(g)
    BY <2>0 DEF SideBySide
  <2>2. Duplicate(g, e)
    BY <1>1, <1>3, <1>4 DEF Duplicate
  <2>3. \A b \in Convs : g[b].cursor = f[b].cursor
    BY <1>1, <1>3, <1>4
  <2>. QED BY <2>1, <2>2, <2>3 DEF g
<1>5. CASE ~Duplicate(f, e)
  <2>1. ~Contains(c.ids, e) /\ ~Contains(c.keys, KeyOf[e])
    BY <1>5 DEF Duplicate
  <2>2. /\ Len(c.keys) = Len(c.ids) /\ Len(c.ids) \in Nat
        /\ \A i \in 1 .. Len(c.ids) : c.keys[i] = KeyOf[c.ids[i]]
    BY <1>0, LenProperties DEF SideBySide
  <2>3. PICK m \in {0, 1} :
          /\ Len(Appended(c.ids, e)) = Len(c.ids) + 1 - m
          /\ Len(Appended(c.keys, KeyOf[e])) = Len(c.ids) + 1 - m
          /\ \A i \in 1 .. Len(c.ids) + 1 - m :
               /\ Appended(c.ids, e)[i] = IF i + m <= Len(c.ids) THEN c.ids[i + m] ELSE e
               /\ Appended(c.keys, KeyOf[e])[i] =
                    IF i + m <= Len(c.ids) THEN c.keys[i + m] ELSE KeyOf[e]
    <3>. DEFINE m == IF Len(c.ids) + 1 > Keep THEN 1 ELSE 0
    <3>. HIDE DEF c
    <3>1. /\ Len(Appended(c.ids, e)) = Len(c.ids) + 1 - m
          /\ \A i \in 1 .. Len(c.ids) + 1 - m :
               Appended(c.ids, e)[i] = IF i + m <= Len(c.ids) THEN c.ids[i + m] ELSE e
      <4>1. /\ c.ids \in Seq(Events) /\ e \in Events /\ ~Contains(c.ids, e)
        BY <1>0, <2>1
      <4>. QED BY <4>1, AppendedNew
    <3>2. /\ Len(Appended(c.keys, KeyOf[e])) = Len(c.keys) + 1 - m
          /\ \A i \in 1 .. Len(c.keys) + 1 - m :
               Appended(c.keys, KeyOf[e])[i] =
                 IF i + m <= Len(c.keys) THEN c.keys[i + m] ELSE KeyOf[e]
      <4>1. Len(c.keys) = Len(c.ids)
        BY <2>2
      <4>. QED BY <1>0, <2>1, <4>1, AppendedNew
    <3>3. Len(c.keys) = Len(c.ids) /\ m \in {0, 1}
      BY <2>2
    <3>. HIDE DEF m
    <3>. QED BY <3>1, <3>2, <3>3
  <2>4. \A i \in 1 .. Len(h.ids) : h.keys[i] = KeyOf[h.ids[i]]
    <3>. SUFFICES ASSUME NEW i \in 1 .. Len(c.ids) + 1 - m
                  PROVE  Appended(c.keys, KeyOf[e])[i] = KeyOf[Appended(c.ids, e)[i]]
      <4>. HIDE DEF c
      <4>. QED BY <1>1, <1>3, <1>5, <2>3
    <3>. HIDE DEF c
    <3>1. CASE i + m <= Len(c.ids)
      <4>1. i + m \in 1 .. Len(c.ids)
        BY <2>2, <3>1
      <4>. QED BY <2>2, <2>3, <3>1, <4>1
    <3>2. CASE ~(i + m <= Len(c.ids))
      BY <2>3, <3>2
    <3>. QED BY <3>1, <3>2
  <2>5. Len(h.keys) = Len(h.ids)
    <3>. HIDE DEF c
    <3>. QED BY <1>1, <1>3, <1>5, <2>3
  <2>6. SideBySide(g)
    <3>. SUFFICES ASSUME NEW b \in Convs
                  PROVE  /\ Len(g[b].keys) = Len(g[b].ids)
                         /\ \A i \in 1 .. Len(g[b].ids) : g[b].keys[i] = KeyOf[g[b].ids[i]]
      BY DEF SideBySide
    <3>1. CASE b = ConvOf[e]
      BY <2>4, <2>5, <3>1
    <3>2. CASE b # ConvOf[e]
      BY <1>3, <3>2 DEF SideBySide
    <3>. QED BY <3>1, <3>2
  <2>7. Duplicate(g, e)
    <3>1. Contains(h.ids, e)
      <4>. HIDE DEF c
      <4>. QED BY <1>0, <1>1, <1>3, <1>5, <2>1, AppendedNew
    <3>. QED BY <3>1 DEF Duplicate
  <2>8. \A b \in Convs : \/ g[b].cursor = f[b].cursor
                         \/ g[b].cursor = e /\ b = ConvOf[e]
    BY <1>1, <1>3, <1>5
  <2>. QED BY <1>5, <2>6, <2>7, <2>8 DEF g
<1>. QED BY <1>4, <1>5

LEMMA EmptyKnown == SideBySide(Empty) /\ \A e \in Events : ~Duplicate(Empty, e)
<1>1. \A c \in Convs : Empty[c].ids = << >> /\ Empty[c].keys = << >>
  BY DEF Empty, Nothing
<1>2. Len(<< >>) = 0 /\ \A x : ~Contains(<< >>, x)
  BY EmptySeq DEF Contains
<1>. QED BY <1>1, <1>2, EventFacts DEF SideBySide, Duplicate

\* A step of one invocation that leaves the file alone.
LEMMA KnownFrame ==
  ASSUME KnownInv, NEW p \in Procs, UNCHANGED <<file, intact>>,
         \A q \in Procs \ {p} : proc'[q] = proc[q],
         SideBySide(proc'[p].copy), intact => KnownBy(p)'
  PROVE  KnownInv'
<1>1. SideBySide(file)'
  BY DEF KnownInv, SideBySide
<1>2. ASSUME NEW q \in Procs \ {p}
      PROVE  SideBySide(proc'[q].copy) /\ (intact => KnownBy(q)')
  BY DEF KnownInv, KnownBy, KnownTo, Duplicate
<1>3. ASSUME intact PROVE \A c \in Convs : KnownTo(file[c].cursor)'
  BY <1>3 DEF KnownInv, KnownTo, Duplicate
<1>4. \A q \in Procs : SideBySide(proc'[q].copy) /\ (intact => KnownBy(q)')
  BY <1>2
<1>. QED BY <1>1, <1>3, <1>4 DEF KnownInv, SideBySide

\* An invocation that is at the next event.
LEMMA AtNext ==
  ASSUME NEW p \in Procs, proc'[p].at = "next",
         \A d \in Events : d <= proc'[p].next - 1 => Duplicate(file', d)
  PROVE  KnownBy(p)'
BY DEF KnownBy, KnownTo, Duplicate

LEMMA EndKnown ==
  ASSUME SyncInv, NEW p \in Procs, End(p)
  PROVE  /\ \A q \in Procs \ {p} : proc'[q] = proc[q]
         /\ SideBySide(proc'[p].copy)
         /\ KnownBy(p)'
<1>1. /\ \A q \in Procs \ {p} : proc'[q] = proc[q]
      /\ proc'[p].at \in {"idle", "done"}
  BY EndFacts DEF SyncInv
<1>2. proc'[p].copy = Empty
  BY DEF End, Ended, SyncInv, TypeOK
<1>. QED BY <1>1, <1>2, EmptyKnown DEF KnownBy

\* An invocation that loads the file goes on from what it knows.
LEMMA LoadKnown ==
  ASSUME SyncInv, KnownInv, NEW p \in Procs, NEW f \in {file, Empty},
         NEW step \in {"fetching", "saving"}, proc[p].at = "next",
         proc' = [proc EXCEPT ![p].at = step, ![p].copy = f, ![p].fresh = ~Misread(f)],
         UNCHANGED <<file, intact>>
  PROVE  KnownInv'
<1>1. /\ proc'[p].at = step /\ proc'[p].copy = f /\ proc'[p].fresh = (f = file)
      /\ proc'[p].next = proc[p].next
      /\ \A q \in Procs \ {p} : proc'[q] = proc[q]
  BY DEF SyncInv, TypeOK, ProcState, Misread
<1>2. SideBySide(f)
  BY EmptyKnown DEF KnownInv
<1>3. intact => KnownBy(p)'
  BY <1>1 DEF KnownInv, KnownBy, KnownTo, Duplicate
<1>. QED BY <1>1, <1>2, <1>3, KnownFrame

LEMMA PollKnown ==
  ASSUME SyncInv, KnownInv, NEW p \in Procs, Poll(p)
  PROVE  KnownInv'
<1>1. PICK f \in {file, Empty} :
        proc' = [proc EXCEPT ![p].at = "request", ![p].copy = f]
  BY DEF Poll
<1>2. UNCHANGED <<file, intact>>
  BY DEF Poll
<1>3. /\ proc'[p].at = "request" /\ proc'[p].copy = f
      /\ \A q \in Procs \ {p} : proc'[q] = proc[q]
  BY <1>1 DEF SyncInv, TypeOK, ProcState
<1>4. \A c \in Convs : Empty[c].cursor = 0
  BY DEF Empty, Nothing
<1>5. KnownTo(0)
  BY SyncAssumption DEF KnownTo, Events
<1>6. intact => \A c \in Convs : KnownTo(f[c].cursor)
  BY <1>1, <1>4, <1>5 DEF KnownInv
<1>7. intact => KnownBy(p)'
  BY <1>2, <1>3, <1>6 DEF KnownBy, KnownTo, Duplicate
<1>. QED BY <1>2, <1>3, <1>7, EmptyKnown, KnownFrame DEF KnownInv

\* The page begins after a cursor of the copy, so what stands before it is known.
LEMMA ReceiveKnown ==
  ASSUME SyncInv, KnownInv, NEW p \in Procs, Receive(p)
  PROVE  KnownInv'
<1>1. PICK first \in 1 .. published + 1 :
        /\ PageStart(p, first)
        /\ \E last :
             proc' = [proc EXCEPT ![p].at = "next", ![p].copy = Empty,
                                  ![p].next = first, ![p].last = last]
  BY DEF Receive
<1>2. UNCHANGED <<file, intact>> /\ proc[p].at = "request"
  BY DEF Receive
<1>3. /\ proc'[p].at = "next" /\ proc'[p].copy = Empty /\ proc'[p].next = first
      /\ \A q \in Procs \ {p} : proc'[q] = proc[q]
  BY <1>1 DEF SyncInv, TypeOK, ProcState
<1>4. ASSUME intact PROVE KnownTo(first - 1)
  <2>1. CASE first - 1 = 0
    BY <2>1, SyncAssumption DEF KnownTo, Events
  <2>2. CASE \E c \in Convs : proc[p].copy[c].cursor = first - 1
    BY <1>2, <1>4, <2>2 DEF KnownInv, KnownBy
  <2>3. published \in Int
    BY SyncAssumption DEF SyncInv, TypeOK, Events
  <2>. QED BY <1>1, <2>1, <2>2, <2>3 DEF PageStart, IsAccountCursor
<1>5. intact => KnownBy(p)'
  BY <1>2, <1>3, <1>4 DEF KnownBy, KnownTo, Duplicate
<1>. QED BY <1>2, <1>3, <1>5, EmptyKnown, KnownFrame

\* An event that is passed over is known.
LEMMA TakeKnown ==
  ASSUME SyncInv, KnownInv, NEW p \in Procs, Take(p)
  PROVE  KnownInv'
<1>. DEFINE e == proc[p].next
<1>1. /\ proc[p].at = "next" /\ e <= proc[p].last
      /\ UNCHANGED <<file, intact>>
  BY DEF Take
<1>2. /\ e \in 1 .. MaxEvents + 1 /\ proc[p].last \in 0 .. MaxEvents
  BY DEF SyncInv, TypeOK, ProcState
<1>3. e \in Events
  BY <1>1, <1>2, SyncAssumption DEF Events
<1>4. PICK f \in {file, Empty} :
        \/ \E step \in {"fetching", "saving"} :
             proc' = [proc EXCEPT ![p].at = step, ![p].copy = f,
                                  ![p].fresh = ~Misread(f)]
        \/ /\ Duplicate(f, e)
           /\ proc' = [proc EXCEPT ![p].next = e + 1]
  BY DEF Take
<1>5. CASE \E step \in {"fetching", "saving"} :
             proc' = [proc EXCEPT ![p].at = step, ![p].copy = f,
                                  ![p].fresh = ~Misread(f)]
  BY <1>1, <1>5, LoadKnown
<1>6. CASE Duplicate(f, e) /\ proc' = [proc EXCEPT ![p].next = e + 1]
  <2>1. f = file
    BY <1>3, <1>6, EmptyKnown
  <2>2. /\ proc'[p].at = "next" /\ proc'[p].copy = proc[p].copy
        /\ proc'[p].next = e + 1
        /\ \A q \in Procs \ {p} : proc'[q] = proc[q]
    BY <1>1, <1>6 DEF SyncInv, TypeOK, ProcState
  <2>3. ASSUME intact PROVE KnownTo(e)
    <3>1. KnownTo(e - 1)
      BY <1>1, <2>3 DEF KnownInv, KnownBy
    <3>. QED BY <1>2, <1>6, <2>1, <3>1, SyncAssumption DEF KnownTo, Events
  <2>4. intact => KnownBy(p)'
    <3>2. intact => \A d \in Events : d <= e => Duplicate(file', d)
      BY <1>1, <2>3 DEF KnownTo
    <3>3. intact => \A d \in Events : d <= proc'[p].next - 1 => Duplicate(file', d)
      <4>1. proc'[p].next - 1 = e
        BY <1>2, <2>2
      <4>. QED BY <3>2, <4>1
    <3>. QED BY <2>2, <3>3, AtNext
  <2>5. SideBySide(proc[p].copy)
    BY DEF KnownInv
  <2>. QED BY <1>1, <2>2, <2>4, <2>5, KnownFrame
<1>. QED BY <1>4, <1>5, <1>6

LEMMA FetchOpenKnown ==
  ASSUME SyncInv, KnownInv, NEW p \in Procs, Fetch(p) \/ Open(p)
  PROVE  KnownInv'
<1>1. /\ proc[p].at \in {"fetching", "saving"}
      /\ UNCHANGED <<file, intact>>
      /\ \E step \in {"saving", "writing"} : proc' = [proc EXCEPT ![p].at = step]
  BY DEF Fetch, Open
<1>2. /\ proc'[p].at \in {"saving", "writing"} /\ proc'[p].copy = proc[p].copy
      /\ proc'[p].next = proc[p].next /\ proc'[p].fresh = proc[p].fresh
      /\ \A q \in Procs \ {p} : proc'[q] = proc[q]
  BY <1>1 DEF SyncInv, TypeOK, ProcState
<1>3. intact => KnownBy(p)'
  BY <1>1, <1>2 DEF KnownInv, KnownBy, KnownTo, Duplicate
<1>. QED BY <1>1, <1>2, <1>3, KnownFrame DEF KnownInv

LEMMA FinishKnown ==
  ASSUME SyncInv, KnownInv, NEW p \in Procs, Finish(p)
  PROVE  KnownInv'
<1>1. proc[p].at = "next" /\ UNCHANGED <<file, intact>>
  BY DEF Finish
<1>2. CASE End(p)
  BY <1>1, <1>2, EndKnown, KnownFrame
<1>3. CASE \E f \in {file, Empty} :
        proc' = [proc EXCEPT ![p].at = "saving", ![p].copy = f, ![p].fresh = ~Misread(f)]
  BY <1>1, <1>3, LoadKnown
<1>. QED BY <1>2, <1>3 DEF Finish

\* A kill in the middle of a write is the end of intact.
LEMMA FailKnown ==
  ASSUME SyncInv, KnownInv, NEW p \in Procs, Fail(p) \/ Kill(p)
  PROVE  KnownInv'
<1>1. End(p)
  BY DEF Fail, Kill
<1>2. /\ \A q \in Procs \ {p} : proc'[q] = proc[q]
      /\ SideBySide(proc'[p].copy)
      /\ KnownBy(p)'
  BY <1>1, EndKnown
<1>3. CASE UNCHANGED <<file, intact>>
  BY <1>2, <1>3, KnownFrame
<1>4. CASE file' = Empty /\ ~intact'
  <2>1. SideBySide(file')
    BY <1>4, EmptyKnown
  <2>2. \A q \in Procs : SideBySide(proc'[q].copy)
    BY <1>2 DEF KnownInv
  <2>. QED BY <1>4, <2>1, <2>2 DEF KnownInv, SideBySide
<1>. QED BY <1>3, <1>4 DEF Fail, Kill, SyncInv, TypeOK

\* A write that leaves the file intact was made from what the file holds, and
\* what was known in it still is.
LEMMA IntactWrite ==
  ASSUME SyncInv, KnownInv, NEW p \in Procs, Write(p), intact'
  PROVE  /\ intact /\ file' = Written(p) /\ proc[p].copy = file
         /\ Written(p) \in FileState /\ SideBySide(Written(p))
         /\ \A e \in Events : Duplicate(file, e) => Duplicate(Written(p), e)
         /\ proc[p].next <= proc[p].last =>
              /\ proc[p].next \in Events
              /\ Written(p) = Recorded(file, proc[p].next)
<1>. DEFINE e == proc[p].next
<1>1. /\ intact /\ proc[p].at = "writing" /\ proc[p].fresh
      /\ ~Forgets(p) /\ file' = Written(p)
  BY DEF Write, Writing
<1>2. proc[p].copy = file /\ SideBySide(file) /\ file \in FileState
  BY <1>1 DEF KnownInv, KnownBy, SyncInv, TypeOK
<1>3. e \in 1 .. MaxEvents + 1 /\ proc[p].last \in 0 .. MaxEvents
  BY DEF SyncInv, TypeOK, ProcState
<1>4. e <= proc[p].last => e \in Events /\ Written(p) = Recorded(file, e)
  BY <1>2, <1>3, SyncAssumption DEF Written, Events
<1>5. e > proc[p].last => Written(p) = file
  BY <1>2 DEF Written
<1>6. Written(p) \in FileState /\ SideBySide(Written(p))
  BY <1>2, <1>3, <1>4, <1>5, RecordedFacts, RecordedKnown
<1>7. \A c \in Convs, d \in Events :
        Contains(file[c].ids, d) => Contains(Written(p)[c].ids, d)
  BY <1>1, <1>2 DEF Forgets
<1>8. \A d \in Events : Duplicate(file, d) => Duplicate(Written(p), d)
  BY <1>2, <1>6, <1>7, KnownRemains
<1>. QED BY <1>1, <1>2, <1>4, <1>6, <1>8

\* Then no cursor goes back, because a known event does not move it.
LEMMA IntactCursor ==
  ASSUME SyncInv, KnownInv, NEW p \in Procs, Write(p), intact', NEW c \in Convs
  PROVE  /\ file'[c].cursor >= file[c].cursor
         /\ \/ file'[c].cursor = file[c].cursor
            \/ file'[c].cursor = proc[p].next /\ proc[p].next <= proc[p].last
<1>0. /\ file[c].cursor \in Int /\ proc[p].next \in Int /\ proc[p].last \in Int
  <2>1. file[c] \in Conversation
    BY DEF SyncInv, TypeOK, FileState
  <2>2. file[c].cursor \in Int
    BY <2>1, SyncAssumption DEF Conversation, Events
  <2>3. proc[p] \in ProcState
    BY DEF SyncInv, TypeOK
  <2>. QED BY <2>2, <2>3, SyncAssumption DEF ProcState
<1>1. CASE proc[p].next > proc[p].last
  BY <1>0, <1>1, IntactWrite DEF Written
<1>2. CASE proc[p].next <= proc[p].last
  <2>1. /\ intact /\ proc[p].next \in Events
        /\ file' = Recorded(file, proc[p].next)
    BY <1>2, IntactWrite
  <2>2. \/ file'[c].cursor = file[c].cursor
        \/ file'[c].cursor = proc[p].next /\ ~Duplicate(file, proc[p].next)
    BY <2>1, RecordedKnown DEF KnownInv, SyncInv, TypeOK
  <2>3. KnownTo(file[c].cursor)
    BY <2>1 DEF KnownInv
  <2>. QED BY <1>0, <1>2, <2>1, <2>2, <2>3 DEF KnownTo
<1>. QED BY <1>0, <1>1, <1>2

LEMMA WriteKnown ==
  ASSUME SyncInv, KnownInv, NEW p \in Procs, Write(p)
  PROVE  KnownInv'
<1>. DEFINE e == proc[p].next
<1>1. /\ file' = Written(p) \/ file' = Empty
      /\ proc' = [q \in Procs |->
           IF q # p THEN Outdated(q)
           ELSE IF e > proc[p].last THEN Ended(p)
           ELSE [proc[p] EXCEPT !.at = "next", !.copy = Empty, !.fresh = TRUE,
                                !.next = e + 1]]
  BY DEF Write
<1>2. /\ e \in 1 .. MaxEvents + 1 /\ proc[p].last \in 0 .. MaxEvents
      /\ proc[p].copy \in FileState
  BY DEF SyncInv, TypeOK, ProcState
<1>3. \A q \in Procs \ {p} :
        /\ proc'[q].at = proc[q].at
        /\ proc'[q].copy = proc[q].copy
        /\ proc'[q].next = proc[q].next
        /\ proc'[q].at \in {"fetching", "saving", "writing"} => ~proc'[q].fresh
  BY <1>1 DEF Outdated, SyncInv, TypeOK, ProcState
<1>4. proc'[p].copy = Empty
  BY <1>1 DEF Ended, SyncInv, TypeOK, ProcState
<1>5. SideBySide(file')
  <2>1. e <= proc[p].last => e \in Events
    BY <1>2, SyncAssumption DEF Events
  <2>. QED BY <1>1, <1>2, <2>1, EmptyKnown, RecordedKnown DEF Written, KnownInv
<1>6. \A q \in Procs : SideBySide(proc'[q].copy)
  BY <1>3, <1>4, EmptyKnown DEF KnownInv
<1>7. ASSUME intact'
      PROVE  (\A c \in Convs : KnownTo(file[c].cursor)') /\ \A q \in Procs : KnownBy(q)'
  <2>1. /\ intact /\ file' = Written(p)
        /\ \A d \in Events : Duplicate(file, d) => Duplicate(file', d)
        /\ e <= proc[p].last => e \in Events /\ file' = Recorded(file, e)
    BY <1>7, IntactWrite
  <2>2. \A n : KnownTo(n) => \A d \in Events : d <= n => Duplicate(file', d)
    BY <2>1 DEF KnownTo
  <2>3. KnownTo(e - 1)
    BY <2>1 DEF KnownInv, KnownBy, Write, Writing
  <2>4. e <= proc[p].last => \A d \in Events : d <= e => Duplicate(file', d)
    <3>. SUFFICES ASSUME e <= proc[p].last, NEW d \in Events, d <= e
                  PROVE  Duplicate(file', d)
      OBVIOUS
    <3>1. d \in Int /\ e \in Int
      BY <1>2, EventFacts
    <3>2. CASE d = e
      <4>1. Duplicate(Recorded(file, e), e)
        BY <2>1, RecordedKnown DEF KnownInv, SyncInv, TypeOK
      <4>. QED BY <2>1, <3>2, <4>1
    <3>3. CASE d <= e - 1
      BY <2>2, <2>3, <3>3
    <3>. QED BY <3>1, <3>2, <3>3
  <2>5. ASSUME NEW c \in Convs PROVE KnownTo(file[c].cursor)'
    <3>1. CASE file'[c].cursor = file[c].cursor
      <4>1. KnownTo(file[c].cursor)
        BY <2>1 DEF KnownInv
      <4>. QED BY <2>2, <3>1, <4>1 DEF KnownTo, Duplicate
    <3>2. CASE file'[c].cursor = e /\ e <= proc[p].last
      BY <2>4, <3>2 DEF KnownTo, Duplicate
    <3>. QED BY <1>7, <3>1, <3>2, IntactCursor
  <2>6. ASSUME NEW q \in Procs \ {p} PROVE KnownBy(q)'
    <3>1. KnownBy(q)
      BY <2>1 DEF KnownInv
    <3>. QED BY <1>3, <2>2, <3>1 DEF KnownBy, KnownTo, Duplicate
  <2>7. KnownBy(p)'
    <3>1. CASE e > proc[p].last
      <4>1. proc'[p].at \in {"idle", "done"}
        BY <1>1, <3>1 DEF Ended
      <4>. QED BY <4>1 DEF KnownBy
    <3>2. CASE ~(e > proc[p].last)
      <4>1. /\ proc'[p].at = "next" /\ proc'[p].next = e + 1
        BY <1>1, <3>2 DEF SyncInv, TypeOK, ProcState
      <4>2. e <= proc[p].last
        BY <1>2, <3>2
      <4>3. \A d \in Events : d <= proc'[p].next - 1 => Duplicate(file', d)
        <5>1. proc'[p].next - 1 = e
          BY <1>2, <4>1
        <5>. QED BY <2>4, <4>2, <5>1
      <4>. QED BY <4>1, <4>3, AtNext
    <3>. QED BY <3>1, <3>2
  <2>. QED BY <2>5, <2>6, <2>7
<1>. QED BY <1>5, <1>6, <1>7 DEF KnownInv, SideBySide

LEMMA KnownInit == ASSUME Init PROVE KnownInv
<1>1. \A c \in Convs : Empty[c].cursor = 0
  BY DEF Empty, Nothing
<1>. QED BY <1>1, EmptyKnown, SyncAssumption
         DEF Init, KnownInv, KnownBy, KnownTo, Events

LEMMA KnownNext == ASSUME SyncInv, KnownInv, [Next]_vars PROVE KnownInv'
<1>1. CASE UNCHANGED vars \/ Publish
  BY <1>1 DEF vars, Publish, KnownInv, KnownBy, KnownTo, SideBySide, Duplicate
<1>2. ASSUME NEW p \in Procs, Step(p) PROVE KnownInv'
  BY <1>2, ReceiveKnown, TakeKnown, FetchOpenKnown, FinishKnown, WriteKnown, FailKnown
     DEF Step
<1>. QED BY <1>1, <1>2, PollKnown DEF Next

\* A cursor never goes back, unless an update of the file was lost or an id
\* dropped.
THEOREM CursorsAdvance == Spec => CursorNeverRollsBack
<1>1. Init => SyncInv /\ KnownInv
  BY SyncInvInit, KnownInit
<1>2. (SyncInv /\ KnownInv) /\ [Next]_vars => (SyncInv /\ KnownInv)'
  BY SyncInvNext, KnownNext
<1>3. (SyncInv /\ KnownInv) /\ [Next]_vars =>
        [intact' => \A c \in Convs : file'[c].cursor >= file[c].cursor]_vars
  <2>. SUFFICES ASSUME SyncInv, KnownInv, [Next]_vars, intact', NEW c \in Convs
                PROVE  file'[c].cursor >= file[c].cursor
    OBVIOUS
  <2>1. CASE file' = file
    <3>1. file[c] \in Conversation
      BY DEF SyncInv, TypeOK, FileState
    <3>2. file[c].cursor \in Int
      BY <3>1, SyncAssumption DEF Conversation, Events
    <3>. QED BY <2>1, <3>2
  <2>2. CASE \E p \in Procs : Write(p)
    BY <2>2, IntactCursor
  <2>3. Next => file' = file \/ \E p \in Procs : Write(p)
    BY DEF Next, Step, Poll, Receive, Take, Fetch, Finish, Open, Fail, Kill, Publish
  <2>. QED BY <2>1, <2>2, <2>3 DEF vars
<1>. QED BY <1>1, <1>2, <1>3, PTL DEF Spec, CursorNeverRollsBack

-----------------------------------------------------------------------------
(***************************************************************************)
(* Only repeats wedge.                                                     *)
(***************************************************************************)

\* The only id that recording an event adds is its own, and then the cursor
\* stands at it.
LEMMA RecordedIds ==
  ASSUME NEW f \in FileState, NEW e \in Events, NEW b \in Convs, NEW d,
         Contains(Recorded(f, e)[b].ids, d)
  PROVE  \/ Contains(f[b].ids, d)
         \/ d = e /\ b = ConvOf[e] /\ Recorded(f, e)[b].cursor = e
<1>. DEFINE c == f[ConvOf[e]]
            g == Recorded(f, e)
            seen == IF Duplicate(f, e) THEN c
                    ELSE [c EXCEPT !.cursor = e, !.ids = Appended(@, e),
                                   !.keys = Appended(@, KeyOf[e])]
            kept == IF e \notin Bodies THEN seen
                    ELSE [seen EXCEPT !.bodyIds = Appended(@, e),
                                      !.bodyKeys = Appended(@, KeyOf[e])]
<1>0. ConvOf[e] \in Convs /\ c \in Conversation /\ c.ids \in Seq(Events)
  BY EventFacts DEF FileState, Conversation
<1>1. \/ seen.ids = c.ids
      \/ seen.ids = Appended(c.ids, e) /\ seen.cursor = e
  BY <1>0 DEF Conversation
<1>2. kept.cursor = seen.cursor /\ kept.ids = seen.ids
  <2>1. \E v, w, k, l, m : seen = [cursor |-> v, ids |-> w, keys |-> k,
                                   bodyIds |-> l, bodyKeys |-> m]
    BY <1>0 DEF Conversation
  <2>. HIDE DEF seen
  <2>. QED BY <2>1
<1>3. IF b = ConvOf[e] THEN g[b] = kept ELSE g[b] = f[b]
  <2>1. g = [f EXCEPT ![ConvOf[e]] = kept]
    BY DEF Recorded
  <2>. HIDE DEF kept, seen
  <2>. QED BY <1>0, <2>1 DEF FileState
<1>. HIDE DEF seen, kept
<1>4. CASE b = ConvOf[e] /\ seen.ids = Appended(c.ids, e) /\ seen.cursor = e
  <2>1. Contains(Appended(c.ids, e), d) /\ g[b].cursor = e
    BY <1>2, <1>3, <1>4
  <2>2. Contains(c.ids, d) \/ d = e
    BY <1>0, <2>1, AppendedFacts
  <2>. QED BY <1>4, <2>1, <2>2
<1>. QED BY <1>1, <1>2, <1>3, <1>4

LEMMA WriteSeen ==
  ASSUME SyncInv, KnownInv, SeenInv, NEW p \in Procs, Write(p)
  PROVE  SeenInv'
<1>. SUFFICES ASSUME intact', NEW c \in Convs, NEW d \in Events,
                     Contains(file'[c].ids, d)
              PROVE  ConvOf[d] = c /\ d <= file'[c].cursor
  BY DEF SeenInv
<1>1. /\ file[c].cursor \in Int /\ file'[c].cursor \in Int /\ d \in Int
      /\ file[c].cursor <= file'[c].cursor
  <2>1. file[c] \in Conversation /\ file'[c] \in Conversation
    BY IntactWrite DEF SyncInv, TypeOK, FileState
  <2>2. file'[c].cursor >= file[c].cursor
    BY IntactCursor
  <2>. QED BY <2>1, <2>2, EventFacts, SyncAssumption DEF Conversation, Events
<1>2. CASE Contains(file[c].ids, d)
  <2>1. ConvOf[d] = c /\ d <= file[c].cursor
    BY <1>2, IntactWrite DEF SeenInv
  <2>. QED BY <1>1, <2>1
<1>3. CASE ~Contains(file[c].ids, d)
  <2>1. /\ proc[p].next \in Int /\ proc[p].last \in Int
        /\ file \in FileState
    BY SyncAssumption DEF SyncInv, TypeOK, ProcState
  <2>2. ~(proc[p].next > proc[p].last)
    BY <1>3, IntactWrite DEF Written
  <2>3. proc[p].next \in Events /\ file' = Recorded(file, proc[p].next)
    BY <2>1, <2>2, IntactWrite
  <2>4. /\ d = proc[p].next /\ c = ConvOf[d]
        /\ file'[c].cursor = d
    BY <1>3, <2>1, <2>3, RecordedIds
  <2>. QED BY <1>1, <2>4
<1>. QED BY <1>2, <1>3

LEMMA SeenNext ==
  ASSUME SyncInv, KnownInv, SeenInv, [Next]_vars
  PROVE  SeenInv'
<1>1. CASE UNCHANGED <<file, intact>>
  BY <1>1 DEF SeenInv
<1>2. ASSUME NEW p \in Procs, Kill(p)
      PROVE  SeenInv'
  BY <1>2 DEF Kill, SeenInv, SyncInv, TypeOK
<1>3. UNCHANGED <<file, intact>> \/ \E p \in Procs : Write(p) \/ Kill(p)
  BY DEF Next, Step, vars, Poll, Receive, Take, Fetch, Finish, Open, Fail, Publish
<1>. QED BY <1>1, <1>2, <1>3, WriteSeen

LEMMA SeenWedges ==
  ASSUME SyncInv, KnownInv, SeenInv
  PROVE  OnlyRepeatsWedge
<1>. SUFFICES ASSUME intact, NEW n \in 0 .. published, WedgedAt(n),
                     NEW e \in n + 1 .. n + Limit
              PROVE  \E d \in 1 .. n : ConvOf[d] = ConvOf[e] /\ KeyOf[d] = KeyOf[e]
  BY DEF OnlyRepeatsWedge
<1>1. n \in Int /\ published \in 0 .. MaxEvents
  BY SyncAssumption DEF SyncInv, TypeOK, Events
<1>2. e \in Events /\ e > n /\ Duplicate(file, e)
  BY <1>1, SyncAssumption DEF WedgedAt, Events
<1>. DEFINE c == ConvOf[e]
<1>3. c \in Convs /\ file[c] \in Conversation /\ file[c].cursor <= n
  BY <1>2, EventFacts DEF WedgedAt, IsAccountCursor, SyncInv, TypeOK, FileState
<1>4. \A d \in Events : Contains(file[c].ids, d) => ConvOf[d] = c /\ d \in 1 .. n
  <2>1. \A d \in Events : Contains(file[c].ids, d) =>
          ConvOf[d] = c /\ d <= file[c].cursor
    BY <1>3 DEF SeenInv
  <2>2. file[c].cursor \in Int /\ \A d \in Events : d \in Int /\ d >= 1
    BY <1>3, SyncAssumption DEF Conversation, Events
  <2>. HIDE DEF c
  <2>. QED BY <1>1, <1>3, <2>1, <2>2
<1>. HIDE DEF c
<1>5. Contains(file[c].keys, KeyOf[e])
  BY <1>1, <1>2, <1>4 DEF Duplicate, c
<1>6. PICK i \in 1 .. Len(file[c].keys) : file[c].keys[i] = KeyOf[e]
  BY <1>5 DEF Contains
<1>7. /\ i \in 1 .. Len(file[c].ids) /\ file[c].ids[i] \in Events
      /\ KeyOf[file[c].ids[i]] = KeyOf[e]
  BY <1>3, <1>6 DEF KnownInv, SideBySide, Conversation
<1>8. Contains(file[c].ids, file[c].ids[i])
  BY <1>7 DEF Contains
<1>. QED BY <1>4, <1>7, <1>8 DEF c

\* As long as no update of the file is lost and no id dropped, nothing but a page
\* of repeated idempotency keys wedges a receiver.
THEOREM SyncWedgesOnRepeats == Spec => []OnlyRepeatsWedge
<1>1. Init => SyncInv /\ KnownInv /\ SeenInv
  <2>1. ASSUME Init, NEW c \in Convs, NEW e  PROVE ~Contains(file[c].ids, e)
    BY <2>1 DEF Init, Empty, Nothing, Contains
  <2>. QED BY <2>1, SyncInvInit, KnownInit DEF SeenInv
<1>2. (SyncInv /\ KnownInv /\ SeenInv) /\ [Next]_vars => (SyncInv /\ KnownInv /\ SeenInv)'
  BY SyncInvNext, KnownNext, SeenNext
<1>3. SyncInv /\ KnownInv /\ SeenInv => OnlyRepeatsWedge
  BY SeenWedges
<1>. QED BY <1>1, <1>2, <1>3, PTL DEF Spec

-----------------------------------------------------------------------------
(***************************************************************************)
(* SyncReceiver implements InOrderFeed.                                    *)
(***************************************************************************)
FeedStep == [Feed!Next]_(Feed!vars)

LEMMA CursorTypes ==
  ASSUME TypeOK
  PROVE  /\ published \in Nat
         /\ \A c \in Convs : file[c].cursor \in Nat
         /\ \A p \in Procs : /\ proc[p].next \in Nat /\ proc[p].last \in Nat
                             /\ \A c \in Convs : proc[p].copy[c].cursor \in Nat
<1>1. \A f \in FileState : \A c \in Convs : f[c].cursor \in Nat
  BY SyncAssumption DEF FileState, Conversation, Events
<1>. QED BY <1>1, SyncAssumption DEF TypeOK, ProcState, Events

\* What a step of p must keep for PublishedInv.
LEMMA PublishedFrame ==
  ASSUME PublishedInv, NEW p \in Procs, UNCHANGED <<file, published>>,
         \A q \in Procs \ {p} : proc'[q] = proc[q],
         \A c \in Convs : proc'[p].copy[c].cursor <= published,
         proc'[p].last <= published,
         proc'[p].at = "fetching" => proc'[p].next <= proc'[p].last
  PROVE  PublishedInv'
BY DEF PublishedInv

\* Neither the file nor an empty one is ahead.
LEMMA LoadedIsPublished ==
  ASSUME TypeOK, PublishedInv, NEW f \in {file, Empty}, NEW c \in Convs
  PROVE  f[c].cursor <= published
BY CursorTypes DEF PublishedInv, Empty, Nothing

\* Only the event at hand moves a cursor.
LEMMA WrittenIsPublished ==
  ASSUME SyncInv, KnownInv, PublishedInv, NEW p \in Procs, NEW c \in Convs
  PROVE  Written(p)[c].cursor <= published
<1>1. CASE proc[p].next > proc[p].last
  BY <1>1 DEF Written, PublishedInv
<1>2. CASE ~(proc[p].next > proc[p].last)
  <2>1. /\ proc[p].copy \in FileState /\ SideBySide(proc[p].copy)
        /\ proc[p].next \in Events /\ proc[p].next <= proc[p].last
        /\ proc[p].last \in Nat
    BY <1>2, SyncAssumption DEF SyncInv, TypeOK, ProcState, KnownInv, Events
  <2>2. \/ Written(p)[c].cursor = proc[p].copy[c].cursor
        \/ Written(p)[c].cursor = proc[p].next
    BY <1>2, <2>1, RecordedKnown DEF Written
  <2>3. proc[p].copy[c].cursor <= published /\ proc[p].next <= published
    BY <2>1, CursorTypes DEF PublishedInv, SyncInv
  <2>. QED BY <2>2, <2>3
<1>. QED BY <1>1, <1>2

LEMMA PublishedWrite ==
  ASSUME SyncInv, KnownInv, PublishedInv, NEW p \in Procs, Write(p)
  PROVE  PublishedInv'
<1>1. \A c \in Convs : file'[c].cursor <= published
  BY WrittenIsPublished, LoadedIsPublished DEF Write, SyncInv
<1>2. \A q \in Procs \ {p} : /\ proc'[q].at = proc[q].at
                             /\ proc'[q].copy = proc[q].copy
                             /\ proc'[q].next = proc[q].next
                             /\ proc'[q].last = proc[q].last
  BY DEF Write, Outdated, SyncInv, TypeOK, ProcState
<1>3. /\ proc'[p].copy = Empty
      /\ proc'[p].at \in {"idle", "done", "next"}
      /\ proc'[p].last \in {0, proc[p].last}
  BY DEF Write, Ended, SyncInv, TypeOK, ProcState
<1>4. \A c \in Convs : Empty[c].cursor <= published
  BY LoadedIsPublished DEF SyncInv
<1>. QED BY <1>1, <1>2, <1>3, <1>4, CursorTypes DEF PublishedInv, Write, SyncInv

LEMMA PublishedEnd ==
  ASSUME TypeOK, PublishedInv, NEW p \in Procs, End(p), UNCHANGED published,
         file' \in {file, Empty}
  PROVE  PublishedInv'
<1>1. /\ \A q \in Procs \ {p} : proc'[q] = proc[q]
      /\ proc'[p].at \in {"idle", "done"}
      /\ proc'[p].copy = Empty /\ proc'[p].last = 0
  BY DEF End, Ended, TypeOK
<1>2. \A c \in Convs : Empty[c].cursor <= published /\ file'[c].cursor <= published
  BY LoadedIsPublished
<1>. QED BY <1>1, <1>2, CursorTypes DEF PublishedInv

LEMMA PublishedNext ==
  ASSUME SyncInv, KnownInv, PublishedInv, [Next]_vars
  PROVE  PublishedInv'
<1>0. TypeOK
  BY DEF SyncInv
<1>1. CASE UNCHANGED vars
  BY <1>1 DEF vars, PublishedInv
<1>2. CASE Publish
  BY <1>0, <1>2, CursorTypes DEF Publish, PublishedInv
<1>3. ASSUME NEW p \in Procs, Poll(p) \/ Take(p) \/ Finish(p), ~End(p)
      PROVE  PublishedInv'
  <2>1. PICK f \in {file, Empty} :
          \/ \E step \in {"request", "saving"}, b \in BOOLEAN :
               \/ proc' = [proc EXCEPT ![p].at = step, ![p].copy = f]
               \/ proc' = [proc EXCEPT ![p].at = step, ![p].copy = f, ![p].fresh = b]
          \/ /\ proc[p].next <= proc[p].last
             /\ \E b \in BOOLEAN :
                  proc' = [proc EXCEPT ![p].at = "fetching", ![p].copy = f, ![p].fresh = b]
          \/ proc[p].at = "next" /\ proc' = [proc EXCEPT ![p].next = @ + 1]
    BY <1>3 DEF Poll, Take, Finish, Misread
  <2>2. /\ \A q \in Procs \ {p} : proc'[q] = proc[q]
        /\ proc'[p].last = proc[p].last
        /\ proc'[p].copy \in {f, proc[p].copy}
        /\ proc'[p].at = "fetching" => proc'[p].next <= proc'[p].last
    BY <1>0, <2>1 DEF TypeOK, ProcState
  <2>3. UNCHANGED <<file, published>>
    BY <1>3 DEF Poll, Take, Finish
  <2>4. \A c \in Convs : proc'[p].copy[c].cursor <= published
    BY <1>0, <2>2, LoadedIsPublished DEF PublishedInv
  <2>. QED BY <2>2, <2>3, <2>4, PublishedFrame DEF PublishedInv
<1>4. ASSUME NEW p \in Procs, Receive(p)  PROVE PublishedInv'
  <2>1. PICK first \in 1 .. published + 1 :
          proc' = [proc EXCEPT ![p].at = "next", ![p].copy = Empty, ![p].next = first,
             ![p].last = IF first + Limit - 1 < published THEN first + Limit - 1
                         ELSE published]
    BY <1>4 DEF Receive
  <2>2. /\ \A q \in Procs \ {p} : proc'[q] = proc[q]
        /\ proc'[p].at = "next" /\ proc'[p].copy = Empty
        /\ proc'[p].last = IF first + Limit - 1 < published THEN first + Limit - 1
                           ELSE published
    BY <1>0, <2>1 DEF TypeOK, ProcState
  <2>3. proc'[p].last <= published
    BY <1>0, <2>2, CursorTypes, SyncAssumption
  <2>4. \A c \in Convs : proc'[p].copy[c].cursor <= published
    BY <1>0, <2>2, LoadedIsPublished
  <2>. QED BY <1>4, <2>2, <2>3, <2>4, PublishedFrame DEF Receive
<1>5. ASSUME NEW p \in Procs, Fetch(p) \/ Open(p)  PROVE PublishedInv'
  <2>1. /\ \A q \in Procs \ {p} : proc'[q] = proc[q]
        /\ proc'[p].at \in {"saving", "writing"} /\ proc'[p].copy = proc[p].copy
        /\ proc'[p].last = proc[p].last
    BY <1>0, <1>5 DEF Fetch, Open, TypeOK, ProcState
  <2>. QED BY <1>5, <2>1, PublishedFrame DEF Fetch, Open, PublishedInv
<1>6. ASSUME NEW p \in Procs, Fail(p) \/ Kill(p) \/ (Finish(p) /\ End(p))
      PROVE  PublishedInv'
  <2>1. End(p) /\ UNCHANGED published /\ file' \in {file, Empty}
    BY <1>6 DEF Fail, Kill, Finish
  <2>. QED BY <1>0, <2>1, PublishedEnd
<1>7. ASSUME NEW p \in Procs, Poll(p) \/ Take(p)  PROVE ~End(p)
  <2>1. proc'[p].at \notin {"idle", "done"}
    BY <1>0, <1>7 DEF Poll, Take, TypeOK, ProcState
  <2>. QED BY <1>0, <2>1 DEF End, Ended, TypeOK
<1>. QED BY <1>1, <1>2, <1>3, <1>4, <1>5, <1>6, <1>7, PublishedWrite DEF Next, Step

-----------------------------------------------------------------------------
\* An honest file says of its cursors what the feed asks for.
LEMMA HonestArrived ==
  ASSUME SyncInv', UNCHANGED got, NEW c \in Convs
  PROVE  Feed!ArrivedTo(file'[c].cursor)
BY DEF SyncInv, Honest, Covered, Received, Feed!ArrivedTo

LEMMA QuietFeed ==
  ASSUME UNCHANGED <<published, file, got, intact>>
  PROVE  FeedStep
BY DEF FeedStep, Feed!vars

\* Whatever becomes of the file, it is not ahead of what has arrived.
LEMMA LossIsDamage ==
  ASSUME SyncInv', PublishedInv', UNCHANGED <<published, got>>, intact' = FALSE
  PROVE  FeedStep
<1>1. \A c \in Convs : file'[c].cursor \in 0 .. published
  BY CursorTypes DEF SyncInv, PublishedInv, TypeOK, FileState, Conversation, Events
<1>2. Feed!Damage
  BY <1>1, HonestArrived DEF Feed!Damage
<1>. QED BY <1>2 DEF FeedStep, Feed!Next

\* A write made from what the file holds records the event at hand.
LEMMA WriteIsRecord ==
  ASSUME SyncInv, KnownInv, PublishedInv, NEW p \in Procs, Write(p), intact', SyncInv'
  PROVE  FeedStep
<1>1. UNCHANGED <<published, got, intact>>
  BY IntactWrite DEF Write, SyncInv, TypeOK
<1>2. CASE \A c \in Convs : file'[c].cursor = file[c].cursor
  BY <1>1, <1>2 DEF FeedStep, Feed!vars
<1>3. ASSUME NEW c \in Convs, file'[c].cursor # file[c].cursor
      PROVE  FeedStep
  <2>1. proc[p].next \in Nat /\ proc[p].last \in Nat /\ published \in Nat
    BY CursorTypes DEF SyncInv
  <2>2. /\ file'[c].cursor = proc[p].next
        /\ proc[p].next <= proc[p].last
        /\ file[c].cursor < proc[p].next
    BY <1>3, <2>1, IntactCursor, CursorTypes DEF SyncInv
  <2>3. PICK e \in Events : e = proc[p].next /\ file' = Recorded(file, e)
    BY <2>2, IntactWrite
  <2>4. \A d \in Convs : file'[d].cursor = file[d].cursor \/ d = ConvOf[e]
    BY <2>3, RecordedKnown DEF SyncInv, TypeOK, KnownInv
  <2>5. c = ConvOf[e]
    BY <1>3, <2>4
  <2>6. [d \in Convs |-> file'[d].cursor] =
          [[d \in Convs |-> file[d].cursor] EXCEPT ![ConvOf[e]] = e]
    BY <2>2, <2>3, <2>4, <2>5
  <2>7. e <= published
    BY <2>1, <2>2, <2>3 DEF PublishedInv
  <2>8. Feed!ArrivedTo(e)
    BY <1>1, <2>2, <2>3, HonestArrived
  <2>9. Feed!Record(e)
    BY <1>1, <2>2, <2>3, <2>5, <2>6, <2>7, <2>8 DEF Feed!Record
  <2>. QED BY <2>9 DEF FeedStep, Feed!Next
<1>. QED BY <1>2, <1>3

LEMMA StepIsOfFeed ==
  ASSUME SyncInv, KnownInv, PublishedInv, [Next]_vars
  PROVE  FeedStep
<1>0. SyncInv' /\ PublishedInv'
  BY SyncInvNext, PublishedNext
<1>1. ASSUME NEW p \in Procs, Write(p)  PROVE FeedStep
  <2>1. CASE intact'
    BY <1>0, <1>1, <2>1, WriteIsRecord
  <2>2. CASE intact' = FALSE
    BY <1>0, <1>1, <2>2, LossIsDamage DEF Write
  <2>. QED BY <1>1, <2>1, <2>2, WriteKeepsBoolean
<1>2. ASSUME NEW p \in Procs, Kill(p)  PROVE FeedStep
  <2>1. CASE Writing(p)
    BY <1>0, <1>2, <2>1, LossIsDamage DEF Kill
  <2>2. CASE ~Writing(p)
    BY <1>2, <2>2, QuietFeed DEF Kill, SyncInv, TypeOK
  <2>. QED BY <2>1, <2>2
<1>3. ASSUME NEW p \in Procs, Fetch(p)  PROVE FeedStep
  <2>1. proc[p].next \in Bodies /\ proc[p].next <= published
    BY <1>3, CursorTypes DEF Fetch, SyncInv, PassesOverNothing, PublishedInv
  <2>2. Feed!Arrive(proc[p].next)
    BY <1>3, <2>1 DEF Fetch, Feed!Arrive
  <2>. QED BY <2>1, <2>2 DEF FeedStep, Feed!Next
<1>4. CASE Publish
  <2>1. Feed!Publish
    BY <1>4 DEF Publish, Feed!Publish
  <2>. QED BY <2>1 DEF FeedStep, Feed!Next
<1>5. ASSUME NEW p \in Procs,
             Poll(p) \/ Receive(p) \/ Take(p) \/ Finish(p) \/ Open(p) \/ Fail(p)
      PROVE  FeedStep
  BY <1>5, QuietFeed DEF Poll, Receive, Take, Finish, Open, Fail
<1>6. CASE UNCHANGED vars
  BY <1>6, QuietFeed DEF vars
<1>. QED BY <1>1, <1>2, <1>3, <1>4, <1>5, <1>6 DEF Next, Step

\* An account is read in order, by any number of invocations that overlap, fail
\* and are killed: a cursor is set to a published event before which no body is
\* missing, one at a time and forward until the file is damaged, and afterwards
\* still never past what has arrived.
THEOREM SyncReadsInOrder == Spec => ReadsInOrder
<1>1. Init => SyncInv /\ KnownInv /\ PublishedInv
  <2>1. ASSUME Init  PROVE PublishedInv
    BY <2>1, EmptyFacts DEF Init, PublishedInv, Empty, Nothing
  <2>. QED BY <2>1, SyncInvInit, KnownInit
<1>2. (SyncInv /\ KnownInv /\ PublishedInv) /\ [Next]_vars =>
        (SyncInv /\ KnownInv /\ PublishedInv)'
  BY SyncInvNext, KnownNext, PublishedNext
<1>3. Init => Feed!Init
  BY DEF Init, Feed!Init, Empty, Nothing
<1>4. (SyncInv /\ KnownInv /\ PublishedInv) /\ [Next]_vars => FeedStep
  BY StepIsOfFeed
<1>. QED BY <1>1, <1>2, <1>3, <1>4, PTL
         DEF Spec, ReadsInOrder, Feed!Spec, FeedStep
=============================================================================
