----------------------------- MODULE RelayProofs -----------------------------
(***************************************************************************)
(* Relay for any number of nodes, connections, clients and ids: TypeOK and *)
(* RelayInv are inductive together.  A handler's future, its entry under   *)
(* the id and its message on the wire determine one another: that is what  *)
(* each step has to keep, and what the promises follow from.               *)
(***************************************************************************)
EXTENDS Relay, FiniteSetTheorems, SequenceTheorems, TLAPS

LEMMA RelayConstants ==
  /\ NoNode \notin Nodes /\ NoConn \notin Conns /\ NoClient \notin Clients
  /\ NoId \notin Ids /\ NoMsg \notin Messages
  /\ MaxPending \in Nat \ {0} /\ MaxRequests \in Nat
BY RelayAssumption, MessageAssumption

\* Pairing touches nothing the invariant speaks of but its own variables.
Quiet ==
  /\ offers' \in SUBSET Nodes /\ sessions' \in SUBSET Nodes
  /\ offer' \in [Conns -> {"none", "made", "over"}]
  /\ UNCHANGED <<conns, traffic, pc, session>>

\* The steps of the relay, with those of pairing taken together.
LEMMA RelaySteps ==
  ASSUME TypeOK, RelayInv, [Next]_vars
  PROVE  \/ Quiet
         \/ \E h \in Conns, n \in Nodes : Connect(h, n)
         \/ \E h \in Conns : Lose(h) \/ Cleanup(h) \/ Respond(h)
         \/ \E c \in Clients, n \in Nodes : Attach(c, n)
         \/ \E c \in Clients, i \in Ids : Request(c, i)
         \/ \E c \in Clients : Send(c) \/ TimeOut(c) \/ HangUp(c)
         \/ \E c \in Clients, l \in {"ready", "gone"} : InFlight(c) /\ Done(c, l)
<1>1. ASSUME UNCHANGED vars  PROVE Quiet
  BY <1>1 DEF Quiet, TypeOK, vars, pairing
<1>2. ASSUME NEW h \in Conns, Offer(h)  PROVE Quiet
  <2>1. nodeOf[h] \in Nodes
    BY <1>2 DEF Offer, TypeOK, RelayInv, ConnInv
  <2>. QED BY <1>2, <2>1 DEF Offer, Quiet, TypeOK
<1>3. ASSUME NEW n \in Nodes, Pair(n)  PROVE Quiet
  <2>1. Over(n) \in [Conns -> {"none", "made", "over"}]
    BY DEF Over, TypeOK
  <2>. QED BY <1>3, <2>1 DEF Pair, Quiet, TypeOK
<1>4. ASSUME NEW n \in Nodes, ExpireOffer(n)  PROVE Quiet
  <2>1. Over(n) \in [Conns -> {"none", "made", "over"}]
    BY DEF Over, TypeOK
  <2>. QED BY <1>4, <2>1 DEF ExpireOffer, Quiet, TypeOK
<1>5. ASSUME NEW n \in Nodes, ExpireSession(n)  PROVE Quiet
  BY <1>5 DEF ExpireSession, Quiet, TypeOK
<1>6. ASSUME NEW c \in Clients, SendFails(c)
      PROVE  \E l \in {"ready", "gone"} : InFlight(c) /\ Done(c, l)
  BY <1>6 DEF SendFails, InFlight
<1>7. ASSUME NEW c \in Clients, Reply(c)
      PROVE  \E l \in {"ready", "gone"} : InFlight(c) /\ Done(c, l)
  BY <1>7 DEF Reply, InFlight
<1>. QED BY <1>1, <1>2, <1>3, <1>4, <1>5, <1>6, <1>7 DEF Next

-----------------------------------------------------------------------------
\* What the sequence operators do to the messages on a wire.
LEMMA WireFacts ==
  ASSUME NEW w \in Seq(Messages), NEW m \in Messages
  PROVE  /\ Append(w, m) \in Seq(Messages)
         /\ \A j \in 1 .. Len(Append(w, m)) :
              Append(w, m)[j] = m \/ \E k \in 1 .. Len(w) : Append(w, m)[j] = w[k]
         /\ w # <<>> =>
              /\ Tail(w) \in Seq(Messages)
              /\ 1 \in 1 .. Len(w) /\ Head(w) = w[1] /\ Head(w) \in Messages
              /\ \A j \in 1 .. Len(Tail(w)) : \E k \in 1 .. Len(w) : Tail(w)[j] = w[k]
         /\ <<>> \in Seq(Messages) /\ Len(<<>>) = 0
<1>1. /\ Append(w, m) \in Seq(Messages)
      /\ Len(Append(w, m)) = Len(w) + 1
      /\ \A j \in 1 .. Len(w) : Append(w, m)[j] = w[j]
      /\ Append(w, m)[Len(w) + 1] = m
  BY AppendProperties
<1>2. Len(w) \in Nat
  BY LenProperties
<1>3. ASSUME w # <<>>
      PROVE  /\ Len(w) \in Nat \ {0} /\ Head(w) = w[1] /\ Head(w) \in Messages
             /\ Tail(w) \in Seq(Messages) /\ Len(Tail(w)) = Len(w) - 1
             /\ \A j \in 1 .. Len(Tail(w)) : Tail(w)[j] = w[j + 1]
  BY <1>3, HeadTailProperties, EmptySeq, LenProperties
<1>4. ASSUME w # <<>>
      PROVE  \A j \in 1 .. Len(Tail(w)) : \E k \in 1 .. Len(w) : Tail(w)[j] = w[k]
  <2>1. ASSUME NEW j \in 1 .. Len(Tail(w))
        PROVE  j + 1 \in 1 .. Len(w) /\ Tail(w)[j] = w[j + 1]
    BY <1>2, <1>3, <1>4, <2>1
  <2>. QED BY <2>1
<1>5. \A j \in 1 .. Len(Append(w, m)) : j = Len(w) + 1 \/ j \in 1 .. Len(w)
  BY <1>1, <1>2
<1>. QED BY <1>1, <1>2, <1>3, <1>4, <1>5, EmptySeq

LEMMA MessageType ==
  ASSUME TypeOK, NEW c \in Clients, reqId[c] \in Ids
  PROVE  Message(c) \in Messages
BY DEF Message, Messages, TypeOK

\* What the end of a request does.
LEMMA DoneFacts ==
  ASSUME TypeOK, RelayInv, NEW c \in Clients, NEW l \in {"ready", "gone"},
         InFlight(c), Done(c, l)
  PROVE  /\ via[c] \in Conns /\ reqId[c] \in Ids /\ session[c] \in Nodes
         /\ pending' \in [Conns -> [Ids -> Clients \cup {NoClient}]]
         /\ \A h \in Conns, i \in Ids :
              pending'[h][i] = IF pending[h][i] = c THEN NoClient ELSE pending[h][i]
         /\ pc' = [pc EXCEPT ![c] = l]
         /\ via' = [via EXCEPT ![c] = NoConn]
         /\ reqId' = [reqId EXCEPT ![c] = NoId]
         /\ fut' = [fut EXCEPT ![c] = "none"]
         /\ held' = [held EXCEPT ![c] = NoMsg]
         /\ UNCHANGED <<pairing, conns, wire, nth, used, session>>
<1>1. via[c] \in Conns /\ reqId[c] \in Ids /\ session[c] \in Nodes
  BY DEF RelayInv, HandlerInv
<1>2. \A h \in Conns, i \in Ids : pending[h][i] = c => h = via[c] /\ i = reqId[c]
  BY DEF RelayInv, PendingInv
<1>3. pending' = [pending EXCEPT ![via[c]][reqId[c]] = IF @ = c THEN NoClient ELSE @]
  BY DEF Done, PopOwn
<1>. QED BY <1>1, <1>2, <1>3 DEF Done, TypeOK

\* What an answer m does.
Answers(h, m) ==
  /\ wire[h] # <<>>
  /\ 1 \in 1 .. Len(wire[h]) /\ wire[h][1] = m
  /\ link[h] \in {"up", "lost"}
  /\ m.id \in Ids
  /\ wire' = [wire EXCEPT ![h] = Tail(@)]
  /\ pending' = [pending EXCEPT ![h][m.id] = NoClient]
  /\ \/ /\ pending[h][m.id] \in Clients /\ fut[pending[h][m.id]] = "pending"
        /\ fut' = [fut EXCEPT ![pending[h][m.id]] = "answered"]
        /\ held' = [held EXCEPT ![pending[h][m.id]] = m]
     \/ /\ \A c \in Clients : pending[h][m.id] = c => fut[c] # "pending"
        /\ UNCHANGED <<fut, held>>
  /\ UNCHANGED <<pairing, conns, via, reqId, nth, used, pc, session>>

LEMMA RespondFacts ==
  ASSUME TypeOK, RelayInv, NEW h \in Conns, Respond(h)
  PROVE  \E m \in Messages : Answers(h, m)
<1>1. wire[h] \in Seq(Messages) /\ wire[h] # <<>>
  BY DEF Respond, TypeOK
<1>2. Head(wire[h]) \in Messages /\ 1 \in 1 .. Len(wire[h]) /\ wire[h][1] = Head(wire[h])
  BY <1>1, WireFacts
<1>3. Head(wire[h]).id \in Ids
  BY <1>2 DEF Messages
<1>4. pending[h][Head(wire[h]).id] \in Clients \cup {NoClient}
  BY <1>3 DEF TypeOK
<1>. QED BY <1>1, <1>2, <1>3, <1>4, RelayConstants DEF Respond, Awaiting, Answers

\* What a request does that is forwarded over h.
Forwards(c, i, h) ==
  /\ h = nodes[session[c]] /\ session[c] \in Nodes
  /\ Accepts(h, i)
  /\ pending' = [pending EXCEPT ![h][i] = c]
  /\ via' = [via EXCEPT ![c] = h]
  /\ reqId' = [reqId EXCEPT ![c] = i]
  /\ fut' = [fut EXCEPT ![c] = "pending"]
  /\ pc' = [pc EXCEPT ![c] = "sending"]

\* One that is refused uses up its id all the same.
LEMMA RequestFacts ==
  ASSUME TypeOK, RelayInv, NEW c \in Clients, NEW i \in Ids, Request(c, i)
  PROVE  /\ pc[c] = "ready" /\ fut[c] = "none"
         /\ i \in FreshIds => i \notin used
         /\ used' = used \cup {i} /\ nth' = [nth EXCEPT ![c] = @ + 1]
         /\ UNCHANGED <<pairing, conns, wire, held, session>>
         /\ \/ UNCHANGED <<pending, via, reqId, fut, pc>>
            \/ \E h \in Conns : Forwards(c, i, h)
<1>1. session[c] \in Nodes /\ fut[c] = "none"
  BY DEF Request, RelayInv, HandlerInv, InFlight
<1>2. nodes[session[c]] \in Conns \cup {NoConn}
  BY <1>1 DEF TypeOK
<1>. QED BY <1>1, <1>2 DEF Request, Forwards

-----------------------------------------------------------------------------
LEMMA RelayTypeStep ==
  ASSUME TypeOK, RelayInv, [Next]_vars
  PROVE  TypeOK'
<1>1. CASE Quiet
  BY <1>1 DEF Quiet, TypeOK, conns, traffic
<1>2. ASSUME NEW h \in Conns, NEW n \in Nodes, Connect(h, n)  PROVE TypeOK'
  BY <1>2 DEF Connect, TypeOK, pairing, traffic
<1>3. ASSUME NEW h \in Conns, Lose(h)  PROVE TypeOK'
  BY <1>3 DEF Lose, TypeOK, pairing, traffic
<1>4. ASSUME NEW h \in Conns, Cleanup(h)  PROVE TypeOK'
  <2>1. /\ fut' \in [Clients -> {"none", "pending", "answered", "disconnected", "timedOut"}]
        /\ nodes' \in [Nodes -> Conns \cup {NoConn}]
    BY <1>4 DEF Cleanup, FailPending, Unregister, TypeOK
  <2>2. wire' \in [Conns -> Seq(Messages)]
    BY <1>4, EmptySeq DEF Cleanup, TypeOK
  <2>3. pending' \in [Conns -> [Ids -> Clients \cup {NoClient}]]
    BY <1>4 DEF Cleanup, TypeOK
  <2>. QED BY <1>4, <2>1, <2>2, <2>3 DEF Cleanup, TypeOK
<1>5. ASSUME NEW h \in Conns, Respond(h)  PROVE TypeOK'
  <2>1. PICK m \in Messages : Answers(h, m)
    BY <1>5, RespondFacts
  <2>2. Tail(wire[h]) \in Seq(Messages)
    BY <2>1, WireFacts DEF TypeOK, Answers
  <2>3. pending' \in [Conns -> [Ids -> Clients \cup {NoClient}]]
    BY <2>1 DEF TypeOK, Answers
  <2>. QED BY <2>1, <2>2, <2>3 DEF TypeOK, Answers, pairing, conns
<1>6. ASSUME NEW c \in Clients, NEW n \in Nodes, Attach(c, n)  PROVE TypeOK'
  BY <1>6 DEF Attach, TypeOK, pairing, conns, traffic
<1>7. ASSUME NEW c \in Clients, NEW i \in Ids, Request(c, i)  PROVE TypeOK'
  <2>0. used' = used \cup {i} /\ nth' = [nth EXCEPT ![c] = @ + 1]
    BY <1>7, RequestFacts
  <2>1. used' \in SUBSET Ids /\ nth' \in [Clients -> Nat]
    BY <2>0 DEF TypeOK
  <2>2. UNCHANGED <<pairing, conns, wire, held, session>>
    BY <1>7, RequestFacts
  <2>3. CASE UNCHANGED <<pending, via, reqId, fut, pc>>
    BY <2>1, <2>2, <2>3 DEF TypeOK, pairing, conns
  <2>4. ASSUME NEW h \in Conns, Forwards(c, i, h)  PROVE TypeOK'
    <3>1. pending' \in [Conns -> [Ids -> Clients \cup {NoClient}]]
      BY <2>4 DEF TypeOK, Forwards
    <3>. QED BY <2>1, <2>2, <2>4, <3>1 DEF TypeOK, Forwards, pairing, conns
  <2>. QED BY <1>7, <2>3, <2>4, RequestFacts
<1>8. ASSUME NEW c \in Clients, Send(c)  PROVE TypeOK'
  <2>1. wire' \in [Conns -> Seq(Messages)]
    <3>1. via[c] \in Conns /\ Message(c) \in Messages
      BY <1>8, MessageType DEF Send, RelayInv, HandlerInv, InFlight
    <3>2. wire[via[c]] \in Seq(Messages) /\ Append(wire[via[c]], Message(c)) \in Seq(Messages)
      BY <3>1, WireFacts DEF TypeOK
    <3>. QED BY <1>8, <3>1, <3>2 DEF Send, TypeOK
  <2>. QED BY <1>8, <2>1 DEF Send, TypeOK, pairing, conns
<1>9. ASSUME NEW c \in Clients, TimeOut(c)  PROVE TypeOK'
  BY <1>9 DEF TimeOut, TypeOK, pairing, conns
<1>10. ASSUME NEW c \in Clients, HangUp(c)  PROVE TypeOK'
  BY <1>10 DEF HangUp, TypeOK, pairing, conns, traffic
<1>11. ASSUME NEW c \in Clients, NEW l \in {"ready", "gone"}, InFlight(c), Done(c, l)
      PROVE  TypeOK'
  <2>1. pending' \in [Conns -> [Ids -> Clients \cup {NoClient}]]
    BY <1>11, DoneFacts
  <2>. QED BY <1>11, <2>1 DEF Done, TypeOK, pairing, conns
<1>. QED BY <1>1, <1>2, <1>3, <1>4, <1>5, <1>6, <1>7, <1>8, <1>9, <1>10, <1>11, RelaySteps

-----------------------------------------------------------------------------
\* A handler has a future exactly while it is at a request.
LEMMA HandlerStep ==
  ASSUME TypeOK, RelayInv, TypeOK', [Next]_vars
  PROVE  HandlerInv'
<1>1. CASE Quiet
  BY <1>1, RelayConstants DEF Quiet, conns, traffic, TypeOK, HandlerInv, RelayInv, InFlight
<1>2. ASSUME NEW h \in Conns, NEW n \in Nodes, Connect(h, n)  PROVE HandlerInv'
  BY <1>2, RelayConstants DEF Connect, traffic, TypeOK, HandlerInv, RelayInv, InFlight
<1>3. ASSUME NEW h \in Conns, Lose(h)  PROVE HandlerInv'
  BY <1>3, RelayConstants DEF Lose, traffic, TypeOK, HandlerInv, RelayInv, InFlight
<1>4. ASSUME NEW h \in Conns, Cleanup(h)  PROVE HandlerInv'
  BY <1>4, RelayConstants DEF Cleanup, FailPending, Unregister, TypeOK, HandlerInv, RelayInv, InFlight
<1>5. ASSUME NEW h \in Conns, Respond(h)  PROVE HandlerInv'
  <2>1. PICK m \in Messages : Answers(h, m)
    BY <1>5, RespondFacts
  <2>. QED BY <2>1, RelayConstants DEF Answers, conns, TypeOK, HandlerInv, RelayInv, InFlight
<1>6. ASSUME NEW c \in Clients, NEW n \in Nodes, Attach(c, n)  PROVE HandlerInv'
  BY <1>6, RelayConstants DEF Attach, conns, traffic, TypeOK, HandlerInv, RelayInv, InFlight
<1>7. ASSUME NEW c \in Clients, NEW i \in Ids, Request(c, i)  PROVE HandlerInv'
  <2>0. /\ pc[c] = "ready" /\ fut[c] = "none"
        /\ nodes' = nodes /\ link' = link /\ nodeOf' = nodeOf /\ session' = session
    BY <1>7, RequestFacts DEF conns
  <2>1. CASE UNCHANGED <<pending, via, reqId, fut, pc>>
    BY <2>0, <2>1 DEF HandlerInv, RelayInv, InFlight
  <2>2. ASSUME NEW h \in Conns, Forwards(c, i, h)  PROVE HandlerInv'
    <3>1. /\ pc' = [pc EXCEPT ![c] = "sending"] /\ fut' = [fut EXCEPT ![c] = "pending"]
          /\ via' = [via EXCEPT ![c] = h] /\ reqId' = [reqId EXCEPT ![c] = i]
          /\ session[c] \in Nodes
      BY <2>2 DEF Forwards
    <3>. QED BY <2>0, <3>1 DEF HandlerInv, RelayInv, InFlight, TypeOK
  <2>. QED BY <1>7, <2>1, <2>2, RequestFacts
<1>8. ASSUME NEW c \in Clients, Send(c)  PROVE HandlerInv'
  BY <1>8, RelayConstants DEF Send, conns, TypeOK, HandlerInv, RelayInv, InFlight
<1>9. ASSUME NEW c \in Clients, TimeOut(c)  PROVE HandlerInv'
  BY <1>9, RelayConstants DEF TimeOut, conns, TypeOK, HandlerInv, RelayInv, InFlight
<1>10. ASSUME NEW c \in Clients, HangUp(c)  PROVE HandlerInv'
  BY <1>10, RelayConstants DEF HangUp, conns, traffic, TypeOK, HandlerInv, RelayInv, InFlight
<1>11. ASSUME NEW c \in Clients, NEW l \in {"ready", "gone"}, InFlight(c), Done(c, l)
       PROVE  HandlerInv'
  BY <1>11, DoneFacts, RelayConstants DEF conns, TypeOK, HandlerInv, RelayInv, InFlight
<1>. QED BY <1>1, <1>2, <1>3, <1>4, <1>5, <1>6, <1>7, <1>8, <1>9, <1>10, <1>11, RelaySteps

\* Entries and pending futures stay matched: an entry is only made where none is,
\* removed by its own request, by its answer, or with all of its connection.
LEMMA PendingStep ==
  ASSUME TypeOK, RelayInv, TypeOK', [Next]_vars
  PROVE  PendingInv'
<1>1. CASE Quiet
  BY <1>1, RelayConstants DEF Quiet, conns, traffic, TypeOK, PendingInv, RelayInv, InFlight, WaitingIsPending
<1>2. ASSUME NEW h \in Conns, NEW n \in Nodes, Connect(h, n)  PROVE PendingInv'
  BY <1>2, RelayConstants DEF Connect, traffic, TypeOK, PendingInv, RelayInv, InFlight, WaitingIsPending
<1>3. ASSUME NEW h \in Conns, Lose(h)  PROVE PendingInv'
  BY <1>3, RelayConstants DEF Lose, traffic, TypeOK, PendingInv, RelayInv, InFlight, WaitingIsPending
<1>4. ASSUME NEW h \in Conns, Cleanup(h)  PROVE PendingInv'
  <2>1. /\ via' = via /\ reqId' = reqId
        /\ pending' = [pending EXCEPT ![h] = [i \in Ids |-> NoClient]]
    BY <1>4 DEF Cleanup
  <2>2. \A c \in Clients :
          fut'[c] = IF fut[c] = "pending" /\ \E i \in Ids : pending[h][i] = c
                    THEN "disconnected" ELSE fut[c]
    BY <1>4 DEF Cleanup, FailPending
  <2>3. ASSUME NEW g \in Conns, NEW j \in Ids, NEW d \in Clients, pending'[g][j] = d
        PROVE  via'[d] = g /\ reqId'[d] = j /\ fut'[d] \in {"pending", "timedOut"}
    <3>1. g # h /\ pending[g][j] = d
      BY <2>1, <2>3, RelayConstants DEF TypeOK
    <3>2. via[d] = g /\ reqId[d] = j /\ fut[d] \in {"pending", "timedOut"}
      BY <3>1 DEF PendingInv, RelayInv
    <3>3. \A i \in Ids : pending[h][i] # d
      BY <3>1, <3>2 DEF PendingInv, RelayInv
    <3>. QED BY <2>1, <2>2, <3>2, <3>3
  <2>4. ASSUME NEW d \in Clients, fut'[d] = "pending"
        PROVE  pending'[via'[d]][reqId'[d]] = d
    <3>1. fut[d] = "pending" /\ \A i \in Ids : pending[h][i] # d
      BY <2>2, <2>4
    <3>2. via[d] \in Conns /\ reqId[d] \in Ids /\ pending[via[d]][reqId[d]] = d
      BY <3>1 DEF PendingInv, HandlerInv, RelayInv, WaitingIsPending
    <3>3. via[d] # h
      BY <3>1, <3>2
    <3>. QED BY <2>1, <3>2, <3>3 DEF TypeOK
  <2>. QED BY <2>3, <2>4 DEF PendingInv, WaitingIsPending
<1>5. ASSUME NEW h \in Conns, Respond(h)  PROVE PendingInv'
  <2>1. PICK m \in Messages : Answers(h, m)
    BY <1>5, RespondFacts
  <2>2. /\ m.id \in Ids /\ via' = via /\ reqId' = reqId
        /\ \A g \in Conns, j \in Ids :
             pending'[g][j] = IF g = h /\ j = m.id THEN NoClient ELSE pending[g][j]
    BY <2>1 DEF Answers, TypeOK
  <2>3. \A d \in Clients :
          \/ fut'[d] = fut[d] /\ ~(pending[h][m.id] = d /\ fut[d] = "pending")
          \/ pending[h][m.id] = d /\ fut'[d] = "answered"
    <3>1. CASE /\ \A c \in Clients : pending[h][m.id] = c => fut[c] # "pending"
               /\ UNCHANGED <<fut, held>>
      BY <3>1
    <3>2. CASE /\ pending[h][m.id] \in Clients
               /\ fut' = [fut EXCEPT ![pending[h][m.id]] = "answered"]
      BY <3>2 DEF TypeOK
    <3>. QED BY <2>1, <3>1, <3>2 DEF Answers
  <2>4. ASSUME NEW g \in Conns, NEW j \in Ids, NEW d \in Clients, pending'[g][j] = d
        PROVE  via'[d] = g /\ reqId'[d] = j /\ fut'[d] \in {"pending", "timedOut"}
    <3>1. pending[g][j] = d /\ ~(g = h /\ j = m.id)
      BY <2>2, <2>4, RelayConstants
    <3>2. via[d] = g /\ reqId[d] = j /\ fut[d] \in {"pending", "timedOut"}
      BY <3>1 DEF PendingInv, RelayInv
    <3>3. pending[h][m.id] # d
      BY <2>2, <3>1, <3>2 DEF PendingInv, RelayInv
    <3>. QED BY <2>2, <2>3, <3>2, <3>3
  <2>5. ASSUME NEW d \in Clients, fut'[d] = "pending"
        PROVE  pending'[via'[d]][reqId'[d]] = d
    <3>1. fut[d] = "pending" /\ pending[h][m.id] # d
      BY <2>3, <2>5
    <3>2. via[d] \in Conns /\ reqId[d] \in Ids /\ pending[via[d]][reqId[d]] = d
      BY <3>1 DEF PendingInv, HandlerInv, RelayInv, WaitingIsPending
    <3>. QED BY <2>2, <3>1, <3>2
  <2>. QED BY <2>4, <2>5 DEF PendingInv, WaitingIsPending
<1>6. ASSUME NEW c \in Clients, NEW n \in Nodes, Attach(c, n)  PROVE PendingInv'
  BY <1>6, RelayConstants DEF Attach, conns, traffic, TypeOK, PendingInv, RelayInv, InFlight, WaitingIsPending
<1>7. ASSUME NEW c \in Clients, NEW i \in Ids, Request(c, i)  PROVE PendingInv'
  <2>0. /\ pc[c] = "ready" /\ fut[c] = "none"
        /\ nodes' = nodes /\ link' = link /\ nodeOf' = nodeOf /\ session' = session
    BY <1>7, RequestFacts DEF conns
  <2>1. CASE UNCHANGED <<pending, via, reqId, fut, pc>>
    BY <2>0, <2>1 DEF PendingInv, RelayInv, WaitingIsPending
  <2>2. ASSUME NEW h \in Conns, Forwards(c, i, h)  PROVE PendingInv'
    <3>1. /\ fut' = [fut EXCEPT ![c] = "pending"]
          /\ via' = [via EXCEPT ![c] = h] /\ reqId' = [reqId EXCEPT ![c] = i]
          /\ pending' = [pending EXCEPT ![h][i] = c]
          /\ pending[h][i] = NoClient
      BY <2>2 DEF Forwards, Accepts, InUse
    <3>2. \A g \in Conns, j \in Ids : pending[g][j] # c
      BY <2>0 DEF PendingInv, RelayInv
    <3>3. \A d \in Clients \ {c} :
            fut'[d] = fut[d] /\ via'[d] = via[d] /\ reqId'[d] = reqId[d]
      BY <3>1 DEF TypeOK
    <3>4. \A g \in Conns, j \in Ids :
            pending'[g][j] = IF g = h /\ j = i THEN c ELSE pending[g][j]
      BY <3>1 DEF TypeOK
    <3>5. fut'[c] = "pending" /\ via'[c] = h /\ reqId'[c] = i
      BY <3>1 DEF TypeOK
    <3>6. ASSUME NEW g \in Conns, NEW j \in Ids, NEW d \in Clients, pending'[g][j] = d
          PROVE  via'[d] = g /\ reqId'[d] = j /\ fut'[d] \in {"pending", "timedOut"}
      BY <3>2, <3>3, <3>4, <3>5, <3>6 DEF PendingInv, RelayInv
    <3>7. ASSUME NEW d \in Clients, fut'[d] = "pending"
          PROVE  pending'[via'[d]][reqId'[d]] = d
      <4>1. CASE d = c
        BY <3>4, <3>5, <4>1
      <4>2. CASE d # c
        <5>1. /\ via[d] \in Conns /\ reqId[d] \in Ids /\ pending[via[d]][reqId[d]] = d
          BY <3>3, <3>7, <4>2 DEF PendingInv, HandlerInv, RelayInv, WaitingIsPending
        <5>2. ~(via[d] = h /\ reqId[d] = i)
          BY <3>1, <5>1, RelayConstants
        <5>. QED BY <3>3, <3>4, <4>2, <5>1, <5>2
      <4>. QED BY <4>1, <4>2
    <3>. QED BY <3>6, <3>7 DEF PendingInv, WaitingIsPending
  <2>. QED BY <1>7, <2>1, <2>2, RequestFacts
<1>8. ASSUME NEW c \in Clients, Send(c)  PROVE PendingInv'
  BY <1>8, RelayConstants DEF Send, conns, TypeOK, PendingInv, RelayInv, InFlight, WaitingIsPending
<1>9. ASSUME NEW c \in Clients, TimeOut(c)  PROVE PendingInv'
  BY <1>9, RelayConstants DEF TimeOut, conns, TypeOK, PendingInv, RelayInv, InFlight, WaitingIsPending
<1>10. ASSUME NEW c \in Clients, HangUp(c)  PROVE PendingInv'
  BY <1>10, RelayConstants DEF HangUp, conns, traffic, TypeOK, PendingInv, RelayInv, InFlight, WaitingIsPending
<1>11. ASSUME NEW c \in Clients, NEW l \in {"ready", "gone"}, InFlight(c), Done(c, l)
       PROVE  PendingInv'
  <2>1. /\ via[c] \in Conns /\ reqId[c] \in Ids
        /\ via' = [via EXCEPT ![c] = NoConn] /\ reqId' = [reqId EXCEPT ![c] = NoId]
        /\ fut' = [fut EXCEPT ![c] = "none"]
        /\ \A g \in Conns, j \in Ids :
             pending'[g][j] = IF pending[g][j] = c THEN NoClient ELSE pending[g][j]
    BY <1>11, DoneFacts
  <2>2. /\ fut'[c] = "none"
        /\ \A d \in Clients \ {c} :
             fut'[d] = fut[d] /\ via'[d] = via[d] /\ reqId'[d] = reqId[d]
    BY <2>1 DEF TypeOK
  <2>3. ASSUME NEW g \in Conns, NEW j \in Ids, NEW d \in Clients, pending'[g][j] = d
        PROVE  via'[d] = g /\ reqId'[d] = j /\ fut'[d] \in {"pending", "timedOut"}
    <3>1. pending[g][j] = d /\ d # c
      BY <2>1, <2>3, RelayConstants
    <3>. QED BY <2>2, <3>1 DEF PendingInv, RelayInv
  <2>4. ASSUME NEW d \in Clients, fut'[d] = "pending"
        PROVE  pending'[via'[d]][reqId'[d]] = d
    <3>1. d # c /\ fut[d] = "pending"
      BY <2>2, <2>4
    <3>2. via[d] \in Conns /\ reqId[d] \in Ids /\ pending[via[d]][reqId[d]] = d
      BY <3>1 DEF PendingInv, HandlerInv, RelayInv, WaitingIsPending
    <3>. QED BY <2>1, <2>2, <3>1, <3>2
  <2>. QED BY <2>3, <2>4 DEF PendingInv, WaitingIsPending
<1>. QED BY <1>1, <1>2, <1>3, <1>4, <1>5, <1>6, <1>7, <1>8, <1>9, <1>10, <1>11, RelaySteps

\* A connector has one working socket at most, and cleaning up an earlier one
\* leaves its registration alone.
LEMMA ConnStep ==
  ASSUME TypeOK, RelayInv, TypeOK', [Next]_vars
  PROVE  ConnInv'
<1>1. CASE Quiet
  BY <1>1, RelayConstants DEF Quiet, conns, traffic, TypeOK, ConnInv, RelayInv, InFlight, ConnectedIsReachable
<1>2. ASSUME NEW h \in Conns, NEW n \in Nodes, Connect(h, n)  PROVE ConnInv'
  BY <1>2, RelayConstants DEF Connect, traffic, TypeOK, ConnInv, RelayInv, InFlight, ConnectedIsReachable
<1>3. ASSUME NEW h \in Conns, Lose(h)  PROVE ConnInv'
  BY <1>3, RelayConstants DEF Lose, traffic, TypeOK, ConnInv, RelayInv, InFlight, ConnectedIsReachable
<1>4. ASSUME NEW h \in Conns, Cleanup(h)  PROVE ConnInv'
  BY <1>4, RelayConstants DEF Cleanup, FailPending, Unregister, TypeOK, ConnInv, RelayInv, InFlight, ConnectedIsReachable
<1>5. ASSUME NEW h \in Conns, Respond(h)  PROVE ConnInv'
  <2>1. PICK m \in Messages : Answers(h, m)
    BY <1>5, RespondFacts
  <2>. QED BY <2>1, RelayConstants DEF Answers, conns, TypeOK, ConnInv, RelayInv, InFlight, ConnectedIsReachable
<1>6. ASSUME NEW c \in Clients, NEW n \in Nodes, Attach(c, n)  PROVE ConnInv'
  BY <1>6, RelayConstants DEF Attach, conns, traffic, TypeOK, ConnInv, RelayInv, InFlight, ConnectedIsReachable
<1>7. ASSUME NEW c \in Clients, NEW i \in Ids, Request(c, i)  PROVE ConnInv'
  <2>0. /\ pc[c] = "ready" /\ fut[c] = "none"
        /\ nodes' = nodes /\ link' = link /\ nodeOf' = nodeOf /\ session' = session
    BY <1>7, RequestFacts DEF conns
  <2>1. CASE UNCHANGED <<pending, via, reqId, fut, pc>>
    BY <2>0, <2>1 DEF ConnInv, RelayInv, ConnectedIsReachable
  <2>2. ASSUME NEW h \in Conns, Forwards(c, i, h)  PROVE ConnInv'
    <3>1. link[h] \in {"up", "lost"}
      BY <2>2 DEF Forwards, ConnInv, RelayInv
    <3>2. \A g \in Conns \ {h} : pending'[g] = pending[g]
      BY <2>2 DEF Forwards, TypeOK
    <3>. QED BY <2>0, <3>1, <3>2 DEF ConnInv, RelayInv, ConnectedIsReachable
  <2>. QED BY <1>7, <2>1, <2>2, RequestFacts
<1>8. ASSUME NEW c \in Clients, Send(c)  PROVE ConnInv'
  BY <1>8, RelayConstants DEF Send, conns, TypeOK, ConnInv, RelayInv, InFlight, ConnectedIsReachable
<1>9. ASSUME NEW c \in Clients, TimeOut(c)  PROVE ConnInv'
  BY <1>9, RelayConstants DEF TimeOut, conns, TypeOK, ConnInv, RelayInv, InFlight, ConnectedIsReachable
<1>10. ASSUME NEW c \in Clients, HangUp(c)  PROVE ConnInv'
  BY <1>10, RelayConstants DEF HangUp, conns, traffic, TypeOK, ConnInv, RelayInv, InFlight, ConnectedIsReachable
<1>11. ASSUME NEW c \in Clients, NEW l \in {"ready", "gone"}, InFlight(c), Done(c, l)
       PROVE  ConnInv'
  <2>1. UNCHANGED <<nodes, nodeOf, link>>
    BY <1>11, DoneFacts DEF conns
  <2>2. \A h \in Conns, j \in Ids : pending[h][j] = NoClient => pending'[h][j] = NoClient
    BY <1>11, DoneFacts
  <2>3. ConnInv
    BY DEF RelayInv
  <2>. QED BY <2>1, <2>2, <2>3 DEF ConnInv, ConnectedIsReachable
<1>. QED BY <1>1, <1>2, <1>3, <1>4, <1>5, <1>6, <1>7, <1>8, <1>9, <1>10, <1>11, RelaySteps

-----------------------------------------------------------------------------
LEMMA SentShrinks ==
  ASSUME \A h \in Conns : \A j \in 1 .. Len(wire'[h]) :
           \E k \in 1 .. Len(wire[h]) : wire'[h][j] = wire[h][k]
  PROVE  Sent' \subseteq Sent
<1> SUFFICES ASSUME NEW m \in Sent'  PROVE m \in Sent
  OBVIOUS
<1>1. PICK h \in Conns : m \in {wire'[h][j] : j \in 1 .. Len(wire'[h])}
  BY DEF Sent
<1>2. PICK j \in 1 .. Len(wire'[h]) : m = wire'[h][j]
  BY <1>1
<1>3. PICK k \in 1 .. Len(wire[h]) : m = wire[h][k]
  BY <1>2
<1>4. m \in {wire[h][i] : i \in 1 .. Len(wire[h])}
  BY <1>3
<1>. QED BY <1>4 DEF Sent

\* Most steps put nothing on a wire and begin no request.
LEMMA IdKept ==
  ASSUME HandlerInv, HandlerInv', IdInv,
         Sent' \subseteq Sent, used \subseteq used',
         \A c \in Clients : InFlight(c)' =>
           InFlight(c) /\ reqId'[c] = reqId[c] /\ nth'[c] = nth[c],
         \A c \in Clients : fut'[c] = "answered" /\ reqId'[c] \in FreshIds =>
           \/ fut[c] = "answered" /\ held'[c] = held[c]
           \/ held'[c] = Message(c)
  PROVE  IdInv'
<1>1. \A c \in Clients : InFlight(c)' => Message(c)' = Message(c)
  BY DEF Message
<1>2. \A c \in Clients : InFlight(c)' => reqId'[c] \in used'
  BY DEF IdInv
<1>3. \A c, d \in Clients : InFlight(c)' /\ InFlight(d)' /\ reqId'[c] = reqId'[d]
                             /\ reqId'[c] \in FreshIds => c = d
  BY DEF IdInv
<1>4. \A m \in Sent' : m.id \in used'
  BY DEF IdInv
<1>5. \A m \in Sent', c \in Clients :
        InFlight(c)' /\ reqId'[c] = m.id /\ m.id \in FreshIds => m = Message(c)'
  BY <1>1 DEF IdInv
<1>6. ASSUME NEW c \in Clients, fut'[c] = "answered", reqId'[c] \in FreshIds
      PROVE  held'[c] = Message(c)'
  <2>1. InFlight(c)'
    BY <1>6 DEF HandlerInv
  <2>. QED BY <1>1, <1>6, <2>1 DEF IdInv
<1>. QED BY <1>2, <1>3, <1>4, <1>5, <1>6 DEF IdInv

\* Answers under fresh ids belong to their requests.
LEMMA IdStep ==
  ASSUME TypeOK, RelayInv, TypeOK', [Next]_vars
  PROVE  IdInv'
<1>1. CASE Quiet
  <2>1. /\ UNCHANGED <<reqId, nth, held, used, wire>>
        /\ \A c \in Clients : fut'[c] = "answered" => fut[c] = "answered"
        /\ \A c \in Clients : InFlight(c)' => InFlight(c)
    BY <1>1 DEF Quiet, conns, traffic, InFlight, TypeOK
  <2>2. Sent' = Sent
    BY <2>1 DEF Sent
  <2>. QED BY <2>1, <2>2, IdKept, HandlerStep DEF RelayInv
<1>2. ASSUME NEW h \in Conns, NEW n \in Nodes, Connect(h, n)  PROVE IdInv'
  <2>1. /\ UNCHANGED <<reqId, nth, held, used, wire>>
        /\ \A c \in Clients : fut'[c] = "answered" => fut[c] = "answered"
        /\ \A c \in Clients : InFlight(c)' => InFlight(c)
    BY <1>2 DEF Connect, traffic, InFlight, TypeOK
  <2>2. Sent' = Sent
    BY <2>1 DEF Sent
  <2>. QED BY <2>1, <2>2, IdKept, HandlerStep DEF RelayInv
<1>3. ASSUME NEW h \in Conns, Lose(h)  PROVE IdInv'
  <2>1. /\ UNCHANGED <<reqId, nth, held, used, wire>>
        /\ \A c \in Clients : fut'[c] = "answered" => fut[c] = "answered"
        /\ \A c \in Clients : InFlight(c)' => InFlight(c)
    BY <1>3 DEF Lose, traffic, InFlight, TypeOK
  <2>2. Sent' = Sent
    BY <2>1 DEF Sent
  <2>. QED BY <2>1, <2>2, IdKept, HandlerStep DEF RelayInv
<1>4. ASSUME NEW h \in Conns, Cleanup(h)  PROVE IdInv'
  <2>1. UNCHANGED <<via, reqId, nth, held, used, pc>>
    BY <1>4 DEF Cleanup
  <2>2. Sent' \subseteq Sent
    <3>1. wire'[h] = <<>> /\ \A g \in Conns \ {h} : wire'[g] = wire[g]
      BY <1>4 DEF Cleanup, TypeOK
    <3>2. \A j \in 1 .. Len(wire'[h]) : FALSE
      BY <3>1, EmptySeq
    <3>. QED BY <3>1, <3>2, SentShrinks
  <2>3. \A d \in Clients : fut'[d] = "answered" => fut[d] = "answered"
    BY <1>4 DEF Cleanup, FailPending
  <2>4. \A c \in Clients : InFlight(c)' => InFlight(c)
    BY <2>1 DEF InFlight
  <2>. QED BY <2>1, <2>2, <2>3, <2>4, IdKept, HandlerStep DEF RelayInv
<1>5. ASSUME NEW h \in Conns, Respond(h)  PROVE IdInv'
  <2>1. PICK m \in Messages : Answers(h, m)
    BY <1>5, RespondFacts
  <2>2. UNCHANGED <<via, reqId, nth, used, pc>>
    BY <2>1 DEF Answers
  <2>3. Sent' \subseteq Sent
    <3>1. wire[h] \in Seq(Messages) /\ wire[h] # <<>>
      BY <2>1 DEF Answers, TypeOK
    <3>2. wire'[h] = Tail(wire[h]) /\ \A g \in Conns \ {h} : wire'[g] = wire[g]
      BY <2>1 DEF Answers, TypeOK
    <3>3. \A j \in 1 .. Len(wire'[h]) : \E k \in 1 .. Len(wire[h]) : wire'[h][j] = wire[h][k]
      BY <2>1, <3>1, <3>2, WireFacts
    <3>. QED BY <3>2, <3>3, SentShrinks
  <2>4. m \in Sent
    BY <2>1 DEF Answers, Sent
  <2>5. ASSUME NEW d \in Clients, fut'[d] = "answered", reqId'[d] \in FreshIds
        PROVE  (fut[d] = "answered" /\ held'[d] = held[d]) \/ held'[d] = Message(d)
    <3>1. CASE UNCHANGED <<fut, held>>
      BY <2>5, <3>1
    <3>2. CASE /\ pending[h][m.id] \in Clients /\ fut[pending[h][m.id]] = "pending"
               /\ fut' = [fut EXCEPT ![pending[h][m.id]] = "answered"]
               /\ held' = [held EXCEPT ![pending[h][m.id]] = m]
      <4>1. CASE pending[h][m.id] = d
        <5>1. InFlight(d) /\ reqId[d] = m.id
          BY <2>1, <3>2, <4>1 DEF Answers, PendingInv, HandlerInv, RelayInv
        <5>2. held'[d] = m
          BY <3>2, <4>1 DEF TypeOK
        <5>. QED BY <2>2, <2>4, <2>5, <5>1, <5>2 DEF IdInv, RelayInv
      <4>2. CASE pending[h][m.id] # d
        BY <2>5, <3>2, <4>2 DEF TypeOK
      <4>. QED BY <4>1, <4>2
    <3>. QED BY <2>1, <3>1, <3>2 DEF Answers
  <2>6. \A c \in Clients : InFlight(c)' => InFlight(c)
    BY <2>2 DEF InFlight
  <2>. QED BY <2>2, <2>3, <2>5, <2>6, IdKept, HandlerStep DEF RelayInv
<1>6. ASSUME NEW c \in Clients, NEW n \in Nodes, Attach(c, n)  PROVE IdInv'
  <2>1. /\ UNCHANGED <<reqId, nth, held, used, wire>>
        /\ \A d \in Clients : fut'[d] = "answered" => fut[d] = "answered"
        /\ \A d \in Clients : InFlight(d)' => InFlight(d)
    BY <1>6 DEF Attach, conns, traffic, InFlight, TypeOK
  <2>2. Sent' = Sent
    BY <2>1 DEF Sent
  <2>. QED BY <2>1, <2>2, IdKept, HandlerStep DEF RelayInv
<1>7. ASSUME NEW c \in Clients, NEW i \in Ids, Request(c, i)  PROVE IdInv'
  <2>0. /\ pc[c] = "ready" /\ fut[c] = "none" /\ (i \in FreshIds => i \notin used)
        /\ used' = used \cup {i}
        /\ nth' = [nth EXCEPT ![c] = @ + 1]
        /\ wire' = wire /\ held' = held
    BY <1>7, RequestFacts
  <2>1. ~InFlight(c) /\ Sent' = Sent
    BY <2>0 DEF InFlight, Sent
  <2>2. \A d \in Clients \ {c} : nth'[d] = nth[d]
    BY <2>0 DEF TypeOK
  <2>3. CASE UNCHANGED <<pending, via, reqId, fut, pc>>
    <3>1. \A d \in Clients : InFlight(d)' =>
            InFlight(d) /\ reqId'[d] = reqId[d] /\ nth'[d] = nth[d]
      BY <2>1, <2>2, <2>3 DEF InFlight
    <3>. QED BY <2>0, <2>1, <2>3, <3>1, IdKept, HandlerStep DEF RelayInv
  <2>4. ASSUME NEW h \in Conns, Forwards(c, i, h)  PROVE IdInv'
    <3>1. /\ pc'[c] = "sending" /\ reqId'[c] = i /\ fut'[c] = "pending"
          /\ \A d \in Clients \ {c} : pc'[d] = pc[d] /\ reqId'[d] = reqId[d] /\ fut'[d] = fut[d]
      BY <2>4 DEF Forwards, TypeOK
    <3>2. \A d \in Clients \ {c} : (InFlight(d)' <=> InFlight(d)) /\ Message(d)' = Message(d)
      BY <2>2, <3>1 DEF InFlight, Message
    <3>3. \A d \in Clients \ {c} : InFlight(d) =>
            reqId[d] \in used /\ (i \in FreshIds => reqId[d] # i)
      BY <2>0 DEF IdInv, RelayInv
    <3>4. \A m \in Sent : m.id \in used /\ (i \in FreshIds => m.id # i)
      BY <2>0 DEF IdInv, RelayInv
    <3>5. \A d \in Clients : InFlight(d)' => reqId'[d] \in used'
      BY <2>0, <3>1, <3>2, <3>3
    <3>6. \A d, e \in Clients : InFlight(d)' /\ InFlight(e)' /\ reqId'[d] = reqId'[e]
                                 /\ reqId'[d] \in FreshIds => d = e
      BY <3>1, <3>2, <3>3 DEF IdInv, RelayInv
    <3>7. \A m \in Sent', d \in Clients :
            InFlight(d)' /\ reqId'[d] = m.id /\ m.id \in FreshIds => m = Message(d)'
      BY <2>1, <3>1, <3>2, <3>4 DEF IdInv, RelayInv
    <3>8. \A d \in Clients :
            fut'[d] = "answered" /\ reqId'[d] \in FreshIds => held'[d] = Message(d)'
      BY <2>0, <3>1, <3>2 DEF IdInv, RelayInv
    <3>. QED BY <2>0, <2>1, <3>4, <3>5, <3>6, <3>7, <3>8 DEF IdInv
  <2>. QED BY <1>7, <2>3, <2>4, RequestFacts
<1>8. ASSUME NEW c \in Clients, Send(c)  PROVE IdInv'
  <2>1. /\ InFlight(c) /\ via[c] \in Conns /\ reqId[c] \in Ids
        /\ UNCHANGED <<reqId, nth, fut, held, used>>
        /\ \A d \in Clients : InFlight(d)' <=> InFlight(d)
    BY <1>8 DEF Send, InFlight, HandlerInv, RelayInv, TypeOK
  <2>2. Message(c) \in Messages
    BY <2>1, MessageType
  <2>3. ASSUME NEW m \in Sent'  PROVE m \in Sent \/ m = Message(c)
    <3>1. PICK g \in Conns : \E j \in 1 .. Len(wire'[g]) : m = wire'[g][j]
      BY <2>3 DEF Sent
    <3>2. wire'[g] = wire[g] \/ wire'[g] = Append(wire[g], Message(c))
      BY <1>8, <2>1 DEF Send, TypeOK
    <3>3. wire[g] \in Seq(Messages)
      BY DEF TypeOK
    <3>4. CASE wire'[g] = wire[g]
      BY <3>1, <3>4 DEF Sent
    <3>5. CASE wire'[g] = Append(wire[g], Message(c))
      <4>1. m = Message(c) \/ \E k \in 1 .. Len(wire[g]) : m = wire[g][k]
        BY <2>2, <3>1, <3>3, <3>5, WireFacts
      <4>. QED BY <4>1 DEF Sent
    <3>. QED BY <3>2, <3>4, <3>5
  <2>4. \A d \in Clients : Message(d)' = Message(d)
    BY <2>1 DEF Message
  <2>5. Message(c).id = reqId[c]
    BY DEF Message
  <2>6. \A m \in Sent' : m.id \in used
    BY <2>1, <2>3, <2>5 DEF IdInv, RelayInv
  <2>7. \A m \in Sent', d \in Clients :
          InFlight(d) /\ reqId[d] = m.id /\ m.id \in FreshIds => m = Message(d)
    BY <2>1, <2>3, <2>5 DEF IdInv, RelayInv
  <2>. QED BY <2>1, <2>4, <2>6, <2>7 DEF IdInv, RelayInv
<1>9. ASSUME NEW c \in Clients, TimeOut(c)  PROVE IdInv'
  <2>1. /\ UNCHANGED <<reqId, nth, held, used, wire>>
        /\ \A d \in Clients : fut'[d] = "answered" => fut[d] = "answered"
        /\ \A d \in Clients : InFlight(d)' => InFlight(d)
    BY <1>9 DEF TimeOut, conns, InFlight, TypeOK
  <2>2. Sent' = Sent
    BY <2>1 DEF Sent
  <2>. QED BY <2>1, <2>2, IdKept, HandlerStep DEF RelayInv
<1>10. ASSUME NEW c \in Clients, HangUp(c)  PROVE IdInv'
  <2>1. /\ UNCHANGED <<reqId, nth, held, used, wire>>
        /\ \A d \in Clients : fut'[d] = "answered" => fut[d] = "answered"
        /\ \A d \in Clients : InFlight(d)' => InFlight(d)
    BY <1>10 DEF HangUp, conns, traffic, InFlight, TypeOK
  <2>2. Sent' = Sent
    BY <2>1 DEF Sent
  <2>. QED BY <2>1, <2>2, IdKept, HandlerStep DEF RelayInv
<1>11. ASSUME NEW c \in Clients, NEW l \in {"ready", "gone"}, InFlight(c), Done(c, l)
       PROVE  IdInv'
  <2>1. /\ pc' = [pc EXCEPT ![c] = l] /\ reqId' = [reqId EXCEPT ![c] = NoId]
        /\ fut' = [fut EXCEPT ![c] = "none"] /\ held' = [held EXCEPT ![c] = NoMsg]
        /\ wire' = wire /\ nth' = nth /\ used' = used
    BY <1>11, DoneFacts
  <2>2. /\ pc'[c] = l /\ fut'[c] = "none"
        /\ \A d \in Clients \ {c} : /\ pc'[d] = pc[d] /\ reqId'[d] = reqId[d]
                                    /\ fut'[d] = fut[d] /\ held'[d] = held[d]
    BY <2>1 DEF TypeOK
  <2>3. Sent' = Sent
    BY <2>1 DEF Sent
  <2>4. \A d \in Clients : InFlight(d)' => InFlight(d) /\ reqId'[d] = reqId[d]
    BY <2>2 DEF InFlight
  <2>5. \A d \in Clients : fut'[d] = "answered" => fut[d] = "answered" /\ held'[d] = held[d]
    BY <2>2
  <2>. QED BY <2>1, <2>3, <2>4, <2>5, IdKept, HandlerStep DEF RelayInv
<1>. QED BY <1>1, <1>2, <1>3, <1>4, <1>5, <1>6, <1>7, <1>8, <1>9, <1>10, <1>11, RelaySteps

\* Entries that disappear keep the bound.
LEMMA BoundKept ==
  ASSUME TypeOK, BoundInv,
         \A h \in Conns, i \in Ids : pending'[h][i] \in {pending[h][i], NoClient}
  PROVE  BoundInv'
<1>1. ASSUME NEW h \in Conns
      PROVE  IsFiniteSet(InUse(h)') /\ Cardinality(InUse(h)') <= MaxPending
  <2>1. InUse(h)' \in SUBSET InUse(h) /\ IsFiniteSet(InUse(h))
    BY DEF InUse, BoundInv
  <2>2. /\ IsFiniteSet(InUse(h)')
        /\ Cardinality(InUse(h)') <= Cardinality(InUse(h))
    BY <2>1, FS_Subset
  <2>3. Cardinality(InUse(h)) \in Nat /\ Cardinality(InUse(h)') \in Nat
    BY <2>1, <2>2, FS_CardinalityType
  <2>. QED BY <2>2, <2>3, RelayConstants DEF BoundInv
<1>. QED BY <1>1 DEF BoundInv

\* One entry more, after the look at their number, still keeps it.
LEMMA BoundGrows ==
  ASSUME TypeOK, BoundInv, NEW h \in Conns, NEW i \in Ids, Accepts(h, i),
         InUse(h)' = InUse(h) \cup {i},
         \A g \in Conns \ {h} : InUse(g)' = InUse(g)
  PROVE  BoundInv'
<1>1. IsFiniteSet(InUse(h)) /\ i \notin InUse(h)
      /\ Cardinality(InUse(h)) < MaxPending /\ Cardinality(InUse(h)) \in Nat
  BY FS_CardinalityType DEF BoundInv, Accepts
<1>2. /\ IsFiniteSet(InUse(h) \cup {i})
      /\ Cardinality(InUse(h) \cup {i}) = Cardinality(InUse(h)) + 1
  BY <1>1, FS_AddElement
<1>3. IsFiniteSet(InUse(h)') /\ Cardinality(InUse(h)') <= MaxPending
  BY <1>1, <1>2, RelayConstants
<1>. QED BY <1>3 DEF BoundInv

\* The number of entries is looked at and raised in one step.
LEMMA BoundStep ==
  ASSUME TypeOK, RelayInv, TypeOK', [Next]_vars
  PROVE  BoundInv'
<1>1. CASE Quiet
  BY <1>1, BoundKept DEF Quiet, conns, traffic, RelayInv
<1>2. ASSUME NEW h \in Conns, NEW n \in Nodes, Connect(h, n)  PROVE BoundInv'
  BY <1>2, BoundKept DEF Connect, traffic, RelayInv
<1>3. ASSUME NEW h \in Conns, Lose(h)  PROVE BoundInv'
  BY <1>3, BoundKept DEF Lose, traffic, RelayInv
<1>4. ASSUME NEW h \in Conns, Cleanup(h)  PROVE BoundInv'
  BY <1>4, BoundKept DEF Cleanup, TypeOK, RelayInv
<1>5. ASSUME NEW h \in Conns, Respond(h)  PROVE BoundInv'
  <2>1. PICK m \in Messages : Answers(h, m)
    BY <1>5, RespondFacts
  <2>. QED BY <2>1, BoundKept DEF Answers, TypeOK, RelayInv
<1>6. ASSUME NEW c \in Clients, NEW n \in Nodes, Attach(c, n)  PROVE BoundInv'
  BY <1>6, BoundKept DEF Attach, conns, traffic, RelayInv
<1>7. ASSUME NEW c \in Clients, NEW i \in Ids, Request(c, i)  PROVE BoundInv'
  <2>1. CASE UNCHANGED <<pending, via, reqId, fut, pc>>
    BY <2>1, BoundKept DEF RelayInv
  <2>2. ASSUME NEW h \in Conns, Forwards(c, i, h)  PROVE BoundInv'
    <3>1. Accepts(h, i) /\ pending' = [pending EXCEPT ![h][i] = c]
      BY <2>2 DEF Forwards
    <3>2. /\ InUse(h)' = InUse(h) \cup {i}
          /\ \A g \in Conns \ {h} : InUse(g)' = InUse(g)
      BY <3>1, RelayConstants DEF InUse, TypeOK
    <3>. QED BY <3>1, <3>2, BoundGrows DEF RelayInv
  <2>. QED BY <1>7, <2>1, <2>2, RequestFacts
<1>8. ASSUME NEW c \in Clients, Send(c)  PROVE BoundInv'
  BY <1>8, BoundKept DEF Send, RelayInv
<1>9. ASSUME NEW c \in Clients, TimeOut(c)  PROVE BoundInv'
  BY <1>9, BoundKept DEF TimeOut, RelayInv
<1>10. ASSUME NEW c \in Clients, HangUp(c)  PROVE BoundInv'
  BY <1>10, BoundKept DEF HangUp, traffic, RelayInv
<1>11. ASSUME NEW c \in Clients, NEW l \in {"ready", "gone"}, InFlight(c), Done(c, l)
       PROVE  BoundInv'
  BY <1>11, BoundKept, DoneFacts DEF RelayInv
<1>. QED BY <1>1, <1>2, <1>3, <1>4, <1>5, <1>6, <1>7, <1>8, <1>9, <1>10, <1>11, RelaySteps

-----------------------------------------------------------------------------
LEMMA RelayInit ==
  ASSUME Init  PROVE TypeOK /\ RelayInv
<1>1. TypeOK
  BY EmptySeq DEF Init, TypeOK
<1>2. HandlerInv /\ PendingInv /\ ConnInv
  BY RelayConstants DEF Init, HandlerInv, PendingInv, ConnInv, InFlight,
                        WaitingIsPending, ConnectedIsReachable
<1>3. Sent = {}
  BY EmptySeq DEF Init, Sent
<1>4. IdInv
  BY <1>3 DEF Init, IdInv, InFlight
<1>5. \A h \in Conns : InUse(h) = {}
  BY DEF Init, InUse
<1>6. BoundInv
  BY <1>5, FS_EmptySet, RelayConstants DEF BoundInv
<1>. QED BY <1>1, <1>2, <1>4, <1>6 DEF RelayInv

LEMMA RelayStep ==
  ASSUME TypeOK, RelayInv, [Next]_vars  PROVE TypeOK' /\ RelayInv'
<1>1. TypeOK'
  BY RelayTypeStep
<1>2. HandlerInv' /\ PendingInv' /\ ConnInv' /\ BoundInv'
  BY <1>1, HandlerStep, PendingStep, ConnStep, BoundStep
<1>3. IdInv'
  BY <1>1, IdStep
<1>. QED BY <1>1, <1>2, <1>3 DEF RelayInv

LEMMA RelayInvariant == Spec => [](TypeOK /\ RelayInv)
<1>1. Init => TypeOK /\ RelayInv
  BY RelayInit
<1>2. TypeOK /\ RelayInv /\ [Next]_vars => (TypeOK /\ RelayInv)'
  BY RelayStep
<1>. QED BY <1>1, <1>2, PTL DEF Spec

\* The relay is well typed, whatever connects, breaks or asks.
THEOREM RelayTypeCorrect == Spec => []TypeOK
BY RelayInvariant, PTL

\* Under whatever ids, handlers and entries match, a connection that is gone is
\* forgotten, a connector that is connected is reachable after every reconnect,
\* and the number of pending requests keeps its limit.
THEOREM RelaySafety ==
  Spec => [](/\ EntriesMatchHandlers
             /\ GoneIsForgotten
             /\ ConnectedIsReachable
             /\ PendingIsBounded)
<1>1. ASSUME TypeOK, RelayInv
      PROVE  /\ EntriesMatchHandlers /\ GoneIsForgotten
             /\ ConnectedIsReachable /\ PendingIsBounded
  <2>1. WaitingIsPending /\ ConnectedIsReachable /\ PendingIsBounded
    BY <1>1 DEF RelayInv, PendingInv, ConnInv, BoundInv, PendingIsBounded
  <2>2. PendingIsWaiting
    <3>1. ASSUME NEW h \in Conns, NEW i \in Ids, pending[h][i] # NoClient
          PROVE  LET c == pending[h][i] IN InFlight(c) /\ via[c] = h /\ reqId[c] = i
      <4>1. pending[h][i] \in Clients
        BY <1>1, <3>1 DEF TypeOK
      <4>. QED BY <1>1, <4>1 DEF RelayInv, PendingInv, HandlerInv
    <3>. QED BY <3>1 DEF PendingIsWaiting, InUse
  <2>3. GoneIsForgotten
    <3>1. ASSUME NEW h \in Conns, link[h] = "closed", NEW c \in Clients, via[c] = h
          PROVE  fut[c] # "pending"
      BY <1>1, <2>1, <3>1, RelayConstants
         DEF RelayInv, ConnInv, HandlerInv, WaitingIsPending
    <3>. QED BY <1>1, <3>1 DEF RelayInv, ConnInv, GoneIsForgotten
  <2>. QED BY <2>1, <2>2, <2>3 DEF EntriesMatchHandlers
<1>. QED BY <1>1, RelayInvariant, PTL

\* The answer to a request under a fresh id is handed to it alone, whatever ids
\* the other requests use.
THEOREM OwnAnswers == Spec => []AnswersAreOwn
<1>1. ASSUME TypeOK, RelayInv  PROVE AnswersAreOwn
  <2>1. ASSUME NEW c \in Clients, fut[c] = "answered", reqId[c] \in FreshIds
        PROVE  held[c] = Message(c)
    BY <1>1, <2>1 DEF RelayInv, IdInv
  <2>2. ASSUME NEW c \in Clients  PROVE Message(c).from = c /\ Message(c).nth = nth[c]
    BY DEF Message
  <2>. QED BY <2>1, <2>2 DEF AnswersAreOwn
<1>. QED BY <1>1, RelayInvariant, PTL

=============================================================================
