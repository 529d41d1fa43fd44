-------------------------------- MODULE Relay --------------------------------
(***************************************************************************)
(* The relay between clients and a user's node: create_app                 *)
(* (src/relay/app.py), with the node connector that keeps a connection to  *)
(* it (src/services/relay_node.py).                                        *)
(*                                                                         *)
(* A connector opens a websocket, offers its pairing code and proxies HTTP *)
(* requests, one at a time, until the socket is lost; then it reconnects   *)
(* with the same code.  A client exchanges the code for a session token,   *)
(* opens a websocket with it and has one request at a time forwarded to    *)
(* its node.  Requests of several clients share the node's socket and are  *)
(* told apart by the id the client chose.                                  *)
(*                                                                         *)
(* The relay runs on one asyncio loop.  Code between two awaits is one     *)
(* action: a handler may be overtaken while it sends to the node and while *)
(* it waits for the answer.  A connector's code is its own, so the node    *)
(* stands for the code.                                                    *)
(***************************************************************************)
EXTENDS Naturals, Sequences, FiniteSets

CONSTANTS
  Nodes,        \* node ids, each with one connector and its pairing code
  Conns,        \* websockets of connectors
  Clients,      \* websockets of clients
  Ids,          \* request ids
  NoNode, NoConn, NoClient, NoId, NoMsg,
  FreshIds,     \* ids used by at most one request; the others may be used again
  MaxPending,   \* ORA_RELAY_MAX_PENDING (64)
  MaxRequests   \* bound: requests per client

ASSUME RelayAssumption ==
  /\ NoNode \notin Nodes
  /\ NoConn \notin Conns
  /\ NoClient \notin Clients
  /\ NoId \notin Ids
  /\ FreshIds \subseteq Ids
  /\ MaxPending \in Nat \ {0}
  /\ MaxRequests \in Nat

\* A forwarded request: whose it is, which of its requests, and under what id.
\* It also stands for the node's answer to it.
Messages == [id : Ids, from : Clients, nth : Nat]

ASSUME MessageAssumption == NoMsg \notin Messages

VARIABLES
  nodes,    \* RelayState.nodes: the connection registered for a node
  offers,   \* RelayState.pair_offers: nodes whose code is on offer
  sessions, \* RelayState.sessions: nodes for which there is a live token
  link,     \* how a node connection is, as far as the relay can tell
  nodeOf,   \* the node id of a connection
  offer,    \* what became of the code offered on a connection (history)
  pending,  \* NodeConn.pending: whose future waits under an id
  wire,     \* requests sent to the node that it has not answered
  pc,       \* where the handler of a client websocket stands
  session,  \* the node of the client's session
  via,      \* the node connection the current request goes to
  reqId,    \* the id of the current request
  nth,      \* how many requests the client has made
  fut,      \* the future of the current request
  held,     \* the answer set on the future
  used      \* ids used so far (history)

pairing == <<offers, sessions, offer>>
conns   == <<nodes, link, nodeOf>>
traffic == <<pending, wire, via, reqId, nth, fut, held, used>>
vars    == <<pairing, conns, traffic, pc, session>>

TypeOK ==
  /\ nodes \in [Nodes -> Conns \cup {NoConn}]
  /\ offers \in SUBSET Nodes
  /\ sessions \in SUBSET Nodes
  /\ link \in [Conns -> {"unused", "up", "lost", "closed"}]
  /\ nodeOf \in [Conns -> Nodes \cup {NoNode}]
  /\ offer \in [Conns -> {"none", "made", "over"}]
  /\ pending \in [Conns -> [Ids -> Clients \cup {NoClient}]]
  /\ wire \in [Conns -> Seq(Messages)]
  /\ pc \in [Clients -> {"off", "ready", "sending", "waiting", "gone"}]
  /\ session \in [Clients -> Nodes \cup {NoNode}]
  /\ via \in [Clients -> Conns \cup {NoConn}]
  /\ reqId \in [Clients -> Ids \cup {NoId}]
  /\ nth \in [Clients -> Nat]
  /\ fut \in [Clients -> {"none", "pending", "answered", "disconnected", "timedOut"}]
  /\ held \in [Clients -> Messages \cup {NoMsg}]
  /\ used \in SUBSET Ids

Init ==
  /\ nodes = [n \in Nodes |-> NoConn]
  /\ offers = {}
  /\ sessions = {}
  /\ link = [h \in Conns |-> "unused"]
  /\ nodeOf = [h \in Conns |-> NoNode]
  /\ offer = [h \in Conns |-> "none"]
  /\ pending = [h \in Conns |-> [i \in Ids |-> NoClient]]
  /\ wire = [h \in Conns |-> <<>>]
  /\ pc = [c \in Clients |-> "off"]
  /\ session = [c \in Clients |-> NoNode]
  /\ via = [c \in Clients |-> NoConn]
  /\ reqId = [c \in Clients |-> NoId]
  /\ nth = [c \in Clients |-> 0]
  /\ fut = [c \in Clients |-> "none"]
  /\ held = [c \in Clients |-> NoMsg]
  /\ used = {}

-----------------------------------------------------------------------------
(***************************************************************************)
(* The node's side: ws_node and run_node_connector.  Operators named after *)
(* a mistake are mutants of the definition that follows them; no action    *)
(* uses them.                                                              *)
(***************************************************************************)

\* A connector without a working socket connects; the relay registers the
\* connection in place of the one it had.
Connect(h, n) ==
  /\ link[h] = "unused"
  /\ \A g \in Conns : nodeOf[g] = n => link[g] # "up"
  /\ link' = [link EXCEPT ![h] = "up"]
  /\ nodeOf' = [nodeOf EXCEPT ![h] = n]
  /\ nodes' = [nodes EXCEPT ![n] = h]
  /\ UNCHANGED <<pairing, traffic, pc, session>>

\* The first message of a connector: pair_offer, always with the same code, even
\* if it has been used.
Offer(h) ==
  /\ link[h] \in {"up", "lost"}
  /\ offer[h] = "none"
  /\ offer' = [offer EXCEPT ![h] = "made"]
  /\ offers' = offers \cup {nodeOf[h]}
  /\ UNCHANGED <<sessions, conns, traffic, pc, session>>

\* The socket breaks; the relay has not noticed.
Lose(h) ==
  /\ link[h] = "up"
  /\ link' = [link EXCEPT ![h] = "lost"]
  /\ UNCHANGED <<pairing, nodes, nodeOf, traffic, pc, session>>

AnyDropped(h) == nodes' = [nodes EXCEPT ![nodeOf[h]] = NoConn]

\* The registration is removed only if it is this connection's.
Unregister(h) ==
  nodes' = [n \in Nodes |-> IF nodes[n] = h THEN NoConn ELSE nodes[n]]

NobodyFailed(h) == UNCHANGED fut

\* Whoever waits for this connection is told that the node is disconnected.
FailPending(h) ==
  fut' = [c \in Clients |->
            IF fut[c] = "pending" /\ \E i \in Ids : pending[h][i] = c
            THEN "disconnected" ELSE fut[c]]

\* The finally clause of ws_node.
Cleanup(h) ==
  /\ link[h] = "lost"
  /\ link' = [link EXCEPT ![h] = "closed"]
  /\ FailPending(h)
  /\ pending' = [pending EXCEPT ![h] = [i \in Ids |-> NoClient]]
  /\ wire' = [wire EXCEPT ![h] = <<>>]
  /\ offers' = offers \ {nodeOf[h]}
  /\ Unregister(h)
  /\ UNCHANGED <<sessions, offer, nodeOf, via, reqId, nth, held, used,
                 pc, session>>

AwaitingAny(h, i) ==
  IF \A j \in Ids : pending[h][j] = NoClient THEN NoClient
  ELSE pending[h][CHOOSE j \in Ids : pending[h][j] # NoClient]

\* The request an answer under this id belongs to.
Awaiting(h, i) == pending[h][i]

\* The connector answers the oldest request and the relay takes the answer: it
\* sets the future that waits under the id, if there is one.
Respond(h) ==
  LET m == Head(wire[h])
      c == Awaiting(h, m.id)
  IN
  /\ link[h] \in {"up", "lost"}
  /\ wire[h] # <<>>
  /\ wire' = [wire EXCEPT ![h] = Tail(@)]
  /\ pending' = [pending EXCEPT ![h][m.id] = NoClient]
  /\ \/ /\ c # NoClient /\ fut[c] = "pending"
        /\ fut' = [fut EXCEPT ![c] = "answered"]
        /\ held' = [held EXCEPT ![c] = m]
     \/ /\ ~(c # NoClient /\ fut[c] = "pending")
        /\ UNCHANGED <<fut, held>>
  /\ UNCHANGED <<pairing, conns, via, reqId, nth, used, pc, session>>

-----------------------------------------------------------------------------
(***************************************************************************)
(* Pairing: api_pair, and the expiry of what prune removes.                *)
(***************************************************************************)
Over(n) == [h \in Conns |-> IF nodeOf[h] = n /\ offer[h] = "made"
                            THEN "over" ELSE offer[h]]

\* The code is exchanged for a token and is no longer on offer.
Pair(n) ==
  /\ n \in offers
  /\ nodes[n] # NoConn
  /\ sessions' = sessions \cup {n}
  /\ offers' = offers \ {n}
  /\ offer' = Over(n)
  /\ UNCHANGED <<conns, traffic, pc, session>>

ExpireOffer(n) ==
  /\ n \in offers
  /\ offers' = offers \ {n}
  /\ offer' = Over(n)
  /\ UNCHANGED <<sessions, conns, traffic, pc, session>>

ExpireSession(n) ==
  /\ n \in sessions
  /\ sessions' = sessions \ {n}
  /\ UNCHANGED <<offers, offer, conns, traffic, pc, session>>

-----------------------------------------------------------------------------
(***************************************************************************)
(* The client's side: ws_client.                                           *)
(***************************************************************************)

\* The token is looked at once, when the websocket is opened.
Attach(c, n) ==
  /\ pc[c] = "off"
  /\ n \in sessions
  /\ pc' = [pc EXCEPT ![c] = "ready"]
  /\ session' = [session EXCEPT ![c] = n]
  /\ UNCHANGED <<pairing, conns, traffic>>

InUse(h) == {i \in Ids : pending[h][i] # NoClient}

\* Not id_in_use, not too_many_pending.
Accepts(h, i) == i \notin InUse(h) /\ Cardinality(InUse(h)) < MaxPending

\* An http_proxy message: refused at once if there is no connection, the id is
\* in use or too many requests are pending; else a future is registered.
Request(c, i) ==
  LET h == nodes[session[c]] IN
  /\ pc[c] = "ready"
  /\ nth[c] < MaxRequests
  /\ i \in FreshIds => i \notin used
  /\ used' = used \cup {i}
  /\ nth' = [nth EXCEPT ![c] = @ + 1]
  /\ \/ /\ h # NoConn /\ Accepts(h, i)
        /\ pending' = [pending EXCEPT ![h][i] = c]
        /\ via' = [via EXCEPT ![c] = h]
        /\ reqId' = [reqId EXCEPT ![c] = i]
        /\ fut' = [fut EXCEPT ![c] = "pending"]
        /\ pc' = [pc EXCEPT ![c] = "sending"]
     \/ /\ ~(h # NoConn /\ Accepts(h, i))
        /\ UNCHANGED <<pending, via, reqId, fut, pc>>
  /\ UNCHANGED <<pairing, conns, wire, held, session>>

PopAny(c) == pending' = [pending EXCEPT ![via[c]][reqId[c]] = NoClient]

\* The entry under the id is removed only if it is this request's.
PopOwn(c) ==
  pending' = [pending EXCEPT ![via[c]][reqId[c]] = IF @ = c THEN NoClient ELSE @]

\* The finally clause of the request.
Done(c, label) ==
  /\ PopOwn(c)
  /\ pc' = [pc EXCEPT ![c] = label]
  /\ via' = [via EXCEPT ![c] = NoConn]
  /\ reqId' = [reqId EXCEPT ![c] = NoId]
  /\ fut' = [fut EXCEPT ![c] = "none"]
  /\ held' = [held EXCEPT ![c] = NoMsg]
  /\ UNCHANGED <<pairing, conns, wire, nth, used, session>>

Message(c) == [id |-> reqId[c], from |-> c, nth |-> nth[c]]

\* The request is sent, under the connection's lock.  On a broken socket it is
\* sent into the void.
Send(c) ==
  /\ pc[c] = "sending"
  /\ pc' = [pc EXCEPT ![c] = "waiting"]
  /\ wire' = IF link[via[c]] = "up"
             THEN [wire EXCEPT ![via[c]] = Append(@, Message(c))] ELSE wire
  /\ UNCHANGED <<pairing, conns, pending, via, reqId, nth, fut, held, used,
                 session>>

\* On a broken socket sending may also fail: the client is told relay_error,
\* or, when the failure is a WebSocketDisconnect, is taken for gone.
SendFails(c) ==
  /\ pc[c] = "sending"
  /\ link[via[c]] # "up"
  /\ \E label \in {"ready", "gone"} : Done(c, label)

\* client_timeout_sec is over: wait_for cancels the future and lets the loop run
\* before it raises.
TimeOut(c) ==
  /\ pc[c] = "waiting"
  /\ fut[c] = "pending"
  /\ fut' = [fut EXCEPT ![c] = "timedOut"]
  /\ UNCHANGED <<pairing, conns, pending, wire, via, reqId, nth, held, used,
                 pc, session>>

OnlyAnswered(c) == fut[c] \in {"answered", "timedOut"}

Awake(c) == fut[c] # "pending"

\* The waiting handler resumes and sends the answer or the error.
Reply(c) ==
  /\ pc[c] = "waiting"
  /\ Awake(c)
  /\ Done(c, "ready")

\* The client closes its websocket.  A client that leaves while it waits is
\* noticed when its handler is done with the request.
HangUp(c) ==
  /\ pc[c] = "ready"
  /\ pc' = [pc EXCEPT ![c] = "gone"]
  /\ UNCHANGED <<pairing, conns, traffic, session>>

-----------------------------------------------------------------------------
Next ==
  \/ \E h \in Conns, n \in Nodes : Connect(h, n)
  \/ \E h \in Conns : Offer(h) \/ Lose(h) \/ Cleanup(h) \/ Respond(h)
  \/ \E n \in Nodes : Pair(n) \/ ExpireOffer(n) \/ ExpireSession(n)
  \/ \E c \in Clients, n \in Nodes : Attach(c, n)
  \/ \E c \in Clients, i \in Ids : Request(c, i)
  \/ \E c \in Clients : Send(c) \/ SendFails(c) \/ TimeOut(c) \/ Reply(c) \/ HangUp(c)

\* The loop runs what is ready and fires timers; the websocket server notices a
\* lost socket by its pings.  Connectors and clients owe the relay nothing.
Fairness ==
  /\ \A c \in Clients : WF_vars(Send(c)) /\ WF_vars(TimeOut(c)) /\ WF_vars(Reply(c))
  /\ \A h \in Conns : WF_vars(Cleanup(h))

Spec == Init /\ [][Next]_vars
FairSpec == Spec /\ Fairness

-----------------------------------------------------------------------------
(***************************************************************************)
(* What the relay promises.                                                *)
(***************************************************************************)
InFlight(c) == pc[c] \in {"sending", "waiting"}

\* A client that uses a fresh id, as docs/PROTOCOL.md asks, gets the answer to
\* the request it is waiting for, not to another client's, nor to an earlier one
\* that timed out, whatever ids other clients use.
AnswersAreOwn ==
  \A c \in Clients : fut[c] = "answered" /\ reqId[c] \in FreshIds =>
    held[c].from = c /\ held[c].nth = nth[c]

\* Under whatever ids: a handler that waits is registered where the answer will
\* look for it.  The cleanup of a late request must not take away the entry
\* another client has made under the same id.
WaitingIsPending ==
  \A c \in Clients : fut[c] = "pending" => pending[via[c]][reqId[c]] = c

\* "Always restore state: never leak pending entries" (comment in ws_client):
\* an entry is of a handler that is at that request.
PendingIsWaiting ==
  \A h \in Conns : \A i \in InUse(h) : LET c == pending[h][i] IN
    InFlight(c) /\ via[c] = h /\ reqId[c] = i

\* Entries and handlers match both ways, although ids are shared and reused: no
\* wait is lost and no entry is leaked, which would count against the limit of
\* pending requests for ever.
EntriesMatchHandlers == WaitingIsPending /\ PendingIsWaiting

\* Nobody is left waiting on a connection that is gone, and no request goes
\* there.
GoneIsForgotten ==
  \A h \in Conns : link[h] = "closed" =>
    /\ \A n \in Nodes : nodes[n] # h
    /\ \A c \in Clients : via[c] = h => fut[c] # "pending"

\* A connector whose socket works can be reached, although the cleanup of an
\* earlier connection may come after its own registration.
ConnectedIsReachable ==
  \A h \in Conns : link[h] = "up" => nodes[nodeOf[h]] = h

\* "Cap in-flight requests per node" (comment in ws_client), per connection.
PendingIsBounded == \A h \in Conns : Cardinality(InUse(h)) <= MaxPending

\* Every request ends, whether the node answers, is lost or keeps silent.
EveryRequestEnds == \A c \in Clients : InFlight(c) ~> ~InFlight(c)

-----------------------------------------------------------------------------
(***************************************************************************)
(* The inductive invariant behind the safety properties.                   *)
(***************************************************************************)

\* What a handler keeps while it is at a request, and only then.
HandlerInv ==
  \A c \in Clients :
    /\ InFlight(c) <=> fut[c] # "none"
    /\ InFlight(c) => via[c] \in Conns /\ reqId[c] \in Ids
    /\ pc[c] = "ready" \/ InFlight(c) => session[c] \in Nodes

\* An entry is of an unanswered request of a handler; a handler whose future is
\* pending has its entry.
PendingInv ==
  /\ \A h \in Conns, i \in Ids, c \in Clients : pending[h][i] = c =>
       via[c] = h /\ reqId[c] = i /\ fut[c] \in {"pending", "timedOut"}
  /\ WaitingIsPending

\* Who is registered, and what is left of a connection that is not there.
ConnInv ==
  /\ ConnectedIsReachable
  /\ \A n \in Nodes, h \in Conns : nodes[n] = h =>
       nodeOf[h] = n /\ link[h] \in {"up", "lost"}
  /\ \A h \in Conns :
       /\ nodeOf[h] = NoNode <=> link[h] = "unused"
       /\ link[h] \in {"unused", "closed"} =>
            \A i \in Ids : pending[h][i] = NoClient

\* The requests a node has yet to answer.
Sent == UNION {{wire[h][j] : j \in 1 .. Len(wire[h])} : h \in Conns}

\* What is on the wire under the fresh id of a handler's request is that request,
\* and so is the answer.
IdInv ==
  /\ \A c \in Clients : InFlight(c) => reqId[c] \in used
  /\ \A m \in Sent : m.id \in used
  /\ \A c, d \in Clients :
       InFlight(c) /\ InFlight(d) /\ reqId[c] = reqId[d] /\ reqId[c] \in FreshIds => c = d
  /\ \A m \in Sent, c \in Clients :
       InFlight(c) /\ reqId[c] = m.id /\ m.id \in FreshIds => m = Message(c)
  /\ \A c \in Clients :
       fut[c] = "answered" /\ reqId[c] \in FreshIds => held[c] = Message(c)

BoundInv ==
  \A h \in Conns : IsFiniteSet(InUse(h)) /\ Cardinality(InUse(h)) <= MaxPending

RelayInv == HandlerInv /\ PendingInv /\ ConnInv /\ IdInv /\ BoundInv

=============================================================================
