---------------------------- MODULE EventManager ----------------------------
(***************************************************************************)
(* The event bus of the Core API (core/src/ora_core/engine/                *)
(* simple_worker.py), with the two HTTP handlers in front of it            *)
(* (core/src/ora_core/api/routes/runs.py).                                 *)
(*                                                                         *)
(* A run publishes an ordered stream of events that ends with one "final"  *)
(* or "error" event.  An SSE connection reads the stream through a queue   *)
(* of its own; a run remembers ONE queue.  Events published while no queue *)
(* is registered are kept in a bounded buffer.  The bus also hands the     *)
(* results of externally executed tools, which arrive by POST, to the run  *)
(* loop that waits for them.                                               *)
(*                                                                         *)
(* Everything runs on one asyncio loop.  The lock bodies of the bus        *)
(* contain no await and its queues are unbounded, so a method call runs to *)
(* its end without interleaving: one action per method.  Interleaving      *)
(* happens between calls, and around the generator of a connection, whose  *)
(* finally clause runs some time after the generator has stopped.          *)
(*                                                                         *)
(* An event is represented by its position in the run's log, the sequence  *)
(* of the kinds of the events the bus accepted.  The log is a history      *)
(* variable: no code keeps it.                                             *)
(***************************************************************************)
EXTENDS Naturals, Sequences, FiniteSets

CONSTANTS
  Runs,         \* run ids
  Conns,        \* SSE requests: each is one GET /runs/{run_id}/events
  ToolIds,      \* tool_call ids
  Posts,        \* POST /runs/{run_id}/results requests
  NoRun,        \* the run of a request that has not been made
  NoConn,       \* no queue is registered for the run
  NoPost,       \* no result
  BufferLimit,  \* _event_buffer_limit: buffered events per run (200)
  RunsLimit,    \* _event_buffer_runs_limit: buffered runs (1000)
  BufferTTL,    \* _event_buffer_ttl_sec (300)
  MaxUpdates,   \* bound: from so many events on, a run emits no updates
  MaxTime       \* bound: ticks of the loop clock

ASSUME ConstantsAssumption ==
  /\ NoRun \notin Runs
  /\ NoConn \notin Conns
  /\ NoPost \notin Posts
  /\ {"timeout", "cancelled"} \cap Posts = {}
  /\ NoPost \notin {"timeout", "cancelled"}
  /\ BufferLimit \in Nat \ {0}
  /\ RunsLimit \in Nat \ {0}
  /\ BufferTTL \in Nat

ASSUME BoundsAssumption == MaxUpdates \in [Runs -> Nat] /\ MaxTime \in Nat

Terminal == {"final", "error"}
Kinds    == {"update"} \cup Terminal
Keys     == Runs \X ToolIds            \* (run_id, tool_call_id)

VARIABLES
  log,        \* log[r]: kinds of the events accepted for run r (history)
  terminal,   \* _terminal_events: position of r's terminal event, 0 if none
  listeners,  \* listeners: the connection whose queue run r feeds
  buffer,     \* _event_buffer: positions kept for the next listener
  older,      \* <<q, r>>: q's key stands before r's in the buffer dict
  stamp,      \* _event_buffer_timestamps
  now,        \* loop.time()
  pc,         \* where the generator of a connection stands
  runOf,      \* the run a connection asked for
  online,     \* connections whose client is still there
  inbox,      \* what the generator has yet to yield: backlog, then queue
  got         \* what the client has received (history)

streamVars == <<log, terminal, listeners, buffer, older, stamp, inbox>>
connVars   == <<pc, runOf, online, got>>

VARIABLES
  expected,   \* _expected_tool_results
  submitted,  \* _submitted_tool_results
  registered, \* keys of _tool_result_waiters
  parked,     \* _tool_result_buffer
  fut,        \* the future a wait is suspended on
  held,       \* the result set on that future
  phase,      \* how far the run loop is with a call
  outcome,    \* what the wait gave the run loop
  answered,   \* the POSTs that have been answered
  accepted    \* accepted[k]: POSTs answered "accepted: true" (history)

toolVars == <<expected, submitted, registered, parked, fut, held, phase,
              outcome, answered, accepted>>
vars == <<streamVars, connVars, now, toolVars>>

TypeOK ==
  /\ log \in [Runs -> Seq(Kinds)]
  /\ terminal \in [Runs -> Nat]
  /\ listeners \in [Runs -> Conns \cup {NoConn}]
  /\ buffer \in [Runs -> Seq(Nat)]
  /\ older \in SUBSET (Runs \X Runs)
  /\ stamp \in [Runs -> Nat]
  /\ now \in Nat
  /\ pc \in [Conns -> {"idle", "streaming", "leaving", "gone"}]
  /\ runOf \in [Conns -> Runs \cup {NoRun}]
  /\ online \in SUBSET Conns
  /\ inbox \in [Conns -> Seq(Nat)]
  /\ got \in [Conns -> Seq(Nat)]
  /\ expected \in SUBSET Keys
  /\ submitted \in SUBSET Keys
  /\ registered \in SUBSET Keys
  /\ parked \in [Keys -> Posts \cup {NoPost}]
  /\ fut \in [Keys -> {"none", "pending", "resolved", "timedOut", "cancelled"}]
  /\ held \in [Keys -> Posts \cup {NoPost}]
  /\ phase \in [Keys -> {"idle", "expected", "waiting", "done"}]
  /\ outcome \in [Keys -> Posts \cup {NoPost, "timeout", "cancelled"}]
  /\ answered \in SUBSET Posts
  /\ accepted \in [Keys -> SUBSET Posts]

Init ==
  /\ log = [r \in Runs |-> <<>>]
  /\ terminal = [r \in Runs |-> 0]
  /\ listeners = [r \in Runs |-> NoConn]
  /\ buffer = [r \in Runs |-> <<>>]
  /\ older = {}
  /\ stamp = [r \in Runs |-> 0]
  /\ now = 0
  /\ pc = [c \in Conns |-> "idle"]
  /\ runOf = [c \in Conns |-> NoRun]
  /\ online = Conns
  /\ inbox = [c \in Conns |-> <<>>]
  /\ got = [c \in Conns |-> <<>>]
  /\ expected = {}
  /\ submitted = {}
  /\ registered = {}
  /\ parked = [k \in Keys |-> NoPost]
  /\ fut = [k \in Keys |-> "none"]
  /\ held = [k \in Keys |-> NoPost]
  /\ phase = [k \in Keys |-> "idle"]
  /\ outcome = [k \in Keys |-> NoPost]
  /\ answered = {}
  /\ accepted = [k \in Keys |-> {}]

-----------------------------------------------------------------------------
(***************************************************************************)
(* The buffer of events for runs nobody listens to.                        *)
(***************************************************************************)

\* A key is in the buffer dict exactly while its list is not empty.
Buffered == {r \in Runs : buffer[r] # <<>>}

Expired == {r \in Buffered : now - stamp[r] > BufferTTL}

\* Mutants of the definition below are operators named after the mistake; no
\* action uses them.
OverflowLate ==
  LET live == Buffered \ Expired
  IN {r \in live : Cardinality({q \in live : <<r, q>> \in older}) > RunsLimit}

\* The oldest runs, by insertion into the dict, beyond RunsLimit.
Overflow ==
  LET live == Buffered \ Expired
  IN {r \in live : Cardinality({q \in live : <<r, q>> \in older}) >= RunsLimit}

\* The keys left by _evict_event_buffers_locked.
Kept == Buffered \ (Expired \cup Overflow)

\* The buffered events of r that survive the eviction.
Backlog(r) == IF r \in Kept THEN buffer[r] ELSE <<>>

OldestKept(s) == SubSeq(s, 1, IF Len(s) > BufferLimit THEN BufferLimit ELSE Len(s))

Newest(s) ==
  IF Len(s) > BufferLimit
  THEN SubSeq(s, Len(s) - BufferLimit + 1, Len(s))
  ELSE s

\* Nobody listens to r: evict, then keep event n for a later listener.
BufferEvent(r, n) ==
  /\ buffer' = [q \in Runs |->
                  IF q = r THEN Newest(Append(Backlog(r), n)) ELSE Backlog(q)]
  /\ stamp' = [q \in Runs |->
                  IF q = r THEN now ELSE IF q \in Kept THEN stamp[q] ELSE 0]
  /\ older' = (older \cap (Kept \X Kept))
                \cup {<<q, r>> : q \in IF r \in Kept THEN {} ELSE Kept}

\* The part of emit that concerns events: an ended run publishes nothing more;
\* otherwise the event goes to the registered queue, or to the buffer.
Publish(r, kind) ==
  LET n == Len(log[r]) + 1 IN
  \/ /\ terminal[r] # 0
     /\ UNCHANGED streamVars
  \/ /\ terminal[r] = 0
     /\ log' = [log EXCEPT ![r] = Append(@, kind)]
     /\ terminal' = [terminal EXCEPT ![r] = IF kind \in Terminal THEN n ELSE 0]
     /\ UNCHANGED listeners
     /\ \/ /\ listeners[r] # NoConn
           /\ inbox' = [inbox EXCEPT ![listeners[r]] = Append(@, n)]
           /\ UNCHANGED <<buffer, older, stamp>>
        \/ /\ listeners[r] = NoConn
           /\ BufferEvent(r, n)
           /\ UNCHANGED inbox

-----------------------------------------------------------------------------
(***************************************************************************)
(* emit: publish, and when the event ends the run, release what the run    *)
(* holds for tool results.  A call for an ended run changes nothing.       *)
(***************************************************************************)
KeysOf(r) == {r} \X ToolIds

ReleaseSwapped(r) ==
  /\ fut' = [k \in Keys |->
               IF k \in KeysOf(r) \cap registered /\ fut[k] = "pending"
               THEN "cancelled" ELSE fut[k]]
  /\ registered' = registered \ KeysOf(r)
  /\ parked' = [k \in Keys |-> IF k \in KeysOf(r) THEN NoPost ELSE parked[k]]
  /\ expected' = expected \ KeysOf(r)
  /\ submitted' = submitted \ (KeysOf(r) \cap expected')
  /\ UNCHANGED <<held, phase, outcome, answered, accepted>>

ReleaseToolResults(r) ==
  /\ fut' = [k \in Keys |->
               IF k \in KeysOf(r) \cap registered /\ fut[k] = "pending"
               THEN "cancelled" ELSE fut[k]]
  /\ registered' = registered \ KeysOf(r)
  /\ parked' = [k \in Keys |-> IF k \in KeysOf(r) THEN NoPost ELSE parked[k]]
  /\ submitted' = submitted \ (KeysOf(r) \cap expected)
  /\ expected' = expected \ KeysOf(r)
  /\ UNCHANGED <<held, phase, outcome, answered, accepted>>

Emit(r, kind) ==
  /\ terminal[r] = 0
  /\ kind \in Terminal \/ Len(log[r]) < MaxUpdates[r]
  /\ Publish(r, kind)
  /\ \/ kind \in Terminal /\ ReleaseToolResults(r)
     \/ kind \notin Terminal /\ UNCHANGED toolVars
  /\ UNCHANGED <<connVars, now>>

-----------------------------------------------------------------------------
(***************************************************************************)
(* An SSE connection: stream_run_events over EventManager.listen.          *)
(***************************************************************************)

\* What listen yields first: the backlog; a run that has ended shows its
\* terminal event even if the backlog is gone.
BacklogOnly(r) == Backlog(r)

Replay(r) ==
  LET backlog == Backlog(r)
      ended   == \E i \in DOMAIN backlog : log[r][backlog[i]] \in Terminal
  IN IF terminal[r] # 0 /\ ~ended THEN Append(backlog, terminal[r]) ELSE backlog

\* Evict, and remove the backlog of r.
BacklogStays(r) ==
  /\ buffer' = [q \in Runs |-> Backlog(q)]
  /\ stamp' = [q \in Runs |-> IF q \in Kept THEN stamp[q] ELSE 0]
  /\ older' = older \cap (Kept \X Kept)

TakeBacklog(r) ==
  /\ buffer' = [q \in Runs |-> IF q = r THEN <<>> ELSE Backlog(q)]
  /\ stamp' = [q \in Runs |-> IF q \in Kept \ {r} THEN stamp[q] ELSE 0]
  /\ older' = older \cap ((Kept \ {r}) \X (Kept \ {r}))

\* listen up to its first yield: register the queue, whoever was registered
\* before, and take over the backlog.
Listen(c, r) ==
  /\ pc[c] = "idle"
  /\ pc' = [pc EXCEPT ![c] = "streaming"]
  /\ runOf' = [runOf EXCEPT ![c] = r]
  /\ listeners' = [listeners EXCEPT ![r] = c]
  /\ inbox' = [inbox EXCEPT ![c] = Replay(r)]
  /\ TakeBacklog(r)
  /\ UNCHANGED <<log, terminal, online, got, now, toolVars>>

\* The next event of c's generator is the last it yields.
EndsOnFinal(c) == log[runOf[c]][Head(inbox[c])] = "final"

EndsStream(c) == log[runOf[c]][Head(inbox[c])] \in Terminal

\* The generator yields the next event.  If the client is gone the event is
\* lost: is_disconnected() breaks the loop, or the loss is not noticed yet.
\* A terminal event ends the generator.
Deliver(c) ==
  /\ pc[c] = "streaming"
  /\ inbox[c] # <<>>
  /\ inbox' = [inbox EXCEPT ![c] = Tail(@)]
  /\ \/ /\ c \in online
        /\ got' = [got EXCEPT ![c] = Append(@, Head(inbox[c]))]
        /\ pc' = [pc EXCEPT ![c] = IF EndsStream(c) THEN "leaving" ELSE @]
     \/ /\ c \notin online
        /\ \/ pc' = [pc EXCEPT ![c] = "leaving"]
           \/ ~EndsStream(c) /\ UNCHANGED pc
        /\ UNCHANGED got
  /\ UNCHANGED <<log, terminal, listeners, buffer, older, stamp,
                 runOf, online, now, toolVars>>

\* The client closes the connection, or the network does.
Drop(c) ==
  /\ pc[c] = "streaming"
  /\ c \in online
  /\ online' = online \ {c}
  /\ UNCHANGED <<streamVars, pc, runOf, got, now, toolVars>>

\* The server notices and cancels the response.
Cancel(c) ==
  /\ pc[c] = "streaming"
  /\ c \notin online
  /\ pc' = [pc EXCEPT ![c] = "leaving"]
  /\ UNCHANGED <<streamVars, runOf, online, got, now, toolVars>>

\* The finally clause of listen: unregister, without looking at whose queue is
\* registered by now, and drop what is buffered.
Cleanup(c) ==
  LET r == runOf[c] IN
  /\ pc[c] = "leaving"
  /\ pc' = [pc EXCEPT ![c] = "gone"]
  /\ listeners' = [listeners EXCEPT ![r] = NoConn]
  /\ buffer' = [buffer EXCEPT ![r] = <<>>]
  /\ stamp' = [stamp EXCEPT ![r] = 0]
  /\ older' = older \cap ((Runs \ {r}) \X (Runs \ {r}))
  /\ inbox' = [inbox EXCEPT ![c] = <<>>]
  /\ UNCHANGED <<log, terminal, runOf, online, got, now, toolVars>>

-----------------------------------------------------------------------------
(***************************************************************************)
(* The hand-over of tool results.                                          *)
(***************************************************************************)

\* ToolRunner.run_tool, for a result that carries a client action: expect the
\* result, then ask the client for it with a "dispatch" event.
Dispatch(k) ==
  /\ phase[k] = "idle"
  /\ terminal[k[1]] = 0
  /\ expected' = expected \cup {k}
  /\ phase' = [phase EXCEPT ![k] = "expected"]
  /\ Publish(k[1], "update")
  /\ UNCHANGED <<connVars, now, submitted, registered, parked, fut, held,
                 outcome, answered, accepted>>

SettleKeepsExpected(k, o) ==
  /\ outcome' = [outcome EXCEPT ![k] = o]
  /\ phase' = [phase EXCEPT ![k] = "done"]
  /\ submitted' = submitted \ {k}
  /\ UNCHANGED expected

Settle(k, o) ==
  /\ outcome' = [outcome EXCEPT ![k] = o]
  /\ phase' = [phase EXCEPT ![k] = "done"]
  /\ expected' = expected \ {k}
  /\ submitted' = submitted \ {k}

\* wait_for_tool_result up to the wait: a parked result is taken at once.  The
\* pass also waits for a call whose stored result carries a client action but
\* which was not dispatched by this invocation, and so is not expected.
BeginWait(k) ==
  /\ \/ phase[k] = "expected"
     \/ phase[k] = "idle" /\ terminal[k[1]] = 0
  /\ \/ /\ parked[k] # NoPost
        /\ parked' = [parked EXCEPT ![k] = NoPost]
        /\ Settle(k, parked[k])
        /\ UNCHANGED <<registered, fut>>
     \/ /\ parked[k] = NoPost
        /\ registered' = registered \cup {k}
        /\ fut' = [fut EXCEPT ![k] = "pending"]
        /\ phase' = [phase EXCEPT ![k] = "waiting"]
        /\ UNCHANGED <<expected, submitted, parked, outcome>>
  /\ UNCHANGED <<streamVars, connVars, now, held, answered, accepted>>

\* asyncio.wait_for gives up: it cancels the future and lets the loop run
\* before it raises TimeoutError.
TimeOut(k) ==
  /\ phase[k] = "waiting"
  /\ fut[k] = "pending"
  /\ fut' = [fut EXCEPT ![k] = "timedOut"]
  /\ UNCHANGED <<streamVars, connVars, now, expected, submitted, registered,
                 parked, held, phase, outcome, answered, accepted>>

\* The timer of the pass cancels the waiting task while the run goes on: inside
\* asyncio.wait_for the cancellation is passed to the future, or overtakes the
\* timeout of the wait.  A future with a result is returned all the same
\* (asyncio.wait_for of Python 3.11).
CancelWait(k) ==
  /\ phase[k] = "waiting"
  /\ fut[k] \in {"pending", "timedOut"}
  /\ fut' = [fut EXCEPT ![k] = "cancelled"]
  /\ UNCHANGED <<streamVars, connVars, now, expected, submitted, registered,
                 parked, held, phase, outcome, answered, accepted>>

FinishWaitUncancelled(k) ==
  /\ phase[k] = "waiting"
  /\ \/ fut[k] = "resolved" /\ Settle(k, held[k])
     \/ fut[k] = "timedOut" /\ Settle(k, "timeout")
  /\ registered' = registered \ {k}
  /\ fut' = [fut EXCEPT ![k] = "none"]
  /\ UNCHANGED <<streamVars, connVars, now, parked, held, answered, accepted>>

\* The waiting task resumes; the finally clause of wait_for_tool_result.  A
\* cancelled wait gives the pass an error and the pass goes on.
FinishWait(k) ==
  /\ phase[k] = "waiting"
  /\ \/ fut[k] = "resolved" /\ Settle(k, held[k])
     \/ fut[k] = "timedOut" /\ Settle(k, "timeout")
     \/ fut[k] = "cancelled" /\ Settle(k, "cancelled")
  /\ registered' = registered \ {k}
  /\ fut' = [fut EXCEPT ![k] = "none"]
  /\ UNCHANGED <<streamVars, connVars, now, parked, held, answered, accepted>>

HandOverDrops(k, p) ==
  /\ fut' = IF fut[k] = "pending" THEN [fut EXCEPT ![k] = "resolved"] ELSE fut
  /\ held' = [held EXCEPT ![k] = p]
  /\ UNCHANGED parked

\* Without a live waiter the result is parked.
HandOver(k, p) ==
  \/ /\ k \in registered /\ fut[k] = "pending"
     /\ fut' = [fut EXCEPT ![k] = "resolved"]
     /\ held' = [held EXCEPT ![k] = p]
     /\ UNCHANGED parked
  \/ /\ ~(k \in registered /\ fut[k] = "pending")
     /\ parked' = [parked EXCEPT ![k] = p]
     /\ UNCHANGED <<fut, held>>

\* submit_run_tool_result: refused with 409 unless the run expects it, answered
\* as a duplicate if one was submitted before, else handed over and announced.
PostResult(p, k) ==
  /\ p \notin answered
  /\ answered' = answered \cup {p}
  /\ \/ /\ k \notin expected \/ k \in submitted
        /\ UNCHANGED <<streamVars, submitted, parked, fut, held, accepted>>
     \/ /\ k \in expected \ submitted
        /\ submitted' = submitted \cup {k}
        /\ accepted' = [accepted EXCEPT ![k] = @ \cup {p}]
        /\ HandOver(k, p)
        /\ Publish(k[1], "update")
  /\ UNCHANGED <<connVars, now, expected, registered, phase, outcome>>

-----------------------------------------------------------------------------
\* The loop's clock, which only the expiry of buffers reads.
Tick ==
  /\ now < MaxTime
  /\ now' = now + 1
  /\ UNCHANGED <<streamVars, connVars, toolVars>>

Next ==
  \/ \E r \in Runs, kind \in Kinds : Emit(r, kind)
  \/ \E c \in Conns, r \in Runs : Listen(c, r)
  \/ \E c \in Conns : Deliver(c) \/ Drop(c) \/ Cancel(c) \/ Cleanup(c)
  \/ \E k \in Keys : Dispatch(k) \/ BeginWait(k)
  \/ \E k \in Keys : TimeOut(k) \/ CancelWait(k) \/ FinishWait(k)
  \/ \E p \in Posts, k \in Keys : PostResult(p, k)
  \/ Tick

\* The loop runs every ready task: generators yield and clean up, timers fire
\* and resumed waits finish.  Clients and run loops owe the bus nothing.
Fairness ==
  /\ \A c \in Conns : WF_vars(Deliver(c)) /\ WF_vars(Cancel(c))
                        /\ WF_vars(Cleanup(c))
  /\ \A k \in Keys : WF_vars(TimeOut(k)) /\ WF_vars(FinishWait(k))

Spec == Init /\ [][Next]_vars
FairSpec == Spec /\ Fairness

-----------------------------------------------------------------------------
(***************************************************************************)
(* What the bus promises.                                                  *)
(***************************************************************************)

\* What client c has received and, if it stays, will receive of its run.
Stream(c) == got[c] \o inbox[c]

Consecutive(s) == \A i \in 1 .. Len(s) - 1 : s[i + 1] = s[i] + 1

\* "Canonical authenticated ordered run event stream" (docs/contracts/
\* sse-run-events.md): whatever is buffered, evicted, trimmed, replayed or
\* taken over by other connections, the stream of one connection never skips,
\* repeats or reorders an event between its first and its last.
StreamsHaveNoGaps ==
  \A c \in Conns : /\ Consecutive(got[c])
                   /\ c \in online => Consecutive(Stream(c))

\* The terminal rule of the contract: no event follows a terminal event, in
\* the run's log or on any connection.
NothingFollowsTerminal ==
  /\ \A r \in Runs : \A i \in 1 .. Len(log[r]) - 1 : log[r][i] \notin Terminal
  /\ \A c \in online : \A i \in 1 .. Len(Stream(c)) - 1 :
       log[runOf[c]][Stream(c)[i]] \notin Terminal

\* Listen registers its queue before it takes the backlog: the connection that
\* is registered when its run has ended holds the terminal event.
RegisteredHoldsTerminal ==
  \A c \in online : \A r \in Runs :
    listeners[r] = c /\ terminal[r] # 0 =>
      \E i \in DOMAIN Stream(c) : Stream(c)[i] = terminal[r]

\* A backlog is what the next connection must see next: it is kept only while
\* nobody is registered and it ends with the newest event, so that the event
\* after it reaches the same connection.
BacklogIsCurrent ==
  \A r \in Runs : buffer[r] # <<>> =>
    /\ listeners[r] = NoConn
    /\ buffer[r][Len(buffer[r])] = Len(log[r])

\* How the stream of a run was told to have ended.
Told(r) == IF terminal[r] = 0 THEN "open" ELSE log[r][terminal[r]]

\* What clients see of the bus.
Events == INSTANCE RunStream WITH
            length <- [r \in Runs |-> Len(log[r])],
            told   <- [r \in Runs |-> Told(r)],
            runOf  <- runOf,
            got    <- got

\* The bus is one ordered stream per run: the buffer, its limits and expiry, the
\* replay, and queues that replace each other change nothing about what a client
\* may receive next.
KeepsStream == Events!Spec

\* The buffer limits: a run keeps no more than its newest events, and evicting
\* before inserting lets one run too many in, but never a second one.
BufferIsBounded ==
  /\ \A r \in Runs : Len(buffer[r]) <= BufferLimit
  /\ Cardinality(Buffered) <= RunsLimit + 1

\* Of all the POSTs for one tool call, retries and late ones included, at most
\* one is answered "accepted: true".
AtMostOneAccepted == \A k \in Keys : \A p, q \in accepted[k] : p = q

\* A run that has ended holds nothing for tool results and takes none.
EndedRunHoldsNothing ==
  \A r \in Runs : terminal[r] # 0 => \A k \in KeysOf(r) :
    /\ k \notin expected
    /\ k \notin submitted
    /\ parked[k] = NoPost

\* While the run goes on, an accepted result is somewhere the run loop may
\* find it, or has reached it.
AcceptedResultIsKept ==
  \A k \in Keys : terminal[k[1]] = 0 => \A p \in accepted[k] :
    \/ parked[k] = p
    \/ k \in registered /\ fut[k] = "resolved" /\ held[k] = p
    \/ outcome[k] = p

\* The results a wait returns were posted for that call and accepted.
OutcomeWasAccepted ==
  \A k \in Keys : outcome[k] \in Posts => outcome[k] \in accepted[k]

\* How far the hand-over of the result of a call is.
Stage(k) ==
  CASE accepted[k] # {} -> "given"
    [] accepted[k] = {} /\ k \in expected -> "asked"
    [] accepted[k] = {} /\ k \notin expected ->
         IF phase[k] = "idle" THEN "new" ELSE "closed"

Taken(k) ==
  IF accepted[k] = {} THEN NoPost ELSE CHOOSE p \in accepted[k] : TRUE

\* What run loops see of the bus.
Handover == INSTANCE ResultHandover WITH
              state   <- [k \in Keys |-> Stage(k)],
              value   <- [k \in Keys |-> Taken(k)],
              outcome <- outcome

\* Each call is handed at most one of the results posted for it, and one only if
\* it was asked for and its wait has not given up; the wait returns that one, a
\* timeout or a cancellation: parking, futures, the two timers and the release at
\* the end of a run, in whatever order they meet, change nothing about that.
HandsOverOnce == Handover!Spec

\* A client that stays on the registered connection of an ended run gets the
\* terminal event.
RegisteredClientSeesEnd ==
  \A c \in Conns, r \in Runs :
    (listeners[r] = c /\ terminal[r] # 0)
      ~> (c \notin online \/ \E i \in DOMAIN got[c] : got[c][i] = terminal[r])

\* No listener stays registered for a run that has ended.
ListenersReleased ==
  \A r \in Runs : terminal[r] # 0 ~> listeners[r] = NoConn

\* A wait for a tool result ends, by the result, the timeout, a cancellation or
\* the run's end; also the wait for a result that nobody was asked for.
EveryWaitEnds == \A k \in Keys : phase[k] = "waiting" ~> phase[k] = "done"

-----------------------------------------------------------------------------
(***************************************************************************)
(* What the documentation says and the code does not keep.                 *)
(***************************************************************************)

\* The buffer exists so that no client will "hang forever waiting for events
\* that were already emitted" (comment on _event_buffer): no open stream waits
\* for events that are in the buffer.  But a run has one queue, and the cleanup
\* of one connection unregisters whichever connection is registered: a client
\* that reconnects before its earlier connection is cleaned up waits for events
\* that are buffered, for ever if the terminal event is among them.
NoStreamHangsOnBuffered ==
  \A c \in online : pc[c] = "streaming" /\ inbox[c] = <<>> =>
    buffer[runOf[c]] = <<>>

-----------------------------------------------------------------------------
(***************************************************************************)
(* The inductive invariant behind the safety properties.                   *)
(***************************************************************************)

Within(s, n) == \A i \in 1 .. Len(s) : s[i] \in 1 .. n

LastOf(s) == s[Len(s)]

\* The only terminal event of a log is its last one, and terminal[r] is it.
LogInv ==
  \A r \in Runs :
    /\ terminal[r] # 0 => terminal[r] = Len(log[r])
    /\ \A i \in 1 .. Len(log[r]) : log[r][i] \in Terminal <=> i = terminal[r]

\* A backlog is an unbroken end of the log, and nobody is registered.
BufferInv ==
  \A r \in Runs :
    /\ Within(buffer[r], Len(log[r]))
    /\ Consecutive(buffer[r])
    /\ Len(buffer[r]) <= BufferLimit
    /\ buffer[r] # <<>> => /\ listeners[r] = NoConn
                           /\ LastOf(buffer[r]) = Len(log[r])

\* A request that has not been made has no run and no stream.
ConnInv ==
  \A c \in Conns :
    /\ pc[c] = "idle" <=> runOf[c] = NoRun
    /\ pc[c] = "idle" => inbox[c] = <<>> /\ got[c] = <<>> /\ c \in online
    /\ \A r \in Runs : listeners[r] = c =>
         runOf[c] = r /\ pc[c] \in {"streaming", "leaving"}

\* A stream is an unbroken piece of the log of its run.
StreamInv ==
  \A c \in Conns :
    /\ Consecutive(got[c])
    /\ c \in online => Consecutive(Stream(c))
    /\ runOf[c] # NoRun =>
         Within(got[c], Len(log[runOf[c]])) /\ Within(inbox[c], Len(log[runOf[c]]))

\* The registered stream is up to date.
RegisteredInv ==
  \A c \in online : \A r \in Runs : listeners[r] = c =>
    /\ Stream(c) # <<>> => LastOf(Stream(c)) = Len(log[r])
    /\ terminal[r] # 0 => Stream(c) # <<>>

\* Where a call is with its results.  Only an expected call has one submitted,
\* and only an unended run expects a call; a parked or held result was accepted;
\* before the wait, an accepted result is parked, during it there is none
\* parked unless the timer has fired.
ToolKeyInv(k) ==
  /\ k \in submitted => k \in expected
  /\ k \in expected => phase[k] \in {"expected", "waiting"} /\ terminal[k[1]] = 0
  /\ k \in expected \ submitted => accepted[k] = {} /\ parked[k] = NoPost
  /\ \A p, q \in accepted[k] : p = q
  /\ terminal[k[1]] # 0 => parked[k] = NoPost
  /\ phase[k] = "idle" => accepted[k] = {} /\ parked[k] = NoPost
  /\ phase[k] # "done" => outcome[k] = NoPost
  /\ phase[k] = "waiting" <=> fut[k] # "none"
  /\ fut[k] = "pending" => k \in registered /\ parked[k] = NoPost
  /\ fut[k] = "resolved" => held[k] \in accepted[k]
  /\ fut[k] = "resolved" /\ terminal[k[1]] = 0 => k \in registered
  /\ parked[k] # NoPost => parked[k] \in accepted[k]
  /\ outcome[k] \in Posts => outcome[k] \in accepted[k]
  /\ terminal[k[1]] = 0 => \A p \in accepted[k] :
       \/ parked[k] = p
       \/ fut[k] = "resolved" /\ held[k] = p
       \/ outcome[k] = p

ToolInv == \A k \in Keys : ToolKeyInv(k)

\* What is accepted has been answered.
HandInv == \A k \in Keys : accepted[k] \subseteq answered

IInv == TypeOK /\ LogInv /\ BufferInv /\ ConnInv /\ StreamInv /\ RegisteredInv

\* The keys of the buffer stand in a line, the order of the dict, and there is
\* at most one too many.
InLine(keys, order) ==
  /\ order \subseteq keys \X keys
  /\ \A q \in keys : <<q, q>> \notin order
  /\ \A q, r \in keys : q # r => <<q, r>> \in order \/ <<r, q>> \in order
  /\ \A p, q, r \in keys : <<p, q>> \in order /\ <<q, r>> \in order => <<p, r>> \in order

LineInv ==
  /\ InLine(Buffered, older)
  /\ IsFiniteSet(Buffered)
  /\ Cardinality(Buffered) <= RunsLimit + 1

=============================================================================
