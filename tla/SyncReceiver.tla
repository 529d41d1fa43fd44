---------------------------- MODULE SyncReceiver ----------------------------
(***************************************************************************)
(* How the CLI receives what other devices wrote: `yonerai sync listener   *)
(* poll`, `firestore-poll` and `once` read a page of body-free metadata    *)
(* events, fetch the message body of each, and keep in a state file the    *)
(* cursor of every conversation and the ids it has seen                    *)
(* (services/realtime_sync_client_service.py).                             *)
(*                                                                         *)
(* The file is loaded again for every event, and written in place: between *)
(* the load and the write there is a request, and other invocations of the *)
(* CLI may load and write too.  A request or a write may fail and the      *)
(* process may be killed; every event is offered again until it is         *)
(* recorded.                                                               *)
(*                                                                         *)
(* The feed is outside the repository: it numbers an account's events in   *)
(* the order of their cursors and offers them in that order.  The account  *)
(* and the session are valid; an event the validation rejects is a request *)
(* that fails.                                                             *)
(***************************************************************************)
EXTENDS Integers, Sequences, SequencesExt

CONSTANTS
  MaxEvents, \* bound: events of the account
  ConvOf,    \* conversation_id of an event
  KeyOf,     \* idempotency_key of an event
  Bodies,    \* events whose validation allows a fetch of the body
  Procs,     \* invocations of the CLI
  Kind,      \* "feed" (poll) or "firestore" (firestore-poll, once)
  Repeated,  \* those that are started again and again
  Limit,     \* events of a page
  Keep,      \* ids kept for a conversation (100)
  MaxFaults  \* bound: failures and kills

\* Events are numbered in the order of their cursors.
Events == 1 .. MaxEvents

ASSUME SyncAssumption ==
  /\ MaxEvents \in Nat
  /\ Bodies \subseteq Events
  /\ DOMAIN ConvOf = Events
  /\ DOMAIN KeyOf = Events
  /\ Kind \in [Procs -> {"feed", "firestore"}]
  /\ Repeated \subseteq Procs
  /\ Limit \in Nat \ {0}
  /\ Keep \in Nat \ {0}
  /\ MaxFaults \in Nat

Convs == {ConvOf[e] : e \in Events}
Keys  == {KeyOf[e] : e \in Events}

VARIABLES
  published, \* events the feed has
  file,      \* the state file: what is kept for each conversation
  proc,      \* where an invocation stands
  got,       \* events whose body arrived (history)
  intact,    \* no update was lost and no id dropped so far (history)
  faults     \* failures so far

vars == <<published, file, proc, got, intact, faults>>

Nothing == [cursor |-> 0, ids |-> <<>>, keys |-> <<>>,
            bodyIds |-> <<>>, bodyKeys |-> <<>>]
Empty   == [c \in Convs |-> Nothing]

Conversation == [cursor : Events \cup {0}, ids : Seq(Events), keys : Seq(Keys),
                 bodyIds : Seq(Events), bodyKeys : Seq(Keys)]
FileState    == [Convs -> Conversation]
ProcState    == [at : {"idle", "request", "next", "fetching", "saving",
                       "writing", "done"},
                 copy : FileState,   \* the file as it was loaded
                 fresh : BOOLEAN,    \* nobody wrote it since (history)
                 next : 1 .. MaxEvents + 1, \* the page's next event
                 last : 0 .. MaxEvents]     \* and its last one

TypeOK ==
  /\ published \in Events \cup {0}
  /\ file \in FileState
  /\ proc \in [Procs -> ProcState]
  /\ got \in SUBSET Bodies
  /\ intact \in BOOLEAN
  /\ faults \in 0 .. MaxFaults

Init ==
  /\ published = 0
  /\ file = Empty
  /\ proc = [p \in Procs |->
       [at |-> "idle", copy |-> Empty, fresh |-> TRUE, next |-> 1, last |-> 0]]
  /\ got = {}
  /\ intact = TRUE
  /\ faults = 0

-----------------------------------------------------------------------------
(***************************************************************************)
(* The state file.                                                         *)
(***************************************************************************)

\* _append_limited.
Appended(s, x) ==
  LET t == IF Contains(s, x) THEN s ELSE Append(s, x)
  IN  IF Len(t) > Keep THEN Tail(t) ELSE t

\* Mutants: operators named after a mistake; no action uses them.
KnownLast(f, e) == f[ConvOf[e]].cursor = e

Duplicate(f, e) ==
  \/ Contains(f[ConvOf[e]].ids, e)
  \/ Contains(f[ConvOf[e]].keys, KeyOf[e])

\* _duplicate_needs_body_fetch_retry: neither id nor key has had its body.
HasBody(f, e) ==
  \/ Contains(f[ConvOf[e]].bodyIds, e)
  \/ Contains(f[ConvOf[e]].bodyKeys, KeyOf[e])

Fetches(f, e) == e \in Bodies /\ (Duplicate(f, e) => ~HasBody(f, e))

RecordedWithBody(f, e) ==
  LET c    == f[ConvOf[e]]
      seen == IF Duplicate(f, e) THEN c
              ELSE [c EXCEPT !.ids = Appended(@, e), !.keys = Appended(@, KeyOf[e])]
      kept == IF e \notin Bodies THEN seen
              ELSE [seen EXCEPT !.cursor = e, !.bodyIds = Appended(@, e),
                                !.bodyKeys = Appended(@, KeyOf[e])]
  IN  [f EXCEPT ![ConvOf[e]] = kept]

\* _record_state: a duplicate leaves the cursor where it is.
Recorded(f, e) ==
  LET c    == f[ConvOf[e]]
      seen == IF Duplicate(f, e) THEN c
              ELSE [c EXCEPT !.cursor = e, !.ids = Appended(@, e),
                             !.keys = Appended(@, KeyOf[e])]
      kept == IF e \notin Bodies THEN seen
              ELSE [seen EXCEPT !.bodyIds = Appended(@, e),
                                !.bodyKeys = Appended(@, KeyOf[e])]
  IN  [f EXCEPT ![ConvOf[e]] = kept]

\* _latest_account_cursor: the largest cursor of any conversation.
IsAccountCursor(f, n) ==
  /\ \/ n = 0
     \/ \E c \in Convs : f[c].cursor = n
  /\ \A c \in Convs : f[c].cursor <= n

Writing(q) == proc[q].at = "writing"

\* _load_state: while somebody writes the file, it may be unreadable, which is
\* taken for an empty state.
Loads(p, f) == f = file \/ (f = Empty /\ \E q \in Procs \ {p} : Writing(q))

Misread(f) == f # file

-----------------------------------------------------------------------------
(***************************************************************************)
(* An invocation.                                                          *)
(***************************************************************************)
Fault == faults < MaxFaults /\ faults' = faults + 1

\* Its state when it ends.
Ended(p) == [at |-> IF p \in Repeated THEN "idle" ELSE "done", copy |-> Empty,
             fresh |-> TRUE, next |-> 1, last |-> 0]

End(p) == proc' = [proc EXCEPT ![p] = Ended(p)]

\* The state is loaded for its cursor.  (A firestore-poll within the cooldown of
\* the last one ends here and is left out.)
Poll(p) ==
  /\ proc[p].at = "idle"
  /\ \E f \in {file, Empty} :
       /\ Loads(p, f)
       /\ proc' = [proc EXCEPT ![p].at = "request", ![p].copy = f]
  /\ UNCHANGED <<published, file, got, intact, faults>>

FromTheStart(p, first) == first = 1

\* Where a page begins: after the cursor in the account's feed; the query to
\* Firestore has no cursor.
PageStart(p, first) ==
  \/ Kind[p] = "firestore" /\ first = 1
  \/ Kind[p] = "feed" /\ IsAccountCursor(proc[p].copy, first - 1)

\* The page arrives: at most Limit events from there on.
Receive(p) ==
  /\ proc[p].at = "request"
  /\ \E first \in 1 .. published + 1 :
       /\ PageStart(p, first)
       /\ proc' = [proc EXCEPT ![p].at = "next", ![p].copy = Empty, ![p].next = first,
            ![p].last = IF first + Limit - 1 < published THEN first + Limit - 1
                        ELSE published]
  /\ UNCHANGED <<published, file, got, intact, faults>>

\* The next event: the file is loaded and the event is checked against it.  One
\* that is known and needs no body is passed over; one that has no body is
\* recorded at once.
Take(p) ==
  LET e == proc[p].next
  IN  /\ proc[p].at = "next"
      /\ e <= proc[p].last
      /\ \E f \in {file, Empty} :
           /\ Loads(p, f)
           /\ \/ /\ Fetches(f, e)
                 /\ proc' = [proc EXCEPT ![p].at = "fetching", ![p].copy = f,
                                         ![p].fresh = ~Misread(f)]
              \/ /\ ~Fetches(f, e)
                 /\ ~Duplicate(f, e)
                 /\ proc' = [proc EXCEPT ![p].at = "saving", ![p].copy = f,
                                         ![p].fresh = ~Misread(f)]
              \/ /\ ~Fetches(f, e)
                 /\ Duplicate(f, e)
                 /\ proc' = [proc EXCEPT ![p].next = e + 1]
      /\ UNCHANGED <<published, file, got, intact, faults>>

\* The body arrives.
Fetch(p) ==
  /\ proc[p].at = "fetching"
  /\ got' = got \cup {proc[p].next}
  /\ proc' = [proc EXCEPT ![p].at = "saving"]
  /\ UNCHANGED <<published, file, intact, faults>>

FailAndGoOn(p) ==
  /\ proc[p].at = "fetching"
  /\ Fault
  /\ proc' = [proc EXCEPT ![p].at = "next", ![p].next = @ + 1]
  /\ UNCHANGED <<published, file, got, intact>>

\* A request or the opening of the file fails, and the poll returns.
Fail(p) ==
  /\ proc[p].at \in {"request", "fetching", "saving"}
  /\ Fault
  /\ End(p)
  /\ UNCHANGED <<published, file, got, intact>>

\* The page is done; after one from Firestore the time of the poll is stored,
\* which loads and writes the whole file once more.
Finish(p) ==
  /\ proc[p].at = "next"
  /\ proc[p].next > proc[p].last
  /\ \/ Kind[p] = "feed" /\ End(p)
     \/ /\ Kind[p] = "firestore"
        /\ \E f \in {file, Empty} :
             /\ Loads(p, f)
             /\ proc' = [proc EXCEPT ![p].at = "saving", ![p].copy = f,
                                     ![p].fresh = ~Misread(f)]
  /\ UNCHANGED <<published, file, got, intact, faults>>

\* write_text opens the file, which truncates it ...
Open(p) ==
  /\ proc[p].at = "saving"
  /\ proc' = [proc EXCEPT ![p].at = "writing"]
  /\ UNCHANGED <<published, file, got, intact, faults>>

\* What an invocation writes: its copy, with the event recorded.
Written(p) ==
  IF proc[p].next > proc[p].last THEN proc[p].copy
  ELSE Recorded(proc[p].copy, proc[p].next)

\* It drops an id to keep a new one.
Forgets(p) ==
  \E c \in Convs : \E e \in Events :
    /\ Contains(proc[p].copy[c].ids, e)
    /\ ~Contains(Written(p)[c].ids, e)

\* When another invocation has written, a copy is out of date.
Outdated(q) ==
  [proc[q] EXCEPT !.fresh = @ /\ proc[q].at \notin {"fetching", "saving", "writing"}]

\* ... and writes it.  Of two that write at the same time the longer one may
\* leave its end behind the other's, which makes the file unreadable.
Write(p) ==
  /\ Writing(p)
  /\ \/ file' = Written(p)
     \/ file' = Empty /\ \E q \in Procs \ {p} : Writing(q)
  /\ intact' = ( /\ intact
                 /\ proc[p].fresh
                 /\ ~Forgets(p)
                 /\ \A q \in Procs \ {p} : ~Writing(q) )
  /\ proc' = [q \in Procs |->
       IF q # p THEN Outdated(q)
       ELSE IF proc[p].next > proc[p].last THEN Ended(p)
       ELSE [proc[p] EXCEPT !.at = "next", !.copy = Empty, !.fresh = TRUE,
                            !.next = proc[p].next + 1]]
  /\ UNCHANGED <<published, got, faults>>

\* The process is killed; if it was writing, what is left cannot be read.
Kill(p) ==
  /\ proc[p].at \notin {"idle", "done"}
  /\ Fault
  /\ file' = IF Writing(p) THEN Empty ELSE file
  /\ intact' = (intact /\ ~Writing(p))
  /\ End(p)
  /\ UNCHANGED <<published, got>>

\* Somebody writes a message elsewhere.
Publish ==
  /\ published + 1 \in Events
  /\ published' = published + 1
  /\ UNCHANGED <<file, proc, got, intact, faults>>

Step(p) ==
  \/ Receive(p)
  \/ Take(p)
  \/ Fetch(p)
  \/ Finish(p)
  \/ Open(p)
  \/ Write(p)
  \/ Fail(p)
  \/ Kill(p)

Next ==
  \/ \E p \in Procs : Poll(p) \/ Step(p)
  \/ Publish

\* An invocation runs, and those that are repeated are started again.
Fairness == \A p \in Procs : WF_vars(Step(p)) /\ (p \in Repeated => WF_vars(Poll(p)))

Spec == Init /\ [][Next]_vars /\ Fairness

-----------------------------------------------------------------------------
\* The body of an event arrived, its own or that of a repetition of it.
Received(e) ==
  \E f \in got : ConvOf[f] = ConvOf[e] /\ (f = e \/ KeyOf[f] = KeyOf[e])

\* Nothing before a cursor in the file is missing: whatever failed, was killed,
\* overwritten or read half, the body of every event the feed will not offer
\* again has arrived.
NothingIsSkipped ==
  \A c \in Convs : \A e \in Bodies : e <= file[c].cursor => Received(e)

\* "Cursor retry handling no longer rolls last_event_id or cursor state
\* backward": a cursor goes back only after an update of the file was lost, or
\* after an id was dropped that a reader of old events needs.
CursorNeverRollsBack ==
  [][intact' => \A c \in Convs : file'[c].cursor >= file[c].cursor]_vars

\* The state file as its reader relies on it.
Feed == INSTANCE InOrderFeed WITH
          arrived <- got,
          cursor  <- [c \in Convs |-> file[c].cursor]

\* Invocations that overlap, fail and are killed read the account in order: until
\* an update of the file is lost or an id dropped, one cursor at a time moves, to
\* an event that was published and before which no body is missing; after that
\* cursors may go back, but never past what has arrived.
ReadsInOrder == Feed!Spec

\* A whole page after the account's cursor is known: events of the page do not
\* move it, and those after the page are not asked for.
WedgedAt(n) ==
  /\ IsAccountCursor(file, n)
  /\ n + Limit <= published
  /\ \A e \in n + 1 .. n + Limit : Duplicate(file, e)

\* While no update of the file is lost and no id dropped, only repeats wedge a
\* receiver: as many events in a row as a page has, each of them known by the
\* idempotency key of one before them.
OnlyRepeatsWedge ==
  intact => \A n \in 0 .. published : WedgedAt(n) =>
    \A e \in n + 1 .. n + Limit :
      \E d \in 1 .. n : ConvOf[d] = ConvOf[e] /\ KeyOf[d] = KeyOf[e]

\* Every body that is published arrives at a CLI that keeps polling, whatever is
\* overwritten in the file or dropped from it, unless the receiver stays wedged
\* before it.
EveryBodyArrives ==
  LET WedgedBefore(e) == \E n \in 0 .. e - Limit - 1 : WedgedAt(n)
  IN  \A e \in Bodies : published >= e ~> Received(e) \/ []WedgedBefore(e)

-----------------------------------------------------------------------------
(***************************************************************************)
(* The inductive invariant behind NothingIsSkipped: the file and every     *)
(* copy of it are honest about what arrived, and an invocation has passed  *)
(* over nothing.                                                           *)
(***************************************************************************)
Covered(f) == \A c \in Convs : \A e \in Bodies : e <= f[c].cursor => Received(e)

Honest(f) == Covered(f) /\ \A e \in Bodies : HasBody(f, e) => Received(e)

PassesOverNothing(p) ==
  /\ proc[p].at \in {"next", "fetching", "saving", "writing"} =>
       \A e \in Bodies : e < proc[p].next => Received(e)
  /\ proc[p].at = "fetching" => proc[p].next \in Bodies
  /\ ( /\ proc[p].at \in {"saving", "writing"}
       /\ proc[p].next <= proc[p].last
       /\ proc[p].next \in Bodies )
     => proc[p].next \in got

SyncInv ==
  /\ TypeOK
  /\ Honest(file)
  /\ \A p \in Procs : Honest(proc[p].copy) /\ PassesOverNothing(p)

\* Behind CursorNeverRollsBack: ids and keys are kept side by side, and as long
\* as no update was lost, whatever stands before a cursor or before the next
\* event of a page is known in the file.
SideBySide(f) ==
  \A c \in Convs :
    /\ Len(f[c].keys) = Len(f[c].ids)
    /\ \A i \in 1 .. Len(f[c].ids) : f[c].keys[i] = KeyOf[f[c].ids[i]]

KnownTo(n) == \A e \in Events : e <= n => Duplicate(file, e)

KnownBy(p) ==
  /\ proc[p].at = "request" => \A c \in Convs : KnownTo(proc[p].copy[c].cursor)
  /\ proc[p].at \in {"next", "fetching", "saving", "writing"} =>
       KnownTo(proc[p].next - 1)
  /\ proc[p].at \in {"fetching", "saving", "writing"} /\ proc[p].fresh =>
       proc[p].copy = file

KnownInv ==
  /\ SideBySide(file)
  /\ \A p \in Procs : SideBySide(proc[p].copy)
  /\ intact => /\ \A c \in Convs : KnownTo(file[c].cursor)
               /\ \A p \in Procs : KnownBy(p)

\* Behind OnlyRepeatsWedge: an id in the file is of its conversation and does not
\* stand after its cursor, so what is known after a cursor is known by its key.
SeenInv ==
  intact => \A c \in Convs : \A e \in Events :
    Contains(file[c].ids, e) => ConvOf[e] = c /\ e <= file[c].cursor

\* Nobody is ahead of what was published.
PublishedInv ==
  /\ \A c \in Convs : file[c].cursor <= published
  /\ \A p \in Procs :
       /\ \A c \in Convs : proc[p].copy[c].cursor <= published
       /\ proc[p].last <= published
       /\ proc[p].at = "fetching" => proc[p].next <= proc[p].last
=============================================================================
