---------------------------- MODULE EventStream -----------------------------
(***************************************************************************)
(* The event stream of one worker, from its log to a client: the watch     *)
(* generator and the notifications of the supervisor (supervisor.py), the  *)
(* connection handlers of the RPC server and the end of the service        *)
(* (rpc.py), and the client's watch (rpc.py).                              *)
(*                                                                         *)
(* The client reconnects with the sequence of the last event it received.  *)
(* A handler learns that its client is gone only when it writes to it, so  *)
(* that several handlers may serve one client, one of which it listens to. *)
(* A handler suspends after a frame, for the client to drain it, and on    *)
(* the condition; what it does in between is one step.                     *)
(***************************************************************************)
EXTENDS Naturals, SequencesExt

CONSTANTS
  Connections,  \* the connections that the client may open, each once
  MaxEvents,    \* bound on the length of the log
  Endings       \* which of "close" (of the supervisor) and "signal" may happen

ASSUME EndingsAssumption == Endings \subseteq {"close", "signal"}
ASSUME MaxEventsAssumption == MaxEvents \in Nat /\ MaxEvents >= 2

VARIABLES
  owned,      \* FALSE if an earlier process left the worker behind
  log,        \* the worker's events, by sequence
  at,         \* where the handler of each connection is
  follow,     \* connections that follow, the others replay
  cursor,     \* last sequence that the generator yielded
  upto,       \* last sequence of the batch that it read
  woken,      \* handlers whose wait on the condition was notified
  link,       \* the connection that the client listens to
  wire,       \* frames written to it and not yet received
  seen,       \* sequences that the client received, over all connections
  listening,  \* whether the server accepts connections
  closeAt     \* the supervisor's close

handlers == <<at, follow, cursor, upto, woken>>
client   == <<link, wire, seen>>
service  == <<listening, closeAt>>
vars     == <<owned, log, handlers, client, service>>

NoConnection == "none"

ASSUME ConnectionsAssumption == NoConnection \notin Connections

\* An event is whether it starts an attempt, ends it or neither.
Kinds == {"starting", "other", "terminal"}

Event(n) == [type |-> "event", n |-> n]
End(n)   == [type |-> "end", n |-> n]
Error    == [type |-> "error", n |-> 0]
Frames   == [type : {"event", "end", "error"}, n : 0 .. MaxEvents]

\* Whether the worker's state was terminal after n events.
OverAfter(n) ==
  \E i \in 1 .. n : log[i] = "terminal" /\ \A j \in i + 1 .. n : log[j] # "starting"

Over == OverAfter(Len(log))

-----------------------------------------------------------------------------
(***************************************************************************)
(* The supervisor's writes, each followed by _notify_event.  A worker that *)
(* an earlier process left behind has no task here that would write.       *)
(***************************************************************************)
Waiting == {k \in Connections : at[k] = "waiting"}

Notified_One == IF Waiting = {} THEN {} ELSE {CHOOSE k \in Waiting : TRUE}

Notified_None == {}

\* notify_all wakes every follower.
Notified == Waiting

\* Bounds the log, and keeps room for the end of the attempt.
Room == Len(log) + 1 < MaxEvents

Record ==
  /\ owned /\ closeAt # "closed" /\ Room
  /\ log' = Append(log, "other")
  /\ woken' = woken \cup Notified
  /\ UNCHANGED <<owned, at, follow, cursor, upto, client, service>>

Finish ==
  /\ owned /\ closeAt # "closed" /\ ~ Over
  /\ log' = Append(log, "terminal")
  /\ woken' = woken \cup Notified
  /\ UNCHANGED <<owned, at, follow, cursor, upto, client, service>>

\* resume: start_attempt's event is not notified.
Resume ==
  /\ closeAt = "open" /\ Over /\ Room
  /\ log' = Append(log, "starting")
  /\ UNCHANGED <<owned, handlers, client, service>>

-----------------------------------------------------------------------------
(***************************************************************************)
(* A connection handler in _stream_watch, and the generator it drains.     *)
(***************************************************************************)
Unread_Inclusive(k) == {n \in DOMAIN log : n >= cursor[k]}

\* events_since.
Unread(k) == {n \in DOMAIN log : n > cursor[k]}

\* Where the loop of watch goes on: after the acceptance, after the last
\* event of a batch, or after a wait.
Resumed(k) ==
  \/ at[k] = "reading"
  \/ at[k] = "writing" /\ cursor[k] = upto[k]
  \/ at[k] = "waiting" /\ k \in woken

\* _write_frame: it fails, and ends the handler, when the client is gone.
Write(k, frame, next) ==
  \/ /\ link = k
     /\ wire' = Append(wire, frame)
     /\ at' = [at EXCEPT ![k] = next]
  \/ /\ link # k
     /\ at' = [at EXCEPT ![k] = "done"]
     /\ UNCHANGED wire

HandlerFrame == UNCHANGED <<owned, log, follow, link, seen, service>>

\* A batch is read, and its first event written.
ReadBatch(k) ==
  /\ Resumed(k) /\ (at[k] = "writing" => k \in follow)
  /\ Unread(k) # {}
  /\ upto' = [upto EXCEPT ![k] = Len(log)]
  /\ \E n \in Unread(k) :
       /\ \A m \in Unread(k) : n <= m
       /\ cursor' = [cursor EXCEPT ![k] = n]
       /\ Write(k, Event(n), "writing")
  /\ woken' = woken \ {k}
  /\ HandlerFrame

\* The next event of the batch.
WriteNext(k) ==
  /\ at[k] = "writing" /\ cursor[k] < upto[k]
  /\ cursor' = [cursor EXCEPT ![k] = @ + 1]
  /\ Write(k, Event(cursor[k] + 1), "writing")
  /\ UNCHANGED <<upto, woken>> /\ HandlerFrame

\* A replay ends with the events it found when it began.
EndReplay(k) ==
  /\ k \notin follow /\ Resumed(k)
  /\ at[k] = "reading" => Unread(k) = {}
  /\ Write(k, End(Len(log)), "done")
  /\ UNCHANGED <<cursor, upto, woken>> /\ HandlerFrame

MayEnd_Unread(k) == closeAt # "open" \/ Over

\* A follower ends when nothing is unread and nothing more will come.
MayEnd(k) == Unread(k) = {} /\ (closeAt # "open" \/ Over)

EndFollow(k) ==
  /\ k \in follow /\ Resumed(k) /\ MayEnd(k)
  /\ \/ Over /\ Write(k, End(Len(log)), "done")
     \/ ~ Over /\ Write(k, Error, "idle")
  /\ woken' = woken \ {k}
  /\ UNCHANGED <<cursor, upto>> /\ HandlerFrame

\* Otherwise it waits for the next event.
Wait(k) ==
  /\ k \in follow /\ Resumed(k) /\ Unread(k) = {} /\ ~ MayEnd(k)
  /\ at' = [at EXCEPT ![k] = "waiting"]
  /\ woken' = woken \ {k}
  /\ UNCHANGED <<cursor, upto, wire>> /\ HandlerFrame

\* After an error the handler reads the connection again, and finds its end.
HangUp(k) ==
  /\ at[k] = "idle" /\ link # k
  /\ at' = [at EXCEPT ![k] = "done"]
  /\ UNCHANGED <<cursor, upto, woken, wire>> /\ HandlerFrame

HandlerStep(k) ==
  \/ ReadBatch(k) \/ WriteNext(k) \/ EndReplay(k) \/ EndFollow(k) \/ Wait(k)
  \/ HangUp(k)

-----------------------------------------------------------------------------
(***************************************************************************)
(* The client.                                                             *)
(***************************************************************************)
Since_Next == IF seen = <<>> THEN 0 ELSE Last(seen) + 1

\* The sequence of the last event received.
Since == IF seen = <<>> THEN 0 ELSE Last(seen)

\* It connects, and the handler accepts the watch from where it was.
Open(k, following) ==
  /\ listening /\ link = NoConnection /\ at[k] = "none"
  /\ link' = k
  /\ at' = [at EXCEPT ![k] = "reading"]
  /\ cursor' = [cursor EXCEPT ![k] = Since]
  /\ follow' = IF following THEN follow \cup {k} ELSE follow
  /\ UNCHANGED <<owned, log, upto, woken, wire, seen, service>>

Receive ==
  /\ wire # <<>>
  /\ \/ /\ Head(wire).type = "event"
        /\ seen' = Append(seen, Head(wire).n)
        /\ wire' = Tail(wire)
        /\ UNCHANGED link
     \/ /\ Head(wire).type # "event"
        /\ link' = NoConnection /\ wire' = <<>>
        /\ UNCHANGED seen
  /\ UNCHANGED <<owned, log, handlers, service>>

\* The client is interrupted, and what was on its way is lost.
Drop ==
  /\ link # NoConnection
  /\ link' = NoConnection /\ wire' = <<>>
  /\ UNCHANGED <<owned, log, handlers, seen, service>>

-----------------------------------------------------------------------------
(***************************************************************************)
(* The end of the service (run_server, RPCServer.close, Supervisor.close). *)
(***************************************************************************)

\* SIGTERM: the server stops listening ...
Signal ==
  /\ "signal" \in Endings /\ listening
  /\ listening' = FALSE
  /\ UNCHANGED <<owned, log, handlers, client, closeAt>>

\* Server.wait_closed of Python 3.12 waits for the open connections.
ConnectionsClosed == \A k \in Connections : at[k] \in {"none", "done"}

\* ... and the supervisor is closed once it did; or it is closed by itself.
CloseBegin ==
  /\ closeAt = "open"
  /\ "close" \in Endings \/ (~ listening /\ ConnectionsClosed)
  /\ closeAt' = "closing"
  /\ UNCHANGED <<owned, log, handlers, client, listening>>

CloseNotified_None == {}

CloseNotified == Waiting

\* The workers that have a task are stopped; every follower is woken.
CloseEnd ==
  /\ closeAt = "closing" /\ (owned => Over)
  /\ closeAt' = "closed"
  /\ woken' = woken \cup CloseNotified
  /\ UNCHANGED <<owned, log, at, follow, cursor, upto, client, listening>>

-----------------------------------------------------------------------------
Init ==
  /\ owned \in BOOLEAN
  /\ log = <<"starting">>
  /\ at = [k \in Connections |-> "none"]
  /\ follow = {}
  /\ cursor = [k \in Connections |-> 0]
  /\ upto = [k \in Connections |-> 0]
  /\ woken = {}
  /\ link = NoConnection
  /\ wire = <<>>
  /\ seen = <<>>
  /\ listening = TRUE
  /\ closeAt = "open"

Next ==
  \/ Record \/ Finish \/ Resume
  \/ \E k \in Connections :
       HandlerStep(k) \/ \E following \in BOOLEAN : Open(k, following)
  \/ Receive \/ Drop
  \/ Signal \/ CloseBegin \/ CloseEnd

Spec == Init /\ [][Next]_vars

(***************************************************************************)
(* Fairness.  The loop runs handlers that are ready, a client reads what   *)
(* it is sent, and close stops the workers and ends (Supervisor.tla).  No  *)
(* worker need end by itself, and no client need connect or leave.         *)
(***************************************************************************)
Fairness ==
  /\ \A k \in Connections : WF_vars(HandlerStep(k))
  /\ WF_vars(Receive)
  /\ WF_vars(closeAt = "closing" /\ Finish)
  /\ WF_vars(~ listening /\ ConnectionsClosed /\ CloseBegin)
  /\ WF_vars(CloseEnd)

FairSpec == Spec /\ Fairness

-----------------------------------------------------------------------------
(***************************************************************************)
(* Safety.                                                                 *)
(***************************************************************************)

\* Every variable has its type.
TypeOK ==
  /\ owned \in BOOLEAN
  /\ log \in Seq(Kinds) /\ Len(log) <= MaxEvents
  /\ at \in [Connections -> {"none", "reading", "writing", "waiting", "idle", "done"}]
  /\ follow \subseteq Connections
  /\ cursor \in [Connections -> 0 .. MaxEvents]
  /\ upto \in [Connections -> 0 .. MaxEvents]
  /\ woken \subseteq Waiting
  /\ link \in Connections \cup {NoConnection}
  /\ wire \in Seq(Frames)
  /\ seen \in Seq(1 .. MaxEvents)
  /\ listening \in BOOLEAN
  /\ closeAt \in {"open", "closing", "closed"}

\* A client that reconnects from its cursor receives every event once, in
\* order, however often it is interrupted and in whatever modes it watches.
NothingIsMissed == seen = [i \in DOMAIN seen |-> i]

\* No wake-up is lost: a follower sleeps only while it has yielded the whole
\* log, its worker is not over, and the supervisor is not closed.
SleepersAreUpToDate ==
  \A k \in Waiting \ woken : cursor[k] = Len(log) /\ ~ Over /\ closeAt # "closed"

\* A follow stream that ends as terminal has yielded the whole log, and with
\* it the end of the worker's last attempt.
FollowEndsTheAttempt ==
  link \in follow =>
    \A i \in DOMAIN wire :
      wire[i].type = "end" => wire[i].n = cursor[link] /\ OverAfter(wire[i].n)

\* What a client holds is the log without a gap, and a stream that says that the
\* worker is over holds all of it (_stream_watch, watch).
StreamsAreComplete == NothingIsMissed /\ FollowEndsTheAttempt

(***************************************************************************)
(* Liveness, under FairSpec.                                               *)
(***************************************************************************)

\* Every event reaches a client that keeps following, unless the supervisor
\* is closed.
EventsReachFollowers ==
  \A n \in 1 .. MaxEvents :
    link \in follow /\ n \in DOMAIN log ~> n \in DOMAIN seen \/ link \notin follow

\* A watch of a worker that is over ends, unless the worker is resumed.
WatchEndsWithWorker ==
  \A k \in Connections :
    at[k] # "none" /\ Over ~> at[k] = "done" \/ ~ Over

\* Closing the supervisor ends every watch, also of clients that are gone.
CloseEndsWatches == closeAt = "closing" ~> closeAt = "closed" /\ ConnectionsClosed

\* A signalled service ends once its worker is over: only followers of a
\* worker that runs can hold it (run_server closes the supervisor last).
SignalEndsService == ~ listening /\ Over ~> closeAt = "closed" \/ ~ Over

\* Watches, and the service that waits for them, end with their worker, with a
\* close and after a signal (watch, Supervisor.close, run_server).
WatchesEnd == WatchEndsWithWorker /\ CloseEndsWatches /\ SignalEndsService
=============================================================================
