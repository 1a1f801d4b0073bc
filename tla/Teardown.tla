------------------------------ MODULE Teardown ------------------------------
(***************************************************************************)
(* How the QoderCLI process of an attempt ends, and what a steering call   *)
(* that is under way meanwhile does: the transport's disconnect and abort  *)
(* (qoder_sdk.py), the runner that always disconnects (auditor.py,         *)
(* coder.py), the one stop operation of an attempt, steer and              *)
(* cancel_message (supervisor.py).                                         *)
(*                                                                         *)
(* The SDK's client is external: its disconnect may return, raise or hang, *)
(* and one that raises or is cancelled may or may not have ended the       *)
(* process.  Supervisor is about the records of an attempt; here they are  *)
(* only the attempt's state, without the two that no teardown tells apart. *)
(***************************************************************************)
EXTENDS Naturals, Sequences, FiniteSets

CONSTANTS
  MaxAttempts,   \* bound on the attempts of the worker
  Messages       \* identifiers of steering messages, each sent once

ASSUME AttemptsAssumption == MaxAttempts \in Nat \ {0}

VARIABLES
  attempt,        \* the current attempt of the worker
  state,          \* its state
  proc,           \* the QoderCLI process of each attempt
  payload,        \* whether the credential payload of the attempt is on disk
  inside,         \* who awaits the client's disconnect, under the lock
  disconnected,   \* _disconnected
  runner,         \* where the runner is
  held,           \* whether it will return a result
  cancelling,     \* whether a cancellation of it is to be delivered
  live,           \* whether the attempt is registered as live
  stop,           \* where the stop operation is
  known,          \* whether the attempt was live when it was requested
  forced,         \* its escalation event
  terminating,    \* whether it has torn down the transport
  refused,        \* whether its abort could not kill or not clean up
  message,        \* where the steering call of each message is
  asked,          \* the attempt whose transport that call holds, 0 before it
  reached,        \* the attempt whose SDK accepted the message, 0 if none
  withdrawal,     \* where the call that cancels each message is
  holder,         \* the attempt whose transport that call holds, 0 before it
  withdrawn,      \* the messages that an SDK took back
  log             \* the steering events

attempts  == <<attempt, state, live>>
transport == <<proc, payload, inside, disconnected>>
running   == <<runner, held, cancelling>>
stopping  == <<stop, known, forced, terminating, refused>>
revoking  == <<withdrawal, holder, withdrawn>>
steering  == <<message, asked, reached, revoking, log>>
vars      == <<attempts, transport, running, stopping, steering>>

States        == {"starting", "running", "over"}
Procs         == {"none", "running", "dead"}
RunnerPlaces  == {"created", "connecting", "using", "waiting", "inside", "persisting", "done"}
StopPlaces    == {"idle", "begin", "yield", "grace", "waiting", "inside",
                  "cancel", "gather", "join", "final"}
MessagePlaces == {"none", "queueing", "sending", "noting", "accepted", "failed"}
CancelPlaces  == {"none", "calling", "revoked", "kept", "answered", "failed"}

Proc == proc[attempt]
Over == state = "over"

\* The process has ended and left no credentials behind.
Gone == Proc # "running" /\ ~ payload

-----------------------------------------------------------------------------
(***************************************************************************)
(* QoderSDKTransport.disconnect, called by the runner and by a stop.       *)
(***************************************************************************)
LockIsFree_Always == TRUE

LockIsFree == inside = {}

Marked_Early == TRUE

\* The flag while the call of the client is under way.
Marked == disconnected

\* The caller has the lock and goes on to the client's disconnect.
Acquire(x) ==
  /\ LockIsFree /\ ~ disconnected
  /\ inside' = inside \cup {x}
  /\ disconnected' = Marked
  /\ UNCHANGED <<proc, payload>>

\* It has the lock and finds that there is nothing to do.
Skip == LockIsFree /\ disconnected /\ UNCHANGED transport

\* A process that was started ends.
Ended(process) == IF process = "none" THEN "none" ELSE "dead"

\* The client's disconnect returned.
Returned(x) ==
  /\ x \in inside
  /\ inside' = inside \ {x}
  /\ proc' = [proc EXCEPT ![attempt] = Ended(Proc)]
  /\ payload' = FALSE
  /\ disconnected' = TRUE

\* It raised, or was cancelled, at any point of its work.
MayLeave(process, credentials) ==
  process \in {Proc, Ended(Proc)} /\ (credentials => payload)

Broken(x) ==
  /\ x \in inside
  /\ \E process \in Procs, credentials \in BOOLEAN :
       /\ MayLeave(process, credentials)
       /\ proc' = [proc EXCEPT ![attempt] = process]
       /\ payload' = credentials
  /\ inside' = inside \ {x}
  /\ UNCHANGED disconnected

-----------------------------------------------------------------------------
(***************************************************************************)
(* The runner.                                                             *)
(***************************************************************************)
RunnerMoves(to) == runner' = to

RunnerFrame == UNCHANGED <<attempt, stopping, steering>>

\* The factory registers its transport as live before it connects.
OwnerStart ==
  /\ runner = "created" /\ ~ cancelling
  /\ \/ RunnerMoves("connecting") /\ live' = TRUE /\ UNCHANGED held
     \/ RunnerMoves("persisting") /\ held' = TRUE /\ UNCHANGED live
  /\ UNCHANGED <<state, transport, cancelling>> /\ RunnerFrame

\* connect: the payload is written, then the process is started.
Connect ==
  /\ runner = "connecting" /\ Proc = "none" /\ ~ cancelling
  /\ \/ ~ payload /\ payload' = TRUE /\ UNCHANGED proc
     \/ proc' = [proc EXCEPT ![attempt] = "running"] /\ UNCHANGED payload
  /\ UNCHANGED <<state, live, inside, disconnected, running>> /\ RunnerFrame

\* The model is selected, and on_initialized makes the worker running.
Initialized ==
  /\ runner = "connecting" /\ Proc = "running" /\ ~ cancelling
  /\ RunnerMoves("using")
  /\ state' = "running"
  /\ UNCHANGED <<live, transport, held, cancelling>> /\ RunnerFrame

\* A result, a failure, or the end of the process: every way out disconnects.
Leave(result) ==
  /\ runner \in {"connecting", "using"} /\ ~ cancelling
  /\ RunnerMoves("waiting")
  /\ held' = result
  /\ UNCHANGED <<state, live, transport, cancelling>> /\ RunnerFrame

ProcessExits ==
  /\ Proc = "running"
  /\ proc' = [proc EXCEPT ![attempt] = "dead"]
  /\ UNCHANGED <<attempts, payload, inside, disconnected, running, stopping, steering>>

RunnerAcquires ==
  /\ runner = "waiting" /\ ~ cancelling /\ Acquire("runner")
  /\ RunnerMoves("inside")
  /\ UNCHANGED <<state, live, held, cancelling>> /\ RunnerFrame

\* _finalize_without_result by the owner: cancelled if a stop was requested,
\* else lost, which a worker that is starting may not become.
Finalized ==
  /\ live' = FALSE
  /\ state' = IF state = "starting" /\ stop = "idle" THEN state ELSE "over"

\* Without a result the owner finalises, unless a cancellation cuts it off;
\* with one it is persisted.
RunnerEnds ==
  /\ RunnerMoves(IF held THEN "persisting" ELSE "done")
  /\ IF held
     THEN UNCHANGED <<state, live>>
     ELSE Finalized \/ (stop = "cancel" /\ UNCHANGED <<state, live>>)

RunnerDisconnected ==
  /\ ~ cancelling
  /\ \/ runner = "waiting" /\ Skip
     \/ runner = "inside" /\ Returned("runner")
     \/ runner = "inside" /\ Broken("runner")
  /\ RunnerEnds
  /\ UNCHANGED <<held, cancelling>> /\ RunnerFrame

\* Shielded from cancellations.
Persist ==
  /\ runner = "persisting"
  /\ RunnerMoves("done")
  /\ state' = "over" /\ live' = FALSE
  /\ cancelling' = FALSE
  /\ UNCHANGED <<transport, held>> /\ RunnerFrame

\* A cancellation keeps a task from starting at all, sends the runner to its
\* disconnect, or cuts that off.
Cancelled ==
  /\ cancelling
  /\ cancelling' = FALSE
  /\ held' = FALSE
  /\ \/ /\ runner = "created"
        /\ RunnerMoves("done")
        /\ UNCHANGED <<state, live, transport>>
     \/ /\ runner \in {"connecting", "using"}
        /\ RunnerMoves("waiting")
        /\ UNCHANGED <<state, live, transport>>
     \/ /\ runner \in {"waiting", "inside"}
        /\ RunnerMoves("done")
        /\ Finalized \/ (stop = "cancel" /\ UNCHANGED <<state, live>>)
        /\ \/ runner = "waiting" /\ UNCHANGED transport
           \/ runner = "inside" /\ Broken("runner")
  /\ RunnerFrame

-----------------------------------------------------------------------------
(***************************************************************************)
(* The stop operation (Supervisor._stop_attempt).                          *)
(***************************************************************************)
StopMoves(from, to) == stop = from /\ stop' = to

StopFrame == UNCHANGED <<attempts, known, forced, steering>>

RequestStop(force) ==
  /\ ~ Over /\ runner # "done"
  /\ \/ /\ StopMoves("idle", "begin")
        /\ known' = live /\ forced' = force
        /\ terminating' = FALSE /\ refused' = FALSE
     \/ /\ stop \in {"begin", "yield", "grace"} /\ force
        /\ forced' = TRUE
        /\ UNCHANGED <<stop, known, terminating, refused>>
  /\ UNCHANGED <<attempts, transport, running, steering>>

CancelOwner == cancelling' = TRUE

\* Joins an accepted result, or cancels the owner if it still runs.
JoinOrCancel(from) ==
  \/ runner = "persisting" /\ StopMoves(from, "join") /\ UNCHANGED cancelling
  \/ runner = "done" /\ StopMoves(from, "final") /\ UNCHANGED cancelling
  \/ runner \notin {"persisting", "done"} /\ StopMoves(from, "cancel") /\ CancelOwner

\* Grace, forced teardown, or straight to the owner if there is no transport.
Choose(from, isLive) ==
  \/ isLive /\ StopMoves(from, IF forced THEN "waiting" ELSE "grace") /\ UNCHANGED cancelling
  \/ ~ isLive /\ JoinOrCancel(from)

StopBegin ==
  /\ \/ runner = "persisting" /\ StopMoves("begin", "join") /\ UNCHANGED cancelling
     \/ runner # "persisting" /\ (known \/ forced) /\ Choose("begin", known)
     \/ /\ runner # "persisting" /\ ~ known /\ ~ forced
        /\ StopMoves("begin", "yield") /\ UNCHANGED cancelling
  /\ UNCHANGED <<transport, runner, held, terminating, refused>> /\ StopFrame

\* The attempt may have been registered meanwhile.
StopYield ==
  /\ Choose("yield", live)
  /\ UNCHANGED <<transport, runner, held, terminating, refused>> /\ StopFrame

\* The owner ended in time; or it did not, or the interrupt failed, or force.
StopGrace ==
  /\ \/ runner = "done" /\ ~ forced /\ StopMoves("grace", "final")
     \/ StopMoves("grace", "waiting")
  /\ UNCHANGED <<transport, running, terminating, refused>> /\ StopFrame

StopAcquires ==
  /\ StopMoves("waiting", "inside") /\ Acquire("stop")
  /\ UNCHANGED <<running, terminating, refused>> /\ StopFrame

\* After its teardown the stop turns to the owner.
TornDown(from) ==
  /\ terminating' = TRUE
  /\ JoinOrCancel(from)
  /\ UNCHANGED <<runner, held>> /\ StopFrame

StopDisconnected ==
  /\ \/ Skip /\ TornDown("waiting")
     \/ Returned("stop") /\ TornDown("inside")
  /\ UNCHANGED refused

Marks_Always(killed, cleaned) == TRUE

\* The client has its subprocess transport, which abort works on.
Located == Proc # "none" \/ payload

\* abort counts as a disconnect only if nothing is left to do.
Marks(killed, cleaned) == killed /\ cleaned

Abort_Nothing ==
  /\ IF stop = "inside" THEN Broken("stop") ELSE UNCHANGED transport
  /\ UNCHANGED refused

\* The disconnect failed, or the deadline came.  abort kills a process that
\* lives and removes the payload, as far as it can tell that they are the
\* SDK's and the system lets it.
Abort ==
  \E process \in Procs, credentials, killed, cleaned \in BOOLEAN :
    /\ MayLeave(process, credentials)
    /\ stop = "waiting" => process = Proc /\ credentials = payload
    /\ process # "running" => killed
    /\ ~ credentials => cleaned
    /\ proc' = [proc EXCEPT ![attempt] = IF killed THEN Ended(process) ELSE process]
    /\ payload' = (credentials /\ ~ cleaned)
    /\ inside' = inside \ {"stop"}
    /\ disconnected' = (disconnected \/ (Located /\ Marks(killed, cleaned)))
    /\ refused' = ~ (killed /\ cleaned)

StopAborts ==
  /\ stop \in {"waiting", "inside"}
  /\ stop = "waiting" => ~ LockIsFree
  /\ Abort /\ TornDown(stop)

CancelAgain_Forgotten == UNCHANGED cancelling

CancelAgain == cancelling' = TRUE

\* _cancel_owner looks three times, then cancels again.
StopCancelsAgain ==
  /\ \/ runner = "persisting" /\ StopMoves("cancel", "join") /\ UNCHANGED cancelling
     \/ runner = "done" /\ StopMoves("cancel", "final") /\ UNCHANGED cancelling
     \/ /\ runner \notin {"persisting", "done"} /\ ~ cancelling
        /\ StopMoves("cancel", "gather") /\ CancelAgain
  /\ UNCHANGED <<transport, runner, held, terminating, refused>> /\ StopFrame

StopJoins ==
  /\ stop \in {"gather", "join"} /\ runner = "done"
  /\ stop' = "final"
  /\ UNCHANGED <<transport, running, terminating, refused>> /\ StopFrame

StopFinal ==
  /\ StopMoves("final", "idle")
  /\ state' = "over" /\ live' = FALSE
  /\ UNCHANGED <<attempt, transport, running, known, forced, terminating, refused, steering>>

\* A new process for a worker that is over.  A stop of the old attempt that has
\* not returned yet holds nothing of the new one; it is left out here.
Resume ==
  /\ Over /\ runner = "done" /\ stop = "idle" /\ attempt < MaxAttempts
  /\ attempt' = attempt + 1
  /\ state' = "starting" /\ live' = FALSE
  /\ payload' = FALSE /\ inside' = {} /\ disconnected' = FALSE
  /\ runner' = "created" /\ held' = FALSE /\ cancelling' = FALSE
  /\ known' = FALSE /\ forced' = FALSE /\ terminating' = FALSE /\ refused' = FALSE
  /\ UNCHANGED <<proc, stop, steering>>

-----------------------------------------------------------------------------
(***************************************************************************)
(* steer: it looks up the live attempt of a running worker once.           *)
(***************************************************************************)
SteerFrame == UNCHANGED <<attempts, transport, running, stopping, revoking>>

Call(m, from, to) ==
  /\ message[m] = from
  /\ message' = [message EXCEPT ![m] = to]

Note(kind, m) == log' = Append(log, [kind |-> kind, message |-> m, attempt |-> attempt])

Steer(m) ==
  /\ live /\ state = "running"
  /\ Call(m, "none", "queueing")
  /\ asked' = [asked EXCEPT ![m] = attempt]
  /\ UNCHANGED <<reached, log>> /\ SteerFrame

SteerQueued(m) ==
  /\ Call(m, "queueing", "sending")
  /\ Note("queued", m)
  /\ UNCHANGED <<asked, reached>> /\ SteerFrame

Target_Current(m) == attempt

Target(m) == asked[m]

Undelivered_Noted == "noting"

Undelivered == "failed"

\* The SDK of that attempt accepts the message while its process runs.
SteerSent(m) ==
  /\ message[m] = "sending"
  /\ \/ /\ proc[Target(m)] = "running"
        /\ Call(m, "sending", "noting")
        /\ reached' = [reached EXCEPT ![m] = Target(m)]
     \/ /\ Call(m, "sending", Undelivered)
        /\ UNCHANGED reached
  /\ UNCHANGED <<asked, log>> /\ SteerFrame

SteerDelivered(m) ==
  /\ Call(m, "noting", "accepted")
  /\ Note("delivered", m)
  /\ UNCHANGED <<asked, reached>> /\ SteerFrame

(***************************************************************************)
(* cancel_message, of a message whose identifier is known since it was     *)
(* queued.  An SDK takes back a message that it accepted and has not used. *)
(***************************************************************************)
RevokeFrame == UNCHANGED <<attempts, transport, running, stopping, message, asked, reached>>

Revoke(m, from, to) ==
  /\ withdrawal[m] = from
  /\ withdrawal' = [withdrawal EXCEPT ![m] = to]

CancelMessage(m) ==
  /\ live /\ state = "running"
  /\ \E i \in DOMAIN log : log[i].message = m
  /\ Revoke(m, "none", "calling")
  /\ holder' = [holder EXCEPT ![m] = attempt]
  /\ UNCHANGED <<withdrawn, log>> /\ RevokeFrame

CancelReturns(m) ==
  /\ \/ /\ Revoke(m, "calling", "revoked")
        /\ proc[holder[m]] = "running" /\ reached[m] = holder[m]
        /\ withdrawn' = withdrawn \cup {m}
     \/ /\ Revoke(m, "calling", "kept")
        /\ proc[holder[m]] = "running"
        /\ UNCHANGED withdrawn
     \/ /\ Revoke(m, "calling", "failed")
        /\ UNCHANGED withdrawn
  /\ UNCHANGED <<holder, log>> /\ RevokeFrame

\* The event says what the SDK said.
CancelNoted(m) ==
  /\ \/ Revoke(m, "revoked", "answered") /\ Note("cancelled", m)
     \/ Revoke(m, "kept", "answered") /\ Note("not_cancellable", m)
  /\ UNCHANGED <<holder, withdrawn>> /\ RevokeFrame

-----------------------------------------------------------------------------
Init ==
  /\ attempt = 1 /\ state = "starting" /\ live = FALSE
  /\ proc = [a \in 1 .. MaxAttempts |-> "none"]
  /\ payload = FALSE /\ inside = {} /\ disconnected = FALSE
  /\ runner = "created" /\ held = FALSE /\ cancelling = FALSE
  /\ stop = "idle" /\ known = FALSE /\ forced = FALSE /\ terminating = FALSE /\ refused = FALSE
  /\ message = [m \in Messages |-> "none"]
  /\ asked = [m \in Messages |-> 0]
  /\ reached = [m \in Messages |-> 0]
  /\ withdrawal = [m \in Messages |-> "none"]
  /\ holder = [m \in Messages |-> 0]
  /\ withdrawn = {}
  /\ log = <<>>

StopNext ==
  \/ StopBegin \/ StopYield \/ StopGrace \/ StopAcquires \/ StopDisconnected
  \/ StopAborts \/ StopCancelsAgain \/ StopJoins \/ StopFinal

Next ==
  \/ OwnerStart \/ Connect \/ Initialized \/ ProcessExits
  \/ \E result \in BOOLEAN : Leave(result)
  \/ RunnerAcquires \/ RunnerDisconnected \/ Persist \/ Cancelled
  \/ \E force \in BOOLEAN : RequestStop(force)
  \/ StopNext \/ Resume
  \/ \E m \in Messages : Steer(m) \/ SteerQueued(m) \/ SteerSent(m) \/ SteerDelivered(m)
  \/ \E m \in Messages : CancelMessage(m) \/ CancelReturns(m) \/ CancelNoted(m)

Spec == Init /\ [][Next]_vars

(***************************************************************************)
(* Fairness.  The loop delivers cancellations, runs what is ready and      *)
(* fires deadlines.  The SDK need not answer: a connect, a turn and the    *)
(* client's disconnect may hang for ever.                                  *)
(***************************************************************************)
FairSpec == Spec /\ WF_vars(StopNext) /\ WF_vars(Cancelled) /\ WF_vars(Persist)

-----------------------------------------------------------------------------
TypeOK ==
  /\ attempt \in 1 .. MaxAttempts /\ state \in States /\ live \in BOOLEAN
  /\ proc \in [1 .. MaxAttempts -> Procs] /\ payload \in BOOLEAN
  /\ inside \in {{}, {"runner"}, {"stop"}} /\ disconnected \in BOOLEAN
  /\ runner \in RunnerPlaces /\ held \in BOOLEAN /\ cancelling \in BOOLEAN
  /\ stop \in StopPlaces /\ {known, forced, terminating, refused} \subseteq BOOLEAN
  /\ message \in [Messages -> MessagePlaces]
  /\ asked \in [Messages -> 0 .. MaxAttempts]
  /\ reached \in [Messages -> 0 .. MaxAttempts]
  /\ withdrawal \in [Messages -> CancelPlaces]
  /\ holder \in [Messages -> 0 .. MaxAttempts] /\ withdrawn \subseteq Messages
  /\ log \in Seq([kind : {"queued", "delivered", "cancelled", "not_cancellable"}, message : Messages,
                 attempt : 1 .. MaxAttempts])

\* Who counts the transport as disconnected, disconnect or abort, is right: its
\* process has ended and its credentials are removed.
DisconnectedMeansGone == disconnected => Gone

\* The client's disconnect never runs twice at a time, and none begins after
\* one returned or an abort was complete (the lock and the flag).
OneDisconnectAtATime ==
  [][/\ Cardinality(inside') <= 1
     /\ disconnected /\ attempt' = attempt => inside' \subseteq inside]_vars

\* A stop that tore down the transport left neither process nor credentials,
\* unless the system refused the kill or the removal (_disconnect_before).
TeardownLeavesNothing == terminating => Gone \/ refused

\* However the owner's disconnect, a stop's disconnect, its deadline and its abort
\* meet, nothing is left of the process where the code goes on as if it were gone.
TeardownIsComplete == DisconnectedMeansGone /\ TeardownLeavesNothing

\* A steering message reaches the SDK of the attempt that was live when it was
\* sent or none, however many attempts come and go during the call (steer).
MessagesStayInAttempt ==
  \A m \in Messages : reached[m] \in {0, asked[m]}

Noted(kind, m) == {i \in DOMAIN log : log[i].kind = kind /\ log[i].message = m}

\* A message that is answered or logged as delivered was accepted by an SDK,
\* after it was logged as queued; one that failed is never logged so.  One that
\* is logged as cancelled was accepted and taken back by the same attempt's SDK.
DeliveriesAreReal ==
  \A m \in Messages :
    /\ message[m] = "accepted" => Noted("delivered", m) # {}
    /\ \A d \in Noted("delivered", m) :
         reached[m] # 0 /\ \E q \in Noted("queued", m) : q < d
    /\ Noted("cancelled", m) # {} => m \in withdrawn /\ reached[m] = holder[m]

\* The calls that hold a transport and the events they leave are about one
\* attempt's SDK, whatever becomes of the attempt (steer, cancel_message).
SteeringIsTrue == MessagesStayInAttempt /\ DeliveriesAreReal

\* A stop ends, though the SDK may hang in its connect, its turn and its
\* disconnect.
StopEnds == stop # "idle" ~> stop = "idle"
=============================================================================
