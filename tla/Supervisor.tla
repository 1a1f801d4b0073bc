----------------------------- MODULE Supervisor -----------------------------
(***************************************************************************)
(* The supervisor (supervisor.py) with the foreground runners it drives    *)
(* (auditor.py, coder.py).                                                 *)
(*                                                                         *)
(* Everything runs on one asyncio loop, so a step of this specification is *)
(* what the code does between two suspensions.  The store's coroutines     *)
(* never suspend and the control lock is only held around them, so a       *)
(* locked section, the finalisation of an attempt and the persistence of a *)
(* result are each one step.  The code suspends at the SDK transport's     *)
(* calls, the preflight, the futures of approvals, and the waits of stop   *)
(* and close: there the other tasks may interleave.                        *)
(*                                                                         *)
(* An attempt is a pair <<worker, number>>; its owner is the task that     *)
(* runs _run_worker for it.                                                *)
(***************************************************************************)
EXTENDS WorkerRow, FiniteSets

CONSTANTS
  Workers,      \* the spawn requests, each the worker it may become
  Requests,     \* identities of approval requests; bounds their number
  MaxAttempts,  \* bound on the attempts of one worker
  Incidents     \* which of AllIncidents may happen

AllIncidents == {"stop", "close", "callback_cancelled", "unsafe_result", "crash"}

ASSUME MaxAttemptsAssumption == MaxAttempts \in Nat \ {0}
ASSUME IncidentsAssumption == Incidents \subseteq AllIncidents

Attempts == Workers \X (1 .. MaxAttempts)
NoAttempt == <<>>

VARIABLES
  row,          \* the workers table
  requested,    \* attempt whose log holds approval.requested for a request
  resolution,   \* status of the request's approval.resolved event
  preflight,    \* spawn calls awaiting the preflight
  owner,        \* where each attempt's owner task is
  run,          \* the local variables of the owner and its runner
  cancelling,   \* attempts whose owner has a cancellation to receive
  phase,        \* _result_phases: the task that persists the result
  live,         \* _live_attempts, 0 for none
  tasks,        \* _tasks, by the attempt of the registered owner, 0 for none
  pending,      \* _pending_approvals
  revoked,      \* pending requests whose callback future was cancelled
  stopReq,      \* _stop_requests
  stopAt,       \* where each attempt's stop operation is
  stopLive,     \* whether the stop operation knows the attempt's transport
  escalated,    \* the operation's escalation event
  closeAt, closeTodo, closeWait   \* the close() call

rows    == <<row, requested, resolution>>
owners  == <<owner, run, cancelling, phase>>
control == <<live, tasks, pending, revoked>>
stops   == <<stopReq, stopAt, stopLive, escalated>>
closing == <<closeAt, closeTodo, closeWait>>
vars    == <<rows, preflight, owners, control, stops, closing>>

OwnerPlaces == {"none", "created", "connecting", "running", "settling",
                "disconnecting", "persisting", "done"}
StopPlaces  == {"idle", "begin", "yield", "grace", "disconnect", "cancel",
                "gather", "join", "final"}
ClosePlaces == {"open", "stopping", "draining", "closed", "aborted"}

(***************************************************************************)
(* What a runner holds on its way out (kind): a result, the absence of a   *)
(* result ("missing"), or an exception that passes through its finally     *)
(* clause ("eof", "cancelled").  safe is FALSE for a result whose model or *)
(* session metadata the store refuses.  preceded is result_preceded_stop,  *)
(* disconnected a flag of the runner's transport.                          *)
(***************************************************************************)
Run == [kind : Results \cup {NoResult, "missing", "eof", "cancelled"},
        session : BOOLEAN, safe : BOOLEAN,
        preceded : BOOLEAN, disconnected : BOOLEAN]
NoRun == [kind |-> NoResult, session |-> FALSE, safe |-> TRUE,
          preceded |-> FALSE, disconnected |-> FALSE]

\* The results that Qoder may send.
SdkResult == [kind : SdkResults, session : BOOLEAN,
              safe : IF "unsafe_result" \in Incidents THEN BOOLEAN ELSE {TRUE}]

WorkerOf(k) == k[1]
NumberOf(k) == k[2]

Closed == closeAt # "open"
Current(k) == row[WorkerOf(k)].attempt = NumberOf(k)
Over(w) == row[w].state \in Terminal
Registered(k) == live[WorkerOf(k)] = NumberOf(k)
OwnerGone(k) == owner[k] \in {"none", "done"}
PendingOf(k) == {r \in pending : requested[r] = k}

-----------------------------------------------------------------------------
(***************************************************************************)
(* The pieces that several handlers share.                                 *)
(*                                                                         *)
(* A definition named X_... before a definition X is a plausible mistake   *)
(* in the code of X.  No specification uses it: it takes the place of X to *)
(* show that a property notices the mistake.                               *)
(***************************************************************************)

Expires_Never(k) == FALSE

\* Whether completing k finds requests that the store agrees to expire.
Expires(k) ==
  /\ Registered(k)
  /\ PendingOf(k) # {}
  /\ Current(k)
  /\ row[WorkerOf(k)].state = RequiresAction

Completed_StillWaiting(k) == row[WorkerOf(k)]

\* The row _complete_live_attempt leaves: expired approvals restore running.
Completed(k) ==
  IF Expires(k) THEN Move(row[WorkerOf(k)], Running) ELSE row[WorkerOf(k)]

Gone_Forgotten(k) == {}

\* The requests that completing k forgets.
Gone(k) == IF Registered(k) THEN PendingOf(k) ELSE {}

\* Everything else _complete_live_attempt changes.
CompleteLiveAttempt(k) ==
  /\ pending' = pending \ Gone(k)
  /\ revoked' = revoked \ Gone(k)
  /\ resolution' = [r \in Requests |-> IF r \in Gone(k) /\ Expires(k)
                                       THEN "expired" ELSE resolution[r]]
  /\ live' = [live EXCEPT ![WorkerOf(k)] = IF Registered(k) THEN 0 ELSE @]

\* The state _finalize_without_result moves to, and whether it must move.
FinalTarget(k, missing) ==
  LET r == Completed(k) IN
  IF r.result # NoResult THEN TargetOf(r.result) ELSE missing

MustFinalize_Initialized(k) ==
  Current(k) /\ row[WorkerOf(k)].state \in {Running, RequiresAction}

MustFinalize(k) == Current(k) /\ ~ Over(WorkerOf(k))

FinalizeRaises(k, missing) ==
  MustFinalize(k) /\ ~ CanMove(Completed(k).state, FinalTarget(k, missing))

Finalized(k, missing) ==
  LET exited == SetHealth(Completed(k), "exited") IN
  IF ~ MustFinalize(k) THEN Completed(k)
  ELSE IF FinalizeRaises(k, missing) THEN exited
  ELSE Move(exited, FinalTarget(k, missing))

FinalizeWithoutResult_KeepsControls(k, missing) ==
  /\ row' = [row EXCEPT ![WorkerOf(k)] = Finalized(k, missing)]
  /\ UNCHANGED <<resolution, pending, revoked, live>>

FinalizeWithoutResult(k, missing) ==
  /\ CompleteLiveAttempt(k)
  /\ row' = [row EXCEPT ![WorkerOf(k)] = Finalized(k, missing)]

MissingState(k) == IF k \in stopReq THEN "cancelled" ELSE "lost"

\* The owner task ends, and its local variables with it.
OwnerEnds(k) ==
  /\ owner' = [owner EXCEPT ![k] = "done"]
  /\ run' = [run EXCEPT ![k] = NoRun]

\* The runner returned or raised h: start the result phase, or finalise.
AfterRun(k, h) ==
  \/ /\ h.kind \in Results
     /\ owner' = [owner EXCEPT ![k] = "persisting"]
     /\ phase' = [phase EXCEPT ![k] = "pending"]
     /\ run' = [run EXCEPT ![k] = h]
     /\ UNCHANGED <<row, resolution, pending, revoked, live>>
  \/ /\ h.kind \notin Results
     /\ OwnerEnds(k)
     /\ FinalizeWithoutResult(k, MissingState(k))
     /\ UNCHANGED phase

\* The runner leaves its try block with h: a transport that is already
\* disconnected does not suspend.
EnterDisconnect(k, h) ==
  IF h.disconnected THEN AfterRun(k, h)
  ELSE /\ run' = [run EXCEPT ![k] = h]
       /\ owner' = [owner EXCEPT ![k] = "disconnecting"]
       /\ UNCHANGED <<row, resolution, pending, revoked, live, phase>>

\* The runner's variables once it holds something else than a result of Qoder.
Holding(k, kind) ==
  [run[k] EXCEPT !.kind = kind, !.session = FALSE, !.safe = TRUE]

\* ... and once it holds a result of Qoder (on_result).
HoldingResult(k, result) ==
  [kind |-> result.kind, session |-> result.session, safe |-> result.safe,
   preceded |-> k \notin stopReq, disconnected |-> run[k].disconnected]

\* What EnterDisconnect and AfterRun leave alone.
RunFrame == UNCHANGED <<requested, preflight, tasks, stops, closing>>

-----------------------------------------------------------------------------
(***************************************************************************)
(* spawn and resume.                                                       *)
(***************************************************************************)

\* spawn up to the preflight.
SpawnBegin(w) ==
  /\ ~ Closed
  /\ row[w].state = Absent /\ w \notin preflight
  /\ preflight' = preflight \cup {w}
  /\ UNCHANGED <<rows, owners, control, stops, closing>>

PreflightPassed_Unchecked(w) == w \in preflight

\* The preflight passed, and no close came first.
PreflightPassed(w) == w \in preflight /\ ~ Closed

\* The worker is created.
SpawnCommit(w) ==
  /\ PreflightPassed(w)
  /\ preflight' = preflight \ {w}
  /\ row' = [row EXCEPT ![w] = FreshAttempt(1)]
  /\ owner' = [owner EXCEPT ![<<w, 1>>] = "created"]
  /\ tasks' = [tasks EXCEPT ![w] = 1]
  /\ UNCHANGED <<requested, resolution, run, cancelling, phase, live, pending,
                 revoked, stops, closing>>

\* The preflight failed, or it passed after a close.
SpawnRefused(w) ==
  /\ w \in preflight
  /\ preflight' = preflight \ {w}
  /\ UNCHANGED <<rows, owners, control, stops, closing>>

MayResume_AnySession(w) == ~ Closed /\ row[w].state \in Resumable

MayResume(w) == ~ Closed /\ row[w].state \in Resumable /\ row[w].session

Resume(w) ==
  LET n == row[w].attempt + 1 IN
  /\ MayResume(w)
  /\ n <= MaxAttempts
  /\ row' = [row EXCEPT ![w] = FreshAttempt(n)]
  /\ owner' = [owner EXCEPT ![<<w, n>>] = "created"]
  /\ tasks' = [tasks EXCEPT ![w] = n]
  /\ UNCHANGED <<requested, resolution, preflight, run, cancelling, phase, live,
                 pending, revoked, stops, closing>>

-----------------------------------------------------------------------------
(***************************************************************************)
(* The owner task.  Every step but OwnerCancelled needs that no            *)
(* cancellation waits: the loop delivers one at the task's next step,      *)
(* whatever it was waiting for.                                            *)
(***************************************************************************)
OwnerAt(k, place) == owner[k] = place /\ k \notin cancelling

\* The transport factory built a transport and bound its callbacks.
OwnerStart(k) ==
  /\ OwnerAt(k, "created")
  /\ owner' = [owner EXCEPT ![k] = "connecting"]
  /\ live' = [live EXCEPT ![WorkerOf(k)] = NumberOf(k)]
  /\ UNCHANGED <<rows, preflight, run, cancelling, phase, tasks, pending, revoked,
                 stops, closing>>

\* The factory raised: there is no transport to disconnect.
OwnerFactoryFails(k) ==
  /\ OwnerAt(k, "created")
  /\ AfterRun(k, Holding(k, "adapter_failure"))
  /\ UNCHANGED cancelling /\ RunFrame

\* connect, the model catalog, the model selection, then on_initialized.
OwnerInitialized(k) ==
  /\ OwnerAt(k, "connecting")
  /\ CanMove(row[WorkerOf(k)].state, Running)
  /\ owner' = [owner EXCEPT ![k] = "running"]
  /\ row' = [row EXCEPT ![WorkerOf(k)] = SetHealth(Move(@, Running), "healthy")]
  /\ UNCHANGED <<requested, resolution, preflight, run, cancelling, phase,
                 control, stops, closing>>

\* An AdapterDiagnostic before the result or during the settlement, or a
\* model that is not available: the runner composes a failure of its own.
OwnerAdapterFails(k) ==
  /\ OwnerAt(k, "connecting") \/ OwnerAt(k, "running") \/ OwnerAt(k, "settling")
  /\ EnterDisconnect(k, Holding(k, "adapter_failure"))
  /\ UNCHANGED cancelling /\ RunFrame

\* The main result arrived; nested tasks may still be active.
OwnerResult(k, result, nested) ==
  /\ OwnerAt(k, "running")
  /\ \/ /\ nested
        /\ run' = [run EXCEPT ![k] = HoldingResult(k, result)]
        /\ owner' = [owner EXCEPT ![k] = "settling"]
        /\ UNCHANGED <<row, resolution, pending, revoked, live, phase>>
     \/ /\ ~ nested
        /\ EnterDisconnect(k, HoldingResult(k, result))
  /\ UNCHANGED cancelling /\ RunFrame

\* The stream ended without a result, or the process exited.
OwnerStreamEnds(k, kind) ==
  /\ OwnerAt(k, "running")
  /\ EnterDisconnect(k, Holding(k, kind))
  /\ UNCHANGED cancelling /\ RunFrame

\* The nested tasks ended, the settlement timed out, or the process exited:
\* in each case the main result is kept.
OwnerSettled(k) ==
  /\ OwnerAt(k, "settling")
  /\ EnterDisconnect(k, run[k])
  /\ UNCHANGED cancelling /\ RunFrame

\* The runner's disconnect returned.
OwnerDisconnected(k) ==
  /\ OwnerAt(k, "disconnecting")
  /\ AfterRun(k, [run[k] EXCEPT !.disconnected = TRUE])
  /\ UNCHANGED cancelling /\ RunFrame

\* The runner's disconnect failed: a result is marked failed.
OwnerDisconnectFails(k) ==
  /\ OwnerAt(k, "disconnecting") /\ ~ run[k].disconnected
  /\ AfterRun(k, [run[k] EXCEPT !.kind = IF @ \in SdkResults THEN "failed" ELSE @])
  /\ UNCHANGED cancelling /\ RunFrame

\* A cancellation reaches the owner.  Before its first step nothing of
\* _run_worker runs; the settlement keeps its result; the disconnect raises
\* and so loses what the runner held; the result phase is never interrupted.
OwnerCancelled(k) ==
  /\ k \in cancelling
  /\ cancelling' = cancelling \ {k}
  /\ RunFrame
  /\ \/ /\ owner[k] = "created"
        /\ OwnerEnds(k)
        /\ UNCHANGED <<row, resolution, pending, revoked, live, phase>>
     \/ /\ owner[k] \in {"connecting", "running"}
        /\ EnterDisconnect(k, Holding(k, "cancelled"))
     \/ /\ owner[k] = "settling"
        /\ EnterDisconnect(k, run[k])
     \/ /\ owner[k] = "disconnecting"
        /\ AfterRun(k, Holding(k, "cancelled"))
     \/ /\ owner[k] = "persisting"
        /\ UNCHANGED <<row, resolution, pending, revoked, live, phase, run, owner>>

\* The owner wakes after the result phase.
OwnerReturns(k) ==
  /\ OwnerAt(k, "persisting") /\ phase[k] # "pending"
  /\ OwnerEnds(k)
  /\ UNCHANGED <<rows, preflight, cancelling, phase, control, stops, closing>>

\* The done callback of the owner (_task_finished).
TaskFinished(k) ==
  /\ owner[k] = "done" /\ tasks[WorkerOf(k)] = NumberOf(k)
  /\ tasks' = [tasks EXCEPT ![WorkerOf(k)] = 0]
  /\ UNCHANGED <<rows, preflight, owners, live, pending, revoked, stops, closing>>

-----------------------------------------------------------------------------
(***************************************************************************)
(* The result phase (_persist_accepted_result).                            *)
(***************************************************************************)
ResultTarget_StopAlways(k) ==
  IF k \in stopReq THEN "cancelled" ELSE TargetOf(run[k].kind)

ResultTarget_StopNever(k) == TargetOf(run[k].kind)

ResultTarget(k) ==
  IF k \in stopReq /\ ~ run[k].preceded THEN "cancelled" ELSE TargetOf(run[k].kind)

ResultRecorded_KeepsHealth(k) ==
  RecordResult(Completed(k), run[k].kind, run[k].session)

\* The row once the result is recorded: an attempt that never left starting
\* was never initialised, and keeps its health.
ResultRecorded(k) ==
  LET r == RecordResult(Completed(k), run[k].kind, run[k].session) IN
  IF r.state = Starting THEN r ELSE SetHealth(r, "exited")

PersistAcceptedResult(k) ==
  /\ phase[k] = "pending"
  /\ phase' = [phase EXCEPT ![k] = "done"]
  /\ CompleteLiveAttempt(k)
  /\ \/ \* record_result refuses the metadata, and the phase ends there
        /\ ~ run[k].safe
        /\ row' = [row EXCEPT ![WorkerOf(k)] = Completed(k)]
        /\ UNCHANGED stopReq
     \/ \* the terminal transition is refused after the result is recorded
        /\ run[k].safe /\ ~ CanMove(Completed(k).state, ResultTarget(k))
        /\ row' = [row EXCEPT ![WorkerOf(k)] = ResultRecorded(k)]
        /\ UNCHANGED stopReq
     \/ /\ run[k].safe /\ CanMove(Completed(k).state, ResultTarget(k))
        /\ row' = [row EXCEPT ![WorkerOf(k)] =
                     Move(ResultRecorded(k), ResultTarget(k))]
        /\ stopReq' = stopReq \ {k}
  /\ UNCHANGED <<requested, preflight, owner, run, cancelling, tasks, stopAt,
                 stopLive, escalated, closing>>

\* The done callback of the result phase drops it from _result_phases.
ResultPhaseFinished(k) ==
  /\ phase[k] = "done"
  /\ phase' = [phase EXCEPT ![k] = "none"]
  /\ UNCHANGED <<rows, preflight, owner, run, cancelling, control, stops, closing>>

-----------------------------------------------------------------------------
(***************************************************************************)
(* Approvals.                                                              *)
(***************************************************************************)

\* The SDK calls back for a permission or an elicitation (_request_approval).
RequestApproval(k, r) ==
  /\ requested[r] = NoAttempt
  /\ ~ Closed
  /\ Current(k) /\ Registered(k)
  /\ row[WorkerOf(k)].state \in {Running, RequiresAction}
  /\ requested' = [requested EXCEPT ![r] = k]
  /\ pending' = pending \cup {r}
  /\ row' = [row EXCEPT ![WorkerOf(k)] = Move(@, RequiresAction)]
  /\ UNCHANGED <<resolution, preflight, owners, live, tasks, revoked, stops,
                 closing>>

MayAnswer_Forgotten(r) ==
  LET k == requested[r] IN
  /\ k # NoAttempt
  /\ Current(k) /\ Registered(k)
  /\ row[WorkerOf(k)].state = RequiresAction

\* What respond checks.
MayAnswer(r) ==
  LET k == requested[r] IN
  /\ r \in pending
  /\ Current(k) /\ Registered(k)
  /\ row[WorkerOf(k)].state = RequiresAction

LastPending_Any(r) == TRUE

\* No other request of the attempt is pending.
LastPending(r) == PendingOf(requested[r]) \subseteq {r}

\* respond: the last pending request of the attempt restores running.
Respond(r) ==
  LET k == requested[r] IN
  /\ MayAnswer(r)
  /\ resolution' = [resolution EXCEPT ![r] = "responded"]
  /\ pending' = pending \ {r}
  /\ revoked' = revoked \ {r}
  /\ row' = [row EXCEPT ![WorkerOf(k)] =
               IF LastPending(r) THEN Move(@, Running) ELSE @]
  /\ UNCHANGED <<requested, preflight, owners, live, tasks, stops, closing>>

\* The SDK cancels a callback that still waits for its answer ...
CallbackCancelled(r) ==
  /\ "callback_cancelled" \in Incidents
  /\ r \in pending \ revoked
  /\ revoked' = revoked \cup {r}
  /\ UNCHANGED <<rows, preflight, owners, live, tasks, pending, stops, closing>>

CallbackCleanup_Twice(r) ==
  /\ r \in revoked
  /\ pending' = pending \ {r}
  /\ UNCHANGED <<rows, preflight, owners, live, tasks, revoked, stops, closing>>

\* ... and the callback's finally clause forgets the request.
CallbackCleanup(r) ==
  /\ r \in revoked
  /\ pending' = pending \ {r}
  /\ revoked' = revoked \ {r}
  /\ UNCHANGED <<rows, preflight, owners, live, tasks, stops, closing>>

-----------------------------------------------------------------------------
(***************************************************************************)
(* stop: at most one operation per attempt, which later callers join.      *)
(***************************************************************************)
CanStop(w) == row[w].attempt > 0 /\ ~ Over(w) /\ tasks[w] # 0

\* The operation still consults its escalation event.
Graceful(k) == stopAt[k] \in {"begin", "yield", "grace"}

RequestStop(k, force) ==
  IF stopAt[k] = "idle"
  THEN /\ stopReq' = stopReq \cup {k}
       /\ stopAt' = [stopAt EXCEPT ![k] = "begin"]
       /\ stopLive' = [stopLive EXCEPT ![k] = Registered(k)]
       /\ escalated' = [escalated EXCEPT ![k] = force]
  ELSE /\ escalated' = [escalated EXCEPT ![k] = @ \/ (force /\ Graceful(k))]
       /\ UNCHANGED <<stopReq, stopAt, stopLive>>

Stop(w, force) ==
  /\ "stop" \in Incidents
  /\ CanStop(w)
  /\ RequestStop(<<w, row[w].attempt>>, force)
  /\ UNCHANGED <<rows, preflight, owners, control, closing>>

StopMoves(k, from, to) ==
  /\ stopAt[k] = from
  /\ stopAt' = [stopAt EXCEPT ![k] = to]
  /\ stopLive' = [stopLive EXCEPT ![k] = FALSE]
  /\ escalated' = [escalated EXCEPT ![k] = @ /\ to \in {"yield", "grace"}]

StopFrame == UNCHANGED <<rows, preflight, owner, phase, control, stopReq, closing>>

CancelOwner_Forgotten(k) == UNCHANGED cancelling

CancelOwner(k) == cancelling' = cancelling \cup {k}

\* What teardown does once there is no more transport to disconnect:
\* join the result phase, or cancel the owner (start of _cancel_owner).
JoinOrCancel(k, from) ==
  \/ /\ phase[k] # "none"
     /\ StopMoves(k, from, "join")
     /\ UNCHANGED cancelling
  \/ /\ phase[k] = "none" /\ OwnerGone(k)
     /\ StopMoves(k, from, "final")
     /\ UNCHANGED cancelling
  \/ /\ phase[k] = "none" /\ ~ OwnerGone(k)
     /\ StopMoves(k, from, "cancel")
     /\ CancelOwner(k)

\* From where the operation knows whether it has a transport: grace,
\* forced teardown, or straight to the owner.
StopChoose(k, from, known) ==
  \/ /\ known /\ ~ escalated[k]
     /\ StopMoves(k, from, "grace")
     /\ UNCHANGED cancelling
  \/ /\ known /\ escalated[k]
     /\ StopMoves(k, from, "disconnect")
     /\ UNCHANGED cancelling
  \/ ~ known /\ JoinOrCancel(k, from)

StopBegin(k) ==
  /\ \/ /\ phase[k] # "none"
        /\ StopMoves(k, "begin", "join")
        /\ UNCHANGED cancelling
     \/ /\ phase[k] = "none" /\ ~ stopLive[k] /\ ~ escalated[k]
        /\ StopMoves(k, "begin", "yield")
        /\ UNCHANGED cancelling
     \/ /\ phase[k] = "none" /\ (stopLive[k] \/ escalated[k])
        /\ StopChoose(k, "begin", stopLive[k])
  /\ UNCHANGED run /\ StopFrame

\* The transport may have been registered while the operation yielded.
StopYield(k) ==
  /\ StopChoose(k, "yield", Registered(k))
  /\ UNCHANGED run /\ StopFrame

\* _wait_for_graceful_stop: the interrupt, then the wait for the owner.  The
\* owner ended; or the interrupt failed, or the deadline or force came.
StopGrace(k) ==
  /\ \/ owner[k] = "done" /\ ~ escalated[k] /\ StopMoves(k, "grace", "final")
     \/ /\ owner[k] # "done" \/ escalated[k]
        /\ StopMoves(k, "grace", "disconnect")
  /\ UNCHANGED <<cancelling, run>> /\ StopFrame

\* _disconnect_before: the disconnect returned, or abort took its place, which
\* may or may not mark the transport disconnected (which only the runner, if
\* it is still there, will look at).
StopDisconnect(k) ==
  /\ JoinOrCancel(k, "disconnect")
  /\ \/ UNCHANGED run
     \/ ~ OwnerGone(k) /\ run' = [run EXCEPT ![k].disconnected = TRUE]
  /\ StopFrame

\* The rechecks of _cancel_owner, after the owner received the cancellation:
\* the last one cancels again.
StopCancelOwner(k) ==
  /\ stopAt[k] = "cancel"
  /\ \/ /\ phase[k] # "none"
        /\ StopMoves(k, "cancel", "join")
        /\ UNCHANGED cancelling
     \/ /\ phase[k] = "none" /\ OwnerGone(k)
        /\ StopMoves(k, "cancel", "final")
        /\ UNCHANGED cancelling
     \/ /\ phase[k] = "none" /\ ~ OwnerGone(k) /\ k \notin cancelling
        /\ StopMoves(k, "cancel", "gather")
        /\ CancelOwner(k)
  /\ UNCHANGED run /\ StopFrame

StopGather_Impatient(k) ==
  /\ StopMoves(k, "gather", "final")
  /\ UNCHANGED <<cancelling, run>> /\ StopFrame

\* The owner ended after the second cancellation.
StopGather(k) ==
  /\ OwnerGone(k) /\ StopMoves(k, "gather", "final")
  /\ UNCHANGED <<cancelling, run>> /\ StopFrame

\* _join_result_phase: the phase and then the owner ended.
StopJoin(k) ==
  /\ phase[k] # "pending" /\ OwnerGone(k)
  /\ StopMoves(k, "join", "final")
  /\ UNCHANGED <<cancelling, run>> /\ StopFrame

\* The operation finalises the attempt.  A refused transition ends it with
\* an error, which a close that waits for it does not survive.
StopFinal(k) ==
  /\ StopMoves(k, "final", "idle")
  /\ FinalizeWithoutResult(k, "cancelled")
  /\ \/ /\ FinalizeRaises(k, "cancelled")
        /\ closeAt' = IF closeWait = k THEN "aborted" ELSE closeAt
        /\ UNCHANGED stopReq
     \/ /\ ~ FinalizeRaises(k, "cancelled")
        /\ stopReq' = stopReq \ {k}
        /\ UNCHANGED closeAt
  /\ UNCHANGED <<requested, preflight, owners, tasks, closeTodo, closeWait>>

StopStep(k) ==
  \/ StopBegin(k) \/ StopYield(k) \/ StopGrace(k)
  \/ StopDisconnect(k) \/ StopCancelOwner(k) \/ StopGather(k) \/ StopJoin(k)
  \/ StopFinal(k)

-----------------------------------------------------------------------------
(***************************************************************************)
(* close, and the life of the process.                                     *)
(***************************************************************************)
CloseBegin ==
  /\ "close" \in Incidents
  /\ closeAt = "open"
  /\ closeAt' = "stopping"
  /\ closeTodo' = {w \in Workers : tasks[w] # 0}
  /\ UNCHANGED <<rows, preflight, owners, control, stops, closeWait>>

\* close calls stop(force) for the next worker; stop may have nothing to do.
CloseStop(w) ==
  /\ closeAt = "stopping" /\ w \in closeTodo /\ closeWait = NoAttempt
  /\ \/ /\ CanStop(w)
        /\ RequestStop(<<w, row[w].attempt>>, TRUE)
        /\ closeWait' = <<w, row[w].attempt>>
        /\ UNCHANGED closeTodo
     \/ /\ ~ CanStop(w)
        /\ closeTodo' = closeTodo \ {w}
        /\ UNCHANGED <<stops, closeWait>>
  /\ UNCHANGED <<rows, preflight, owners, control, closeAt>>

CloseStopReturns ==
  /\ closeAt = "stopping" /\ closeWait # NoAttempt
  /\ stopAt[closeWait] = "idle"
  /\ closeTodo' = closeTodo \ {WorkerOf(closeWait)}
  /\ closeWait' = NoAttempt
  /\ UNCHANGED <<rows, preflight, owners, control, stops, closeAt>>

\* Tasks that are still there are cancelled ...
CloseDrain ==
  /\ closeAt = "stopping" /\ closeTodo = {}
  /\ closeAt' = "draining"
  /\ cancelling' = cancelling \cup
       {k \in Attempts : tasks[WorkerOf(k)] = NumberOf(k) /\ ~ OwnerGone(k)}
  /\ UNCHANGED <<rows, preflight, owner, run, phase, control, stops, closeTodo,
                 closeWait>>

\* ... and gathered.
CloseEnd ==
  /\ closeAt = "draining"
  /\ \A k \in Attempts : tasks[WorkerOf(k)] = NumberOf(k) => OwnerGone(k)
  /\ closeAt' = "closed"
  /\ tasks' = [w \in Workers |-> 0]
  /\ UNCHANGED <<rows, preflight, owners, live, pending, revoked, stops,
                 closeTodo, closeWait>>

\* A new process knows nothing but the rows.
FreshProcess ==
  /\ preflight' = {}
  /\ owner' = [k \in Attempts |-> "none"]
  /\ run' = [k \in Attempts |-> NoRun]
  /\ cancelling' = {}
  /\ phase' = [k \in Attempts |-> "none"]
  /\ live' = [w \in Workers |-> 0]
  /\ tasks' = [w \in Workers |-> 0]
  /\ pending' = {}
  /\ revoked' = {}
  /\ stopReq' = {}
  /\ stopAt' = [k \in Attempts |-> "idle"]
  /\ stopLive' = [k \in Attempts |-> FALSE]
  /\ escalated' = [k \in Attempts |-> FALSE]
  /\ closeAt' = "open"
  /\ closeTodo' = {}
  /\ closeWait' = NoAttempt
  /\ UNCHANGED rows

\* After close the process ends, once the loop has run what was ready: a stop
\* operation whose owner is over has nothing left to wait for.
Restart ==
  /\ closeAt \in {"closed", "aborted"}
  /\ \A k \in Attempts : OwnerGone(k) => stopAt[k] = "idle"
  /\ FreshProcess

Crash == "crash" \in Incidents /\ FreshProcess

-----------------------------------------------------------------------------
Init ==
  /\ row = [w \in Workers |-> NoRow]
  /\ requested = [r \in Requests |-> NoAttempt]
  /\ resolution = [r \in Requests |-> "none"]
  /\ preflight = {}
  /\ owner = [k \in Attempts |-> "none"]
  /\ run = [k \in Attempts |-> NoRun]
  /\ cancelling = {}
  /\ phase = [k \in Attempts |-> "none"]
  /\ live = [w \in Workers |-> 0]
  /\ tasks = [w \in Workers |-> 0]
  /\ pending = {}
  /\ revoked = {}
  /\ stopReq = {}
  /\ stopAt = [k \in Attempts |-> "idle"]
  /\ stopLive = [k \in Attempts |-> FALSE]
  /\ escalated = [k \in Attempts |-> FALSE]
  /\ closeAt = "open"
  /\ closeTodo = {}
  /\ closeWait = NoAttempt

OwnerStep(k) ==
  \/ OwnerStart(k) \/ OwnerFactoryFails(k) \/ OwnerInitialized(k)
  \/ OwnerAdapterFails(k)
  \/ \E result \in SdkResult, nested \in BOOLEAN : OwnerResult(k, result, nested)
  \/ \E kind \in {"missing", "eof"} : OwnerStreamEnds(k, kind)
  \/ OwnerSettled(k) \/ OwnerDisconnected(k) \/ OwnerDisconnectFails(k)
  \/ OwnerCancelled(k) \/ OwnerReturns(k) \/ TaskFinished(k)
  \/ PersistAcceptedResult(k) \/ ResultPhaseFinished(k)

ClientStep(w) ==
  \/ SpawnBegin(w) \/ SpawnCommit(w) \/ SpawnRefused(w) \/ Resume(w)
  \/ \E force \in BOOLEAN : Stop(w, force)

ApprovalStep(r) ==
  \/ \E k \in Attempts : RequestApproval(k, r)
  \/ Respond(r) \/ CallbackCancelled(r) \/ CallbackCleanup(r)

CloseStep ==
  \/ CloseBegin \/ CloseStopReturns \/ CloseDrain \/ CloseEnd
  \/ \E w \in Workers : CloseStop(w)

Next ==
  \/ \E w \in Workers : ClientStep(w)
  \/ \E k \in Attempts : OwnerStep(k) \/ StopStep(k)
  \/ \E r \in Requests : ApprovalStep(r)
  \/ CloseStep \/ Restart \/ Crash

Spec == Init /\ [][Next]_vars

(***************************************************************************)
(* Fairness.  The loop runs whatever is ready: started tasks, delivered    *)
(* cancellations, done callbacks, the steps of stop and close, and the     *)
(* deadlines that bound the settlement and each wait of a stop.  Nothing   *)
(* is assumed of the SDK's answers, of clients, or of approvals.           *)
(***************************************************************************)
LoopStep(k) ==
  \/ OwnerStart(k) \/ OwnerFactoryFails(k) \/ OwnerSettled(k)
  \/ OwnerCancelled(k) \/ OwnerReturns(k)

Fairness ==
  /\ \A k \in Attempts :
       /\ WF_vars(LoopStep(k))
       /\ WF_vars(PersistAcceptedResult(k))
       /\ WF_vars(ResultPhaseFinished(k))
       /\ WF_vars(TaskFinished(k))
       /\ WF_vars(StopStep(k))
  /\ WF_vars(CloseStopReturns \/ CloseDrain \/ CloseEnd
             \/ \E w \in Workers : CloseStop(w))

FairSpec == Spec /\ Fairness

-----------------------------------------------------------------------------
(***************************************************************************)
(* Safety, whatever incidents happen.                                      *)
(***************************************************************************)

\* Every variable has its type.
TypeOK ==
  /\ row \in [Workers -> Row]
  /\ requested \in [Requests -> Attempts \cup {NoAttempt}]
  /\ resolution \in [Requests -> {"none", "responded", "expired"}]
  /\ preflight \subseteq Workers
  /\ owner \in [Attempts -> OwnerPlaces]
  /\ run \in [Attempts -> Run]
  /\ cancelling \subseteq Attempts
  /\ phase \in [Attempts -> {"none", "pending", "done"}]
  /\ live \in [Workers -> 0 .. MaxAttempts]
  /\ tasks \in [Workers -> 0 .. MaxAttempts]
  /\ pending \subseteq Requests
  /\ revoked \subseteq pending
  /\ stopReq \subseteq Attempts
  /\ stopAt \in [Attempts -> StopPlaces]
  /\ stopLive \in [Attempts -> BOOLEAN]
  /\ escalated \in [Attempts -> BOOLEAN]
  /\ closeAt \in ClosePlaces
  /\ closeTodo \subseteq Workers
  /\ closeWait \in Attempts \cup {NoAttempt}

\* A request that can still be answered belongs to the attempt that the row
\* shows, whose transport is registered, and the row says that the worker
\* waits for an answer: respond never refuses a listed request as stale.
PendingIsLive ==
  \A r \in pending :
    LET k == requested[r] IN
    /\ k \in Attempts
    /\ Current(k) /\ Registered(k)
    /\ row[WorkerOf(k)].state = RequiresAction

\* Once the row shows a terminal state, no control of the attempt is left: no
\* transport to steer or interrupt, and no request to answer, so that a resume
\* finds the worker's maps clean.
TerminalReleasesControls ==
  \A w \in Workers :
    Over(w) => /\ live[w] = 0
               /\ \A r \in pending : WorkerOf(requested[r]) # w

\* Only the owner and the result phase of the row's own attempt can still
\* write to the row: what remains of an attempt after a resume has nothing
\* left to do but end.
StaleOwnersAreQuiet ==
  \A k \in Attempts :
    \/ owner[k] \in {"created", "connecting", "running", "settling", "disconnecting"}
    \/ phase[k] = "pending"
    => Current(k) /\ ~ Over(WorkerOf(k))

\* A result that arrived before any stop of its attempt is never recorded
\* under the state cancelled, however the stop and the result phase race.
AcceptedResultNotCancelled ==
  [][\A k \in Attempts :
       LET w == WorkerOf(k) IN
       run[k].preceded /\ Current(k) /\ ~ Over(w) /\ row'[w].state = "cancelled"
       => row'[w].result = NoResult]_vars

\* An approval is resolved at most once, and only while its own attempt waits
\* for it: no answer reaches an earlier attempt, and none is overwritten by
\* the expiry of the attempt's end.
AnswersAreLive ==
  [][\A r \in Requests :
       resolution'[r] # resolution[r] =>
         LET k == requested[r] IN
         /\ resolution[r] = "none" /\ r \in pending
         /\ Current(k) /\ row[WorkerOf(k)].state = RequiresAction]_vars

\* A stop that finds its attempt without a result wins: if the attempt ends,
\* it ends cancelled, even when the interrupt releases a result.
StopWins ==
  \A k \in Attempts :
    [](k \in stopReq /\ owner[k] \in {"created", "connecting", "running"}
       => [](Current(k) /\ Over(WorkerOf(k)) => row[WorkerOf(k)].state = "cancelled"))

-----------------------------------------------------------------------------
(***************************************************************************)
(* The inductive invariant behind the safety properties above.             *)
(***************************************************************************)
RowsAreNumbered ==
  \A w \in Workers :
    /\ row[w].attempt <= MaxAttempts
    /\ row[w].state = Absent <=> row[w].attempt = 0

NewcomersAreAbsent == \A w \in preflight : row[w].state = Absent

LiveIsCurrent ==
  \A w \in Workers : live[w] # 0 => live[w] = row[w].attempt /\ ~ Over(w)

RequestsAreUnresolved ==
  \A r \in Requests :
    requested[r] = NoAttempt \/ r \in pending => resolution[r] = "none"

ConnectingIsStarting ==
  \A k \in Attempts :
    owner[k] \in {"created", "connecting"} => row[WorkerOf(k)].state = Starting

PhaseHasResult ==
  \A k \in Attempts :
    phase[k] = "pending" => owner[k] = "persisting" /\ run[k].kind \in Results

FutureIsUnused ==
  \A k \in Attempts :
    NumberOf(k) > row[WorkerOf(k)].attempt =>
      owner[k] = "none" /\ phase[k] = "none" /\ stopAt[k] = "idle"

FinalStopHasNoOwner ==
  \A k \in Attempts : stopAt[k] = "final" => OwnerGone(k)

\* What a client can hold of a worker agrees with its row ...
Controls == RowsAreNumbered /\ LiveIsCurrent /\ PendingIsLive /\ RequestsAreUnresolved

\* ... and so do the tasks that may still change it.
TasksAgree ==
  /\ NewcomersAreAbsent /\ StaleOwnersAreQuiet /\ ConnectingIsStarting
  /\ PhaseHasResult /\ FutureIsUnused /\ FinalStopHasNoOwner

\* What remains true of rows, controls and tasks whatever step is taken; the
\* safety properties above follow from it.
IInv == TypeOK /\ Controls /\ TasksAgree

-----------------------------------------------------------------------------
(***************************************************************************)
(* Properties that some incident breaks.                                   *)
(***************************************************************************)
CurrentAttempt(w) == <<w, row[w].attempt>>

Controlled(w) ==
  LET k == CurrentAttempt(w) IN
  \/ ~ OwnerGone(k) \/ phase[k] = "pending" \/ stopAt[k] # "idle"

\* No worker is left behind: until its attempt is over, some task is there to
\* end it.
ControlledOrOver ==
  \A w \in Workers : row[w].state = Absent \/ Over(w) \/ Controlled(w)

\* The health projection follows the attempt: healthy exactly while it works,
\* and exited only once it is over.
HealthFollowsState ==
  \A w \in Workers :
    /\ row[w].health = "exited" => Over(w)
    /\ row[w].health = "healthy" <=> row[w].state \in {Running, RequiresAction}

\* What a row says of its worker is so: who is not over is controlled, and the
\* health is that of the state (_finalize_without_result, _complete_live_attempt).
RowsAreTrue == ControlledOrOver /\ HealthFollowsState

\* Every request that was shown to the controller and can no longer be
\* answered has its resolution in the log.
EveryRequestIsResolved ==
  \A r \in Requests :
    requested[r] # NoAttempt /\ r \notin pending => resolution[r] # "none"

\* After close no control is left behind and no attempt is left running, save
\* one that a stop is just about to end.
CloseLeavesNothing ==
  closeAt = "closed" =>
    /\ \A k \in Attempts :
         Current(k) => Over(WorkerOf(k)) \/ (OwnerGone(k) /\ stopAt[k] # "idle")
    /\ \A w \in Workers : live[w] = 0
    /\ pending = {}

\* The end of an attempt, or of all by a close, forgets no request and leaves no
\* worker behind, in whatever order the two and the answers come.
NothingIsLeft == EveryRequestIsResolved /\ CloseLeavesNothing

\* A result accepted before any stop is not dropped when the attempt ends.
AcceptedResultSurvives ==
  [][\A k \in Attempts :
       LET w == WorkerOf(k) IN
       run[k].preceded /\ Current(k) /\ ~ Over(w) /\ row'[w].state \in Terminal
       => row'[w].result # NoResult]_vars

(***************************************************************************)
(* Liveness, under FairSpec.                                               *)
(***************************************************************************)

\* A stop returns, with its attempt ended, whatever the SDK does: interrupt and
\* disconnect may hang and the owner may be anywhere.
StopReturns ==
  \A k \in Attempts :
    k \in stopReq ~>
      stopAt[k] = "idle" /\ (~ Current(k) \/ Over(WorkerOf(k)))

\* An accepted result ends its attempt.
ResultEndsAttempt ==
  \A k \in Attempts :
    phase[k] = "pending" ~> (~ Current(k) \/ Over(WorkerOf(k)))

\* A close ends, whatever the workers and the SDK do.
CloseEnds == closeAt = "stopping" ~> closeAt = "closed"

\* Whoever stops one worker or all of them gets an answer: the operation that
\* concurrent stops and a close share ends for each of them (stop, close).
StopsEnd == StopReturns /\ CloseEnds

-----------------------------------------------------------------------------
(***************************************************************************)
(* The supervisor implements the contract of WorkerContract.               *)
(***************************************************************************)
Contract == INSTANCE WorkerContract
  WITH worker <- [w \in Workers |-> [attempt |-> row[w].attempt,
                                     state   |-> row[w].state,
                                     result  |-> row[w].result,
                                     session |-> row[w].session]]

\* What clients observe of a worker is a behaviour of the contract: results
\* appear with the terminal state, attempts end once, and so on.
ImplementsContract == Contract!Spec
=============================================================================
