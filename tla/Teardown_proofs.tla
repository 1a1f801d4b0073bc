-------------------------- MODULE Teardown_proofs ---------------------------
(***************************************************************************)
(* Proofs about Teardown: what counts as disconnected is gone, a teardown  *)
(* is complete, and steering calls stay with their attempt, for any number *)
(* of attempts and any messages.                                           *)
(***************************************************************************)
EXTENDS Teardown, FiniteSetTheorems, TLAPS

(***************************************************************************)
(* The process: attempt, transport, runner and stop operation.             *)
(***************************************************************************)
ProcessTypes ==
  /\ attempt \in 1 .. MaxAttempts /\ state \in States /\ live \in BOOLEAN
  /\ proc \in [1 .. MaxAttempts -> Procs] /\ payload \in BOOLEAN
  /\ inside \in {{}, {"runner"}, {"stop"}} /\ disconnected \in BOOLEAN
  /\ runner \in RunnerPlaces /\ held \in BOOLEAN /\ cancelling \in BOOLEAN
  /\ stop \in StopPlaces
  /\ known \in BOOLEAN /\ forced \in BOOLEAN
  /\ terminating \in BOOLEAN /\ refused \in BOOLEAN

\* Who holds the lock is where the call of the client is.
InsideIsPlaced ==
  /\ "runner" \in inside <=> runner = "inside"
  /\ "stop" \in inside <=> stop = "inside"

\* Before the owner's task has started there is nothing to tear down ...
NothingBeforeStart ==
  runner = "created" =>
    /\ ~ live /\ ~ known /\ stop \notin {"grace", "waiting", "inside"}
    /\ ~ disconnected /\ ~ terminating

\* ... and after a teardown no process is started: a runner that still
\* connects has a cancellation to receive first.
NoStartAfterTeardown ==
  disconnected \/ terminating => (runner = "connecting" => cancelling)

ProcessInv ==
  /\ ProcessTypes /\ InsideIsPlaced /\ NothingBeforeStart /\ NoStartAfterTeardown
  /\ DisconnectedMeansGone /\ TeardownLeavesNothing

core == <<attempts, transport, running, stopping>>

LEMMA ProcessInit == Init => ProcessInv
<1> SUFFICES ASSUME Init PROVE ProcessInv
  OBVIOUS
<1>1. ProcessTypes
  <2>1. attempt \in 1 .. MaxAttempts
    BY AttemptsAssumption DEF Init
  <2>2. proc \in [1 .. MaxAttempts -> Procs]
    BY DEF Init, Procs
  <2>3. /\ state \in States /\ live \in BOOLEAN /\ payload \in BOOLEAN
        /\ inside \in {{}, {"runner"}, {"stop"}} /\ disconnected \in BOOLEAN
        /\ runner \in RunnerPlaces /\ held \in BOOLEAN /\ cancelling \in BOOLEAN
    BY DEF Init, States, RunnerPlaces
  <2>4. /\ stop \in StopPlaces /\ known \in BOOLEAN /\ forced \in BOOLEAN
        /\ terminating \in BOOLEAN /\ refused \in BOOLEAN
    BY DEF Init, StopPlaces
  <2> QED BY <2>1, <2>2, <2>3, <2>4 DEF ProcessTypes
<1>2. InsideIsPlaced /\ NothingBeforeStart /\ NoStartAfterTeardown
  BY DEF Init, InsideIsPlaced, NothingBeforeStart, NoStartAfterTeardown
<1>3. DisconnectedMeansGone /\ TeardownLeavesNothing
  BY DEF Init, DisconnectedMeansGone, TeardownLeavesNothing
<1> QED BY <1>1, <1>2, <1>3 DEF ProcessInv

LEMMA ProcessStutters == ProcessInv /\ UNCHANGED core => ProcessInv'
BY DEF core, attempts, transport, running, stopping, ProcessInv, ProcessTypes,
       InsideIsPlaced, NothingBeforeStart, NoStartAfterTeardown,
       DisconnectedMeansGone, TeardownLeavesNothing, Gone, Proc

\* The steps of the runner that leave the transport and the stop alone.
LEMMA RunnerKeeps ==
  ASSUME ProcessInv,
         \/ OwnerStart \/ Initialized \/ Persist
         \/ \E result \in BOOLEAN : Leave(result)
  PROVE  ProcessInv'
<1> USE DEF ProcessInv, RunnerFrame, transport, running, stopping
<1>1. UNCHANGED <<attempt, proc, payload, inside, disconnected, stop, known, forced, terminating, refused>>
  BY DEF OwnerStart, Initialized, Persist, Leave
<1>2. ProcessTypes'
  <2>1. CASE OwnerStart
    BY <1>1, <2>1 DEF ProcessTypes, OwnerStart, RunnerMoves, RunnerPlaces
  <2>2. CASE Initialized
    BY <1>1, <2>2 DEF ProcessTypes, Initialized, RunnerMoves, RunnerPlaces, States
  <2>3. CASE Persist
    BY <1>1, <2>3 DEF ProcessTypes, Persist, RunnerMoves, RunnerPlaces, States
  <2>4. ASSUME NEW result \in BOOLEAN, Leave(result) PROVE ProcessTypes'
    BY <1>1, <2>4 DEF ProcessTypes, Leave, RunnerMoves, RunnerPlaces
  <2> QED BY <2>1, <2>2, <2>3, <2>4
<1>3. InsideIsPlaced'
  BY <1>1 DEF InsideIsPlaced, OwnerStart, Initialized, Persist, Leave, RunnerMoves
<1>4. NothingBeforeStart'
  BY <1>1 DEF NothingBeforeStart, OwnerStart, Initialized, Persist, Leave, RunnerMoves
<1>5. NoStartAfterTeardown'
  BY <1>1 DEF NoStartAfterTeardown, NothingBeforeStart, OwnerStart, Initialized, Persist,
              Leave, RunnerMoves
<1>6. DisconnectedMeansGone' /\ TeardownLeavesNothing'
  BY <1>1 DEF DisconnectedMeansGone, TeardownLeavesNothing, Gone, Proc
<1> QED BY <1>2, <1>3, <1>4, <1>5, <1>6

\* Connecting writes the payload and starts the process.
LEMMA ConnectKeeps == ASSUME ProcessInv, Connect PROVE ProcessInv'
<1>1. ~ disconnected /\ ~ terminating
  BY DEF Connect, ProcessInv, NoStartAfterTeardown
<1> QED
  BY <1>1 DEF Connect, ProcessInv, ProcessTypes, InsideIsPlaced, NothingBeforeStart,
     NoStartAfterTeardown, DisconnectedMeansGone, TeardownLeavesNothing, Gone, Proc,
     RunnerFrame, running, stopping, Procs

LEMMA ExitKeeps == ASSUME ProcessInv, ProcessExits PROVE ProcessInv'
BY DEF ProcessExits, ProcessInv, ProcessTypes, InsideIsPlaced, NothingBeforeStart,
   NoStartAfterTeardown, DisconnectedMeansGone, TeardownLeavesNothing, Gone, Proc,
   attempts, running, stopping, Procs

LEMMA AcquiresKeeps == ASSUME ProcessInv, RunnerAcquires PROVE ProcessInv'
BY DEF RunnerAcquires, Acquire, LockIsFree, Marked, RunnerMoves, ProcessInv, ProcessTypes,
   InsideIsPlaced, NothingBeforeStart, NoStartAfterTeardown, DisconnectedMeansGone,
   TeardownLeavesNothing, Gone, Proc, RunnerFrame, stopping, RunnerPlaces

\* How a runner's disconnect, or a cancellation of it, ends.
LEMMA BrokenIsNoStart ==
  ASSUME ProcessInv, NEW x \in {"runner", "stop"},
         Broken(x) \/ Returned(x)
  PROVE  /\ proc' \in [1 .. MaxAttempts -> Procs] /\ payload' \in BOOLEAN
         /\ inside = {x} /\ inside' = {} /\ disconnected' \in BOOLEAN
         /\ Gone /\ attempt' = attempt => Gone'
         /\ disconnected' /\ attempt' = attempt => Gone'
<1> USE DEF ProcessInv
<1>1. inside = {x} /\ inside' = {}
  BY DEF Broken, Returned, ProcessTypes
<1>2. CASE Returned(x)
  BY <1>1, <1>2 DEF Returned, Ended, ProcessTypes, Procs, Gone, Proc
<1>3. CASE Broken(x)
  <2>1. PICK process \in Procs, credentials \in BOOLEAN :
          /\ MayLeave(process, credentials)
          /\ proc' = [proc EXCEPT ![attempt] = process]
          /\ payload' = credentials /\ disconnected' = disconnected
    BY <1>3 DEF Broken
  <2>2. proc' \in [1 .. MaxAttempts -> Procs] /\ payload' \in BOOLEAN /\ disconnected' \in BOOLEAN
    BY <2>1 DEF ProcessTypes
  <2>3. Gone /\ attempt' = attempt => Gone'
    BY <2>1 DEF MayLeave, Ended, Gone, Proc, ProcessTypes, Procs
  <2> QED BY <1>1, <2>1, <2>2, <2>3 DEF DisconnectedMeansGone
<1> QED BY <1>2, <1>3

\* Who leaves the lock, or finds nothing to do, keeps what is gone gone.
LeavesTransport(x) ==
  /\ proc' \in [1 .. MaxAttempts -> Procs] /\ payload' \in BOOLEAN
  /\ inside' \in {{}, {"runner"}, {"stop"}} /\ disconnected' \in BOOLEAN
  /\ inside' = inside \ {x}
  /\ Gone /\ attempt' = attempt => Gone'
  /\ disconnected' /\ attempt' = attempt => Gone'

\* The state of the worker after the owner's last step.
LEMMA FinalizedTypes ==
  ASSUME ProcessTypes, Finalized \/ UNCHANGED <<state, live>>
  PROVE  state' \in States /\ live' \in BOOLEAN
BY DEF ProcessTypes, Finalized, States

\* The runner has left its disconnect.
LEMMA RunnerLeft ==
  ASSUME ProcessInv, runner \in {"waiting", "inside"}, LeavesTransport("runner"),
         runner' \in {"persisting", "done"}, RunnerFrame,
         held' \in BOOLEAN, cancelling' \in BOOLEAN,
         state' \in States, live' \in BOOLEAN
  PROVE  ProcessInv'
<1> USE DEF ProcessInv, RunnerFrame, stopping, LeavesTransport
<1>1. ProcessTypes'
  BY DEF ProcessTypes, RunnerPlaces
<1>2. InsideIsPlaced' /\ NothingBeforeStart' /\ NoStartAfterTeardown'
  BY DEF InsideIsPlaced, NothingBeforeStart, NoStartAfterTeardown
<1>3. DisconnectedMeansGone' /\ TeardownLeavesNothing'
  BY DEF DisconnectedMeansGone, TeardownLeavesNothing
<1> QED BY <1>1, <1>2, <1>3

LEMMA RunnerDisconnectedKeeps ==
  ASSUME ProcessInv, RunnerDisconnected PROVE ProcessInv'
<1>1. LeavesTransport("runner") /\ runner \in {"waiting", "inside"}
  <2>1. CASE runner = "waiting" /\ Skip
    BY <2>1 DEF Skip, LeavesTransport, transport, ProcessInv, ProcessTypes,
       InsideIsPlaced, DisconnectedMeansGone, Gone, Proc
  <2>2. CASE runner = "inside" /\ (Returned("runner") \/ Broken("runner"))
    BY <2>2, BrokenIsNoStart DEF LeavesTransport
  <2> QED BY <2>1, <2>2 DEF RunnerDisconnected
<1>2. /\ runner' \in {"persisting", "done"} /\ RunnerFrame
      /\ held' \in BOOLEAN /\ cancelling' \in BOOLEAN
      /\ Finalized \/ UNCHANGED <<state, live>>
  BY DEF RunnerDisconnected, RunnerEnds, RunnerMoves, ProcessInv, ProcessTypes
<1> QED BY <1>1, <1>2, FinalizedTypes, RunnerLeft DEF ProcessInv

LEMMA CancelledKeeps == ASSUME ProcessInv, Cancelled PROVE ProcessInv'
<1> USE DEF ProcessInv
<1>0. cancelling' = FALSE /\ held' = FALSE /\ RunnerFrame
  BY DEF Cancelled
<1>1. CASE /\ runner \in {"created", "connecting", "using"}
           /\ runner' \in {"done", "waiting"}
           /\ UNCHANGED <<state, live, transport>>
  <2> USE <1>0, <1>1 DEF RunnerFrame, stopping, transport
  <2>1. ProcessTypes'
    BY DEF ProcessTypes, RunnerPlaces
  <2>2. InsideIsPlaced' /\ NothingBeforeStart' /\ NoStartAfterTeardown'
    BY DEF InsideIsPlaced, NothingBeforeStart, NoStartAfterTeardown
  <2>3. DisconnectedMeansGone' /\ TeardownLeavesNothing'
    BY DEF DisconnectedMeansGone, TeardownLeavesNothing, Gone, Proc
  <2> QED BY <2>1, <2>2, <2>3
<1>2. CASE /\ runner \in {"waiting", "inside"} /\ runner' = "done"
           /\ Finalized \/ UNCHANGED <<state, live>>
           /\ \/ runner = "waiting" /\ UNCHANGED transport
              \/ runner = "inside" /\ Broken("runner")
  <2>1. LeavesTransport("runner")
    <3>1. CASE runner = "waiting" /\ UNCHANGED transport
      BY <3>1 DEF LeavesTransport, transport, ProcessTypes,
         InsideIsPlaced, DisconnectedMeansGone, Gone, Proc
    <3>2. CASE runner = "inside" /\ Broken("runner")
      BY <3>2, BrokenIsNoStart DEF LeavesTransport
    <3> QED BY <1>2, <3>1, <3>2
  <2> QED BY <1>0, <1>2, <2>1, FinalizedTypes, RunnerLeft
<1> QED BY <1>1, <1>2 DEF Cancelled, RunnerMoves

(***************************************************************************)
(* The stop operation.                                                     *)
(***************************************************************************)

\* The stop's steps that do not touch the transport.
LEMMA StopWaitsKeeps ==
  ASSUME ProcessInv,
         StopBegin \/ StopYield \/ StopGrace \/ StopCancelsAgain \/ StopJoins \/ StopFinal
  PROVE  ProcessInv'
<1> USE DEF ProcessInv, StopFrame, attempts, transport, running
<1>1. UNCHANGED <<attempt, proc, payload, inside, disconnected, runner, held, known,
                  forced, terminating, refused>>
  BY DEF StopBegin, StopYield, StopGrace, StopCancelsAgain, StopJoins, StopFinal
<1>2. /\ state' \in States /\ live' \in {live, FALSE}
  BY DEF ProcessTypes, StopBegin, StopYield, StopGrace, StopCancelsAgain, StopJoins,
         StopFinal, States
<1>3. cancelling' \in {cancelling, TRUE}
  BY DEF ProcessTypes, StopBegin, StopYield, StopGrace, StopCancelsAgain, StopJoins,
         StopFinal, Choose, JoinOrCancel, CancelOwner, CancelAgain
<1>4. /\ stop' \in StopPlaces \ {"inside"} /\ stop # "inside"
      /\ stop' \in {"grace", "waiting"} => stop = "grace" \/ known \/ live
  BY DEF ProcessTypes, StopBegin, StopYield, StopGrace, StopCancelsAgain, StopJoins,
         StopFinal, Choose, JoinOrCancel, StopMoves, StopPlaces
<1>5. ProcessTypes'
  <2>1. stop' \in StopPlaces
    BY <1>4
  <2> QED BY <1>1, <1>2, <1>3, <2>1 DEF ProcessTypes
<1>6. InsideIsPlaced' /\ NothingBeforeStart' /\ NoStartAfterTeardown'
  <2>1. InsideIsPlaced'
    BY <1>1, <1>4 DEF InsideIsPlaced
  <2>2. NothingBeforeStart'
    BY <1>1, <1>2, <1>4 DEF NothingBeforeStart, ProcessTypes
  <2>3. NoStartAfterTeardown'
    BY <1>1, <1>3 DEF NoStartAfterTeardown, ProcessTypes
  <2> QED BY <2>1, <2>2, <2>3
<1>7. DisconnectedMeansGone' /\ TeardownLeavesNothing'
  BY <1>1 DEF DisconnectedMeansGone, TeardownLeavesNothing, Gone, Proc
<1> QED BY <1>5, <1>6, <1>7

LEMMA RequestKeeps ==
  ASSUME ProcessInv, NEW force \in BOOLEAN, RequestStop(force) PROVE ProcessInv'
<1> USE DEF ProcessInv, RequestStop, attempts, transport, running
<1>1. ProcessTypes'
  BY DEF ProcessTypes, StopMoves, StopPlaces
<1>2. InsideIsPlaced' /\ NothingBeforeStart' /\ NoStartAfterTeardown'
  BY DEF InsideIsPlaced, NothingBeforeStart, NoStartAfterTeardown, StopMoves
<1>3. DisconnectedMeansGone' /\ TeardownLeavesNothing'
  BY DEF DisconnectedMeansGone, TeardownLeavesNothing, Gone, Proc
<1> QED BY <1>1, <1>2, <1>3

LEMMA StopAcquiresKeeps == ASSUME ProcessInv, StopAcquires PROVE ProcessInv'
BY DEF StopAcquires, Acquire, LockIsFree, Marked, StopMoves, ProcessInv, ProcessTypes,
   InsideIsPlaced, NothingBeforeStart, NoStartAfterTeardown, DisconnectedMeansGone,
   TeardownLeavesNothing, Gone, Proc, StopFrame, attempts, running, StopPlaces

\* The stop has torn down the transport and turns to the owner.
LEMMA TornDownKeeps ==
  ASSUME ProcessInv, NEW from \in {"waiting", "inside"}, TornDown(from),
         LeavesTransport("stop"), refused' \in BOOLEAN, Gone' \/ refused'
  PROVE  ProcessInv'
<1> USE DEF ProcessInv, TornDown, StopFrame, attempts, LeavesTransport
<1>1. /\ stop = from /\ stop' \in StopPlaces \ {"grace", "waiting", "inside"}
      /\ cancelling' \in BOOLEAN
      /\ runner \notin {"persisting", "done"} => cancelling'
  BY DEF JoinOrCancel, StopMoves, CancelOwner, ProcessTypes, StopPlaces
<1>2. ProcessTypes'
  BY <1>1 DEF ProcessTypes
<1>3. InsideIsPlaced' /\ NothingBeforeStart' /\ NoStartAfterTeardown'
  BY <1>1 DEF InsideIsPlaced, NothingBeforeStart, NoStartAfterTeardown
<1>4. DisconnectedMeansGone' /\ TeardownLeavesNothing'
  BY DEF DisconnectedMeansGone, TeardownLeavesNothing
<1> QED BY <1>2, <1>3, <1>4

LEMMA StopDisconnectedKeeps == ASSUME ProcessInv, StopDisconnected PROVE ProcessInv'
<1>1. refused' \in BOOLEAN /\ attempt' = attempt
  BY DEF StopDisconnected, TornDown, StopFrame, attempts, ProcessInv, ProcessTypes
<1>2. CASE Skip /\ TornDown("waiting")
  <2>1. LeavesTransport("stop") /\ Gone'
    BY <1>1, <1>2 DEF Skip, TornDown, JoinOrCancel, StopMoves, LeavesTransport, transport,
       ProcessInv, ProcessTypes, InsideIsPlaced, DisconnectedMeansGone, Gone, Proc
  <2> QED BY <1>1, <1>2, <2>1, TornDownKeeps
<1>3. CASE Returned("stop") /\ TornDown("inside")
  <2>1. LeavesTransport("stop") /\ Gone'
    BY <1>1, <1>3, BrokenIsNoStart DEF Returned, LeavesTransport
  <2> QED BY <1>1, <1>3, <2>1, TornDownKeeps
<1> QED BY <1>2, <1>3 DEF StopDisconnected

LEMMA StopAbortsKeeps == ASSUME ProcessInv, StopAborts PROVE ProcessInv'
<1>0. stop \in {"waiting", "inside"} /\ Abort /\ TornDown(stop) /\ attempt' = attempt
  BY DEF StopAborts, TornDown, StopFrame, attempts
<1>1. PICK process \in Procs, credentials, killed, cleaned \in BOOLEAN :
        /\ MayLeave(process, credentials)
        /\ stop = "waiting" => process = Proc /\ credentials = payload
        /\ process # "running" => killed
        /\ ~ credentials => cleaned
        /\ proc' = [proc EXCEPT ![attempt] = IF killed THEN Ended(process) ELSE process]
        /\ payload' = (credentials /\ ~ cleaned)
        /\ inside' = inside \ {"stop"}
        /\ disconnected' = (disconnected \/ (Located /\ Marks(killed, cleaned)))
        /\ refused' = ~ (killed /\ cleaned)
  BY <1>0, Zenon DEF Abort
<1>2. /\ proc' \in [1 .. MaxAttempts -> Procs] /\ payload' \in BOOLEAN
      /\ refused' \in BOOLEAN /\ attempt \in 1 .. MaxAttempts
      /\ proc'[attempt] = IF killed THEN Ended(process) ELSE process
  BY <1>1 DEF ProcessInv, ProcessTypes, Ended, Procs
<1>3. Gone' \/ refused'
  BY <1>0, <1>1, <1>2 DEF Gone, Proc, Ended
<1>4. Gone => Gone'
  BY <1>0, <1>1, <1>2 DEF Gone, Proc, Ended, MayLeave
<1>5. disconnected' \in BOOLEAN /\ (disconnected' => Gone')
  <2>1. CASE killed /\ cleaned
    BY <1>1, <1>3, <2>1
  <2>2. CASE ~ (killed /\ cleaned)
    BY <1>1, <1>4, <2>2 DEF Marks, ProcessInv, ProcessTypes, DisconnectedMeansGone
  <2> QED BY <1>1, <2>1, <2>2
<1>6. LeavesTransport("stop")
  BY <1>0, <1>1, <1>2, <1>4, <1>5 DEF LeavesTransport, ProcessInv, ProcessTypes
<1> QED BY <1>0, <1>2, <1>3, <1>6, TornDownKeeps

LEMMA ResumeKeeps == ASSUME ProcessInv, Resume PROVE ProcessInv'
<1> USE DEF ProcessInv, Resume
<1>1. attempt' \in 1 .. MaxAttempts
  BY AttemptsAssumption DEF ProcessTypes
<1>2. ProcessTypes'
  BY <1>1 DEF ProcessTypes, States, RunnerPlaces
<1>3. InsideIsPlaced' /\ NothingBeforeStart' /\ NoStartAfterTeardown'
  BY DEF InsideIsPlaced, NothingBeforeStart, NoStartAfterTeardown
<1>4. DisconnectedMeansGone' /\ TeardownLeavesNothing'
  BY DEF DisconnectedMeansGone, TeardownLeavesNothing
<1> QED BY <1>2, <1>3, <1>4

\* The actions of the owner, of the stop and of the process are one half of
\* Next, those of the calls to steer and cancel_message the other.
ProcessNext ==
  \/ OwnerStart \/ Connect \/ Initialized \/ ProcessExits
  \/ \E result \in BOOLEAN : Leave(result)
  \/ RunnerAcquires \/ RunnerDisconnected \/ Persist \/ Cancelled
  \/ \E force \in BOOLEAN : RequestStop(force)
  \/ StopNext \/ Resume

SteerNext ==
  \E m \in Messages :
    \/ Steer(m) \/ SteerQueued(m) \/ SteerSent(m) \/ SteerDelivered(m)
    \/ CancelMessage(m) \/ CancelReturns(m) \/ CancelNoted(m)

LEMMA NextSplits == Next <=> ProcessNext \/ SteerNext
BY DEF Next, ProcessNext, SteerNext

LEMMA SteerLeavesProcess == SteerNext => UNCHANGED core
BY DEF SteerNext, Steer, SteerQueued, SteerSent, SteerDelivered, CancelMessage,
   CancelReturns, CancelNoted, SteerFrame, RevokeFrame, core

LEMMA ProcessStep == ProcessInv /\ [Next]_vars => ProcessInv'
<1> SUFFICES ASSUME ProcessInv, [Next]_vars PROVE ProcessInv'
  OBVIOUS
<1>1. CASE ProcessNext
  <2>1. CASE StopNext
    BY <2>1, StopWaitsKeeps, StopAcquiresKeeps, StopDisconnectedKeeps, StopAbortsKeeps
       DEF StopNext
  <2> QED
    BY <1>1, <2>1, RunnerKeeps, ConnectKeeps, ExitKeeps, AcquiresKeeps,
       RunnerDisconnectedKeeps, CancelledKeeps, RequestKeeps, ResumeKeeps DEF ProcessNext
<1>2. CASE SteerNext
  BY <1>2, SteerLeavesProcess, ProcessStutters
<1>3. CASE UNCHANGED vars
  <2>1. UNCHANGED core
    BY <1>3 DEF vars, core
  <2> QED BY <2>1, ProcessStutters
<1> QED BY <1>1, <1>2, <1>3, NextSplits

(***************************************************************************)
(* Whatever order the runner's disconnect, the stop's disconnect, its      *)
(* deadline and its abort come in, and however they fail, a transport that *)
(* counts as disconnected has neither process nor credentials, and a stop  *)
(* that tore it down left none unless the system refused                   *)
(* (QoderSDKTransport.disconnect and abort, _disconnect_before).           *)
(***************************************************************************)
THEOREM TeardownStaysComplete == Spec => []TeardownIsComplete
<1>1. ProcessInv => TeardownIsComplete
  BY DEF ProcessInv, TeardownIsComplete
<1> QED BY <1>1, ProcessInit, ProcessStep, PTL DEF Spec

\* Only an Acquire adds to who is inside.
LEMMA OnlyOneEnters ==
  ASSUME ProcessInv, ProcessInv', [Next]_vars
  PROVE  /\ Cardinality(inside') <= 1
         /\ disconnected /\ attempt' = attempt => inside' \subseteq inside
<1>1. Cardinality(inside') <= 1
  <2>1. inside' \in {{}, {"runner"}, {"stop"}}
    BY DEF ProcessInv, ProcessTypes
  <2>2. Cardinality({}) = 0 /\ Cardinality({"runner"}) = 1 /\ Cardinality({"stop"}) = 1
    BY FS_EmptySet, FS_Singleton
  <2> QED BY <2>1, <2>2
<1>2. ASSUME disconnected, attempt' = attempt PROVE inside' \subseteq inside
  <2> USE <1>2
  <2>1. CASE UNCHANGED inside
    BY <2>1
  <2>2. ASSUME NEW x \in {"runner", "stop"}, Broken(x) \/ Returned(x)
        PROVE  inside' \subseteq inside
    BY <2>2 DEF Broken, Returned
  <2>3. CASE RunnerAcquires \/ StopAcquires
    BY <2>3 DEF RunnerAcquires, StopAcquires, Acquire
  <2>4. CASE RunnerDisconnected \/ Cancelled
    BY <2>1, <2>2, <2>4 DEF RunnerDisconnected, Cancelled, Skip, transport
  <2>5. CASE StopDisconnected
    BY <2>1, <2>2, <2>5 DEF StopDisconnected, Skip, transport
  <2>6. CASE StopAborts
    BY <2>6 DEF StopAborts, Abort
  <2>7. CASE Resume
    BY <2>7 DEF Resume
  <2>8. CASE StopBegin \/ StopYield \/ StopGrace \/ StopCancelsAgain \/ StopJoins \/ StopFinal
    BY <2>1, <2>8 DEF StopBegin, StopYield, StopGrace, StopCancelsAgain, StopJoins,
       StopFinal, transport
  <2>9. CASE OwnerStart \/ Connect \/ Initialized \/ ProcessExits \/ Persist
             \/ (\E result \in BOOLEAN : Leave(result))
             \/ (\E force \in BOOLEAN : RequestStop(force))
    BY <2>1, <2>9 DEF OwnerStart, Connect, Initialized, ProcessExits, Persist, Leave,
       RequestStop, transport
  <2>10. CASE SteerNext \/ UNCHANGED vars
    BY <2>1, <2>10, SteerLeavesProcess DEF core, transport, vars
  <2> QED BY <2>3, <2>4, <2>5, <2>6, <2>7, <2>8, <2>9, <2>10, NextSplits
          DEF ProcessNext, StopNext
<1> QED BY <1>1, <1>2

(***************************************************************************)
(* The client's disconnect is never entered twice at a time, nor again     *)
(* after one returned or an abort was complete (the lock and the flag of   *)
(* QoderSDKTransport).                                                     *)
(***************************************************************************)
THEOREM DisconnectsAreSingle == Spec => OneDisconnectAtATime
<1>1. ProcessInv /\ ProcessInv' /\ [Next]_vars =>
        [/\ Cardinality(inside') <= 1
         /\ disconnected /\ attempt' = attempt => inside' \subseteq inside]_vars
  BY OnlyOneEnters
<1> QED BY <1>1, ProcessInit, ProcessStep, PTL DEF Spec, OneDisconnectAtATime

(***************************************************************************)
(* The calls of steer and cancel_message.                                  *)
(***************************************************************************)
Events == [kind : {"queued", "delivered", "cancelled", "not_cancellable"},
           message : Messages, attempt : 1 .. MaxAttempts]

CallTypes ==
  /\ message \in [Messages -> MessagePlaces]
  /\ asked \in [Messages -> 0 .. MaxAttempts]
  /\ reached \in [Messages -> 0 .. MaxAttempts]
  /\ withdrawal \in [Messages -> CancelPlaces]
  /\ holder \in [Messages -> 0 .. MaxAttempts] /\ withdrawn \subseteq Messages
  /\ log \in Seq(Events)

\* An SDK is reached while its answer is being noted, and stays reached.
CallsAreOrdered ==
  \A m \in Messages :
    /\ message[m] \in {"none", "queueing", "sending", "failed"} => reached[m] = 0
    /\ message[m] \in {"noting", "accepted"} => reached[m] = asked[m]
    /\ message[m] # "none" => asked[m] # 0
    /\ withdrawal[m] # "none" => holder[m] # 0

\* What was taken back had been accepted, by the SDK that gave it back.
WithdrawnWasReached ==
  /\ \A m \in withdrawn : reached[m] = holder[m] /\ withdrawal[m] \in {"revoked", "answered"}
  /\ \A m \in Messages : withdrawal[m] = "revoked" => m \in withdrawn

\* The log agrees with where the calls are.
LogIsTrue ==
  /\ \A m \in Messages :
       /\ message[m] \in {"sending", "noting", "accepted"} => Noted("queued", m) # {}
       /\ message[m] = "accepted" => Noted("delivered", m) # {}
  /\ \A i \in DOMAIN log :
       LET m == log[i].message IN
       /\ log[i].kind = "delivered" =>
            message[m] = "accepted" /\ \E q \in Noted("queued", m) : q < i
       /\ log[i].kind = "cancelled" => m \in withdrawn

SteerInv == CallTypes /\ CallsAreOrdered /\ WithdrawnWasReached /\ LogIsTrue

LEMMA LoggedMessages == SteerInv => \A i \in DOMAIN log : log[i].message \in Messages
<1> SUFFICES ASSUME SteerInv, NEW i \in DOMAIN log PROVE log[i].message \in Messages
  OBVIOUS
<1>1. log \in Seq(Events)
  BY DEF SteerInv, CallTypes
<1>2. log[i] \in Events
  BY <1>1
<1> QED BY <1>2 DEF Events

LEMMA SteerInit == Init => SteerInv
<1> SUFFICES ASSUME Init PROVE SteerInv
  OBVIOUS
<1>1. 0 \in 0 .. MaxAttempts
  BY AttemptsAssumption
<1>2. CallTypes
  BY <1>1 DEF Init, CallTypes, MessagePlaces, CancelPlaces
<1>3. CallsAreOrdered /\ WithdrawnWasReached /\ LogIsTrue
  BY DEF Init, CallsAreOrdered, WithdrawnWasReached, LogIsTrue
<1> QED BY <1>2, <1>3 DEF SteerInv

\* Most steps leave the calls alone.
LEMMA SteerStutters == ASSUME SteerInv, UNCHANGED steering PROVE SteerInv'
BY DEF steering, revoking, SteerInv, CallTypes, CallsAreOrdered, WithdrawnWasReached,
       LogIsTrue, Noted

LEMMA ProcessLeavesSteering == ProcessNext => UNCHANGED steering
<1>1. StopNext => UNCHANGED steering
  BY DEF StopNext, StopBegin, StopYield, StopGrace, StopAcquires, StopDisconnected,
     StopAborts, StopCancelsAgain, StopJoins, StopFinal, TornDown, StopFrame
<1> QED
  BY <1>1 DEF ProcessNext, OwnerStart, Connect, Initialized, ProcessExits, Leave,
     RunnerAcquires, RunnerDisconnected, Persist, Cancelled, RequestStop, Resume, RunnerFrame

\* An event is added behind the others.
LEMMA NoteAppends ==
  ASSUME SteerInv, ProcessInv, NEW m \in Messages,
         NEW kind \in {"queued", "delivered", "cancelled", "not_cancellable"},
         Note(kind, m)
  PROVE  /\ log' \in Seq(Events) /\ Len(log) \in Nat
         /\ DOMAIN log' = 1 .. Len(log) + 1 /\ DOMAIN log = 1 .. Len(log)
         /\ \A i \in 1 .. Len(log) : log'[i] = log[i]
         /\ log'[Len(log) + 1].kind = kind /\ log'[Len(log) + 1].message = m
         /\ \A k, n : Noted(k, n) \subseteq Noted(k, n)'
         /\ Len(log) + 1 \in Noted(kind, m)'
<1>1. [kind |-> kind, message |-> m, attempt |-> attempt] \in Events
  BY DEF Events, ProcessInv, ProcessTypes
<1>2. /\ log' \in Seq(Events) /\ Len(log) \in Nat
      /\ DOMAIN log' = 1 .. Len(log) + 1 /\ DOMAIN log = 1 .. Len(log)
      /\ \A i \in 1 .. Len(log) : log'[i] = log[i]
      /\ log'[Len(log) + 1] = [kind |-> kind, message |-> m, attempt |-> attempt]
  BY <1>1 DEF Note, SteerInv, CallTypes
<1>3. \A k, n : Noted(k, n) \subseteq Noted(k, n)'
  BY <1>2 DEF Noted
<1>4. Len(log) + 1 \in Noted(kind, m)'
  BY <1>2 DEF Noted
<1> QED BY <1>2, <1>3, <1>4

LEMMA SteerKeeps ==
  ASSUME SteerInv, ProcessInv, NEW m \in Messages, Steer(m) PROVE SteerInv'
<1> USE DEF SteerInv, Steer, Call, SteerFrame, revoking
<1>1. attempt \in 0 .. MaxAttempts /\ attempt # 0
  BY DEF ProcessInv, ProcessTypes
<1>2. CallTypes'
  BY <1>1 DEF CallTypes, MessagePlaces
<1>3. CallsAreOrdered'
  BY <1>1 DEF CallTypes, CallsAreOrdered
<1>4. WithdrawnWasReached'
  BY DEF WithdrawnWasReached
<1>5. LogIsTrue'
  <2>1. \A k, n : Noted(k, n)' = Noted(k, n)
    BY DEF Noted
  <2>2. \A i \in DOMAIN log : log[i].message \in Messages
    BY LoggedMessages
  <2> QED BY <2>1, <2>2 DEF CallTypes, LogIsTrue
<1> QED BY <1>2, <1>3, <1>4, <1>5

LEMMA SteerSentKeeps ==
  ASSUME SteerInv, NEW m \in Messages, SteerSent(m) PROVE SteerInv'
<1> USE DEF SteerInv, SteerSent, Call, SteerFrame, revoking, Target, Undelivered
<1>1. CallTypes'
  BY DEF CallTypes, MessagePlaces
<1>2. CallsAreOrdered'
  BY DEF CallTypes, CallsAreOrdered
<1>3. WithdrawnWasReached'
  <2>1. m \notin withdrawn
    BY DEF CallTypes, CallsAreOrdered, WithdrawnWasReached
  <2> QED BY <2>1 DEF CallTypes, WithdrawnWasReached
<1>4. LogIsTrue'
  <2>1. \A k, n : Noted(k, n)' = Noted(k, n)
    BY DEF Noted
  <2>2. \A i \in DOMAIN log : log[i].message \in Messages
    BY LoggedMessages
  <2> QED BY <2>1, <2>2 DEF CallTypes, LogIsTrue
<1> QED BY <1>1, <1>2, <1>3, <1>4

LEMMA CancelMessageKeeps ==
  ASSUME SteerInv, ProcessInv, NEW m \in Messages, CancelMessage(m) PROVE SteerInv'
<1> USE DEF SteerInv, CancelMessage, Revoke, RevokeFrame
<1>1. attempt \in 0 .. MaxAttempts /\ attempt # 0
  BY DEF ProcessInv, ProcessTypes
<1>2. CallTypes'
  BY <1>1 DEF CallTypes, CancelPlaces
<1>3. CallsAreOrdered'
  BY <1>1 DEF CallTypes, CallsAreOrdered
<1>4. WithdrawnWasReached'
  BY DEF CallTypes, WithdrawnWasReached
<1>5. LogIsTrue'
  BY DEF LogIsTrue, Noted
<1> QED BY <1>2, <1>3, <1>4, <1>5

LEMMA CancelReturnsKeeps ==
  ASSUME SteerInv, NEW m \in Messages, CancelReturns(m) PROVE SteerInv'
<1> USE DEF SteerInv, CancelReturns, Revoke, RevokeFrame
<1>1. CallTypes'
  BY DEF CallTypes, CancelPlaces
<1>2. CallsAreOrdered'
  BY DEF CallTypes, CallsAreOrdered
<1>3. WithdrawnWasReached'
  BY DEF CallTypes, WithdrawnWasReached
<1>4. LogIsTrue'
  BY DEF LogIsTrue, Noted
<1> QED BY <1>1, <1>2, <1>3, <1>4

\* The steps that note an event.
LEMMA NotedKeeps ==
  ASSUME SteerInv, ProcessInv, NEW m \in Messages,
         SteerQueued(m) \/ SteerDelivered(m) \/ CancelNoted(m)
  PROVE  SteerInv'
<1> USE DEF SteerInv
<1>1. CASE SteerQueued(m)
  <2>1. /\ message[m] = "queueing" /\ message' = [message EXCEPT ![m] = "sending"]
        /\ Note("queued", m) /\ UNCHANGED <<asked, reached, withdrawal, holder, withdrawn>>
    BY <1>1 DEF SteerQueued, Call, SteerFrame, revoking
  <2>2. CallTypes'
    BY <2>1, NoteAppends DEF CallTypes, MessagePlaces
  <2>3. CallsAreOrdered' /\ WithdrawnWasReached'
    BY <2>1 DEF CallTypes, CallsAreOrdered, WithdrawnWasReached
  <2>4. LogIsTrue'
    <3>1. /\ \A i \in 1 .. Len(log) : log'[i] = log[i]
          /\ DOMAIN log' = 1 .. Len(log) + 1 /\ DOMAIN log = 1 .. Len(log)
          /\ Len(log) \in Nat /\ log'[Len(log) + 1].kind = "queued"
          /\ \A k, n : Noted(k, n) \subseteq Noted(k, n)'
          /\ Len(log) + 1 \in Noted("queued", m)'
      BY <2>1, NoteAppends
    <3>2. \A i \in DOMAIN log' : i \in DOMAIN log \/ i = Len(log) + 1
      BY <3>1
    <3>3. \A i \in DOMAIN log : log[i].message \in Messages
      BY LoggedMessages
    <3>4. \A n \in Messages :
            /\ message'[n] \in {"sending", "noting", "accepted"} => Noted("queued", n)' # {}
            /\ message'[n] = "accepted" => Noted("delivered", n)' # {}
      BY <2>1, <3>1 DEF LogIsTrue, CallTypes
    <3>5. ASSUME NEW i \in DOMAIN log, NEW n \in Messages, n = log[i].message
          PROVE  /\ log[i].kind = "delivered" =>
                      message'[n] = "accepted" /\ \E q \in Noted("queued", n)' : q < i
                 /\ log[i].kind = "cancelled" => n \in withdrawn
      BY <2>1, <3>1, <3>5 DEF LogIsTrue, CallTypes
    <3> QED BY <2>1, <3>1, <3>2, <3>3, <3>4, <3>5 DEF LogIsTrue
  <2> QED BY <2>2, <2>3, <2>4
<1>2. CASE SteerDelivered(m)
  <2>1. /\ message[m] = "noting" /\ message' = [message EXCEPT ![m] = "accepted"]
        /\ Note("delivered", m) /\ UNCHANGED <<asked, reached, withdrawal, holder, withdrawn>>
    BY <1>2 DEF SteerDelivered, Call, SteerFrame, revoking
  <2>2. CallTypes'
    BY <2>1, NoteAppends DEF CallTypes, MessagePlaces
  <2>3. CallsAreOrdered' /\ WithdrawnWasReached'
    BY <2>1 DEF CallTypes, CallsAreOrdered, WithdrawnWasReached
  <2>4. LogIsTrue'
    <3>1. /\ \A i \in 1 .. Len(log) : log'[i] = log[i]
          /\ DOMAIN log' = 1 .. Len(log) + 1 /\ DOMAIN log = 1 .. Len(log)
          /\ Len(log) \in Nat /\ log'[Len(log) + 1].kind = "delivered"
          /\ log'[Len(log) + 1].message = m
          /\ \A k, n : Noted(k, n) \subseteq Noted(k, n)'
          /\ Len(log) + 1 \in Noted("delivered", m)'
      BY <2>1, NoteAppends
    <3>2. \A i \in DOMAIN log' : i \in DOMAIN log \/ i = Len(log) + 1
      BY <3>1
    <3>3. \E q \in Noted("queued", m) : q < Len(log) + 1
      BY <2>1, <3>1 DEF LogIsTrue, Noted
    <3>4. \A i \in DOMAIN log : log[i].message \in Messages
      BY LoggedMessages
    <3>5. \A n \in Messages :
            /\ message'[n] \in {"sending", "noting", "accepted"} => Noted("queued", n)' # {}
            /\ message'[n] = "accepted" => Noted("delivered", n)' # {}
      BY <2>1, <3>1 DEF LogIsTrue, CallTypes
    <3>6. ASSUME NEW i \in DOMAIN log, NEW n \in Messages, n = log[i].message
          PROVE  /\ log[i].kind = "delivered" =>
                      message'[n] = "accepted" /\ \E q \in Noted("queued", n)' : q < i
                 /\ log[i].kind = "cancelled" => n \in withdrawn
      BY <2>1, <3>1, <3>6 DEF LogIsTrue, CallTypes
    <3>7. message'[m] = "accepted" /\ \E q \in Noted("queued", m)' : q < Len(log) + 1
      BY <2>1, <3>1, <3>3 DEF CallTypes
    <3> QED BY <2>1, <3>1, <3>2, <3>4, <3>5, <3>6, <3>7 DEF LogIsTrue
  <2> QED BY <2>2, <2>3, <2>4
<1>3. CASE CancelNoted(m)
  <2>1. PICK kind \in {"cancelled", "not_cancellable"} :
          /\ kind = "cancelled" => m \in withdrawn
          /\ withdrawal' = [withdrawal EXCEPT ![m] = "answered"]
          /\ withdrawal[m] # "none"
          /\ Note(kind, m) /\ UNCHANGED <<asked, reached, message, holder, withdrawn>>
    BY <1>3 DEF CancelNoted, Revoke, RevokeFrame, WithdrawnWasReached
  <2>2. CallTypes'
    BY <2>1, NoteAppends DEF CallTypes, CancelPlaces
  <2>3. CallsAreOrdered' /\ WithdrawnWasReached'
    BY <2>1 DEF CallTypes, CallsAreOrdered, WithdrawnWasReached
  <2>4. LogIsTrue'
    <3>1. /\ \A i \in 1 .. Len(log) : log'[i] = log[i]
          /\ DOMAIN log' = 1 .. Len(log) + 1 /\ DOMAIN log = 1 .. Len(log)
          /\ Len(log) \in Nat /\ log'[Len(log) + 1].kind = kind
          /\ log'[Len(log) + 1].message = m
          /\ \A k, n : Noted(k, n) \subseteq Noted(k, n)'
      BY <2>1, NoteAppends
    <3>2. \A i \in DOMAIN log' : i \in DOMAIN log \/ i = Len(log) + 1
      BY <3>1
    <3> QED BY <2>1, <3>1, <3>2 DEF LogIsTrue, CallTypes
  <2> QED BY <2>2, <2>3, <2>4
<1> QED BY <1>1, <1>2, <1>3

LEMMA SteerStep == SteerInv /\ ProcessInv /\ [Next]_vars => SteerInv'
<1> SUFFICES ASSUME SteerInv, ProcessInv, [Next]_vars PROVE SteerInv'
  OBVIOUS
<1>1. CASE ProcessNext
  BY <1>1, ProcessLeavesSteering, SteerStutters
<1>2. ASSUME NEW m \in Messages,
             \/ Steer(m) \/ SteerQueued(m) \/ SteerSent(m) \/ SteerDelivered(m)
             \/ CancelMessage(m) \/ CancelReturns(m) \/ CancelNoted(m)
      PROVE  SteerInv'
  BY <1>2, SteerKeeps, SteerSentKeeps, CancelMessageKeeps, CancelReturnsKeeps, NotedKeeps
<1>3. CASE UNCHANGED vars
  <2>1. UNCHANGED steering
    BY <1>3 DEF vars
  <2> QED BY <2>1, SteerStutters
<1> QED BY <1>1, <1>2, <1>3, NextSplits DEF SteerNext

LEMMA SteerInvIsTrue == SteerInv => SteeringIsTrue
<1> SUFFICES ASSUME SteerInv PROVE SteeringIsTrue
  OBVIOUS
<1> USE DEF SteerInv
<1>1. MessagesStayInAttempt
  BY DEF MessagesStayInAttempt, CallTypes, CallsAreOrdered, MessagePlaces
<1>2. ASSUME NEW m \in Messages PROVE
        /\ message[m] = "accepted" => Noted("delivered", m) # {}
        /\ \A d \in Noted("delivered", m) :
             reached[m] # 0 /\ \E q \in Noted("queued", m) : q < d
        /\ Noted("cancelled", m) # {} => m \in withdrawn /\ reached[m] = holder[m]
  <2>1. message[m] = "accepted" => Noted("delivered", m) # {}
    BY DEF LogIsTrue
  <2>2. ASSUME NEW d \in Noted("delivered", m)
        PROVE  reached[m] # 0 /\ \E q \in Noted("queued", m) : q < d
    <3>1. d \in DOMAIN log /\ log[d].kind = "delivered" /\ log[d].message = m
      BY DEF Noted
    <3>2. message[m] = "accepted" /\ \E q \in Noted("queued", m) : q < d
      BY <3>1 DEF LogIsTrue
    <3> QED BY <3>2 DEF CallsAreOrdered
  <2>3. ASSUME NEW c \in Noted("cancelled", m)
        PROVE  m \in withdrawn /\ reached[m] = holder[m]
    <3>1. c \in DOMAIN log /\ log[c].kind = "cancelled" /\ log[c].message = m
      BY DEF Noted
    <3>2. m \in withdrawn
      BY <3>1 DEF LogIsTrue
    <3> QED BY <3>2 DEF WithdrawnWasReached
  <2> QED BY <2>1, <2>2, <2>3
<1> QED BY <1>1, <1>2 DEF SteeringIsTrue, DeliveriesAreReal

(***************************************************************************)
(* However many attempts come and go while calls hold their transports, a  *)
(* message reaches the SDK it was sent to or none, and the log says of it  *)
(* what happened (steer, cancel_message).                                  *)
(***************************************************************************)
THEOREM SteeringStaysTrue == Spec => []SteeringIsTrue
<1>1. SteerInv => SteeringIsTrue
  BY SteerInvIsTrue
<1> QED BY <1>1, ProcessInit, ProcessStep, SteerInit, SteerStep, PTL DEF Spec

(***************************************************************************)
(* Every variable keeps its type.                                          *)
(***************************************************************************)
THEOREM TeardownTypes == Spec => []TypeOK
<1>1. ProcessInv /\ SteerInv => TypeOK
  BY DEF ProcessInv, ProcessTypes, SteerInv, CallTypes, Events, TypeOK
<1> QED BY <1>1, ProcessInit, ProcessStep, SteerInit, SteerStep, PTL DEF Spec
=============================================================================
