------------------------ MODULE SupervisorNominal_proofs ------------------------
(***************************************************************************)
(* What the supervisor promises when some incident does not happen, for    *)
(* every set of workers and requests and every bound on attempts.          *)
(*                                                                         *)
(* First part: unless the SDK cancels a callback that waits for an answer, *)
(* the supervisor implements WorkerContract, whatever stops, closes,       *)
(* refused results and crashes do.  The invariant Promise, on top of IInv, *)
(* says what the contract rests on: a waiting worker that is at work has a *)
(* request to expire, so that no result is recorded without its terminal   *)
(* state.                                                                  *)
(*                                                                         *)
(* Second part: when only stops and closes happen, no worker and no        *)
(* request is left behind and rows tell the truth.  The invariant Order    *)
(* relates stops, cancellations and the close to the owners.               *)
(*                                                                         *)
(* Third part, again unless a callback is cancelled: a stop that comes     *)
(* before the result of its attempt wins.  Doomed is what stays true of    *)
(* the attempt from then on.                                               *)
(***************************************************************************)
EXTENDS Supervisor_proofs

\* The attempt has an owner that runs it, or a result phase that will end it.
AtWork(k) == owner[k] \in Busy \/ phase[k] = "pending"

-----------------------------------------------------------------------------
(***************************************************************************)
(* What the contract rests on.                                             *)
(***************************************************************************)

\* A registered transport has the owner that will disconnect it.
RegisteredIsOwned ==
  \A k \in Attempts : Registered(k) => AtWork(k) /\ owner[k] # "created"

\* A worker that waits, and is at work, has a request that can be answered or
\* that the end of the attempt will expire.
WaitingHasRequests ==
  \A k \in Attempts :
    AtWork(k) /\ row[WorkerOf(k)].state = RequiresAction =>
      Registered(k) /\ PendingOf(k) # {}

\* A result, and the session it names, come with the terminal state.
ResultsAreFinal ==
  \A w \in Workers : /\ row[w].result # NoResult => Over(w)
                     /\ row[w].session => row[w].result # NoResult

\* An attempt that was never initialised had no turn: on its way out it holds
\* no result of Qoder.
StartersHadNoTurn ==
  \A k \in Attempts :
    Current(k) /\ row[WorkerOf(k)].state = Starting =>
      /\ owner[k] \notin {"running", "settling"}
      /\ owner[k] = "disconnecting" \/ phase[k] = "pending" =>
           run[k].kind \in {"adapter_failure", "cancelled"}

Promise ==
  /\ RegisteredIsOwned /\ WaitingHasRequests /\ ResultsAreFinal /\ StartersHadNoTurn
  /\ revoked = {}

\* The states an attempt can be in.
LEMMA StatesDiffer ==
  /\ Running \in States /\ RequiresAction \in States /\ Starting \in States
  /\ {Starting, Running, RequiresAction} \cap Terminal = {} /\ Terminal \subseteq States
  /\ Absent \notin States /\ Starting # Running /\ Running # RequiresAction
  /\ Starting # RequiresAction /\ "cancelled" \in Terminal /\ "lost" \in Terminal
BY DEF States, Running, RequiresAction, Starting, Terminal, Absent

\* The moves of the lifecycle that ends of attempts ask for.
LEMMA Moves ==
  /\ \A s \in {Starting, Running, RequiresAction} : CanMove(s, "cancelled")
  /\ \A s \in Terminal : CanMove(Running, s)
  /\ CanMove(Starting, "failed") /\ CanMove(RequiresAction, "lost")
  /\ ~ CanMove(Starting, "lost")
BY DEF CanMove, Transitions, States, Running, RequiresAction, Starting, Terminal, Resumable, Absent

\* A row that exists and is not over is in one of the working states.
LEMMA WorkingStates ==
  ASSUME IInv, NEW k \in Attempts, Current(k), ~ Over(WorkerOf(k))
  PROVE  row[WorkerOf(k)].state \in {Starting, Running, RequiresAction}
<1>1. /\ row[WorkerOf(k)] \in Row /\ NumberOf(k) # 0 /\ WorkerOf(k) \in Workers
  BY AttemptPair DEF IInv, TypeOK
<1>2. row[WorkerOf(k)].state # Absent
  BY <1>1 DEF IInv, Controls, RowsAreNumbered, Current
<1> QED BY <1>1, <1>2 DEF Row, States, Over

\* The row before the terminal state: only an expiry moves it, to running.
LEMMA CompletedOutcome ==
  ASSUME IInv, ResultsAreFinal, NEW k \in Attempts
  PROVE  LET c == Completed(k)  r == row[WorkerOf(k)] IN
         /\ c \in Row /\ c.attempt = r.attempt /\ c.result = r.result
         /\ c.session = r.session /\ c.health = r.health
         /\ c.state \in {r.state, Running}
         /\ c.state # r.state => r.state = RequiresAction /\ Expires(k)
         /\ Expires(k) => c.state = Running
         /\ ~ Current(k) \/ Over(WorkerOf(k)) => c = r
<1>1. row[WorkerOf(k)] \in Row
  BY AttemptPair DEF IInv, TypeOK
<1>2. /\ Completed(k) \in Row
      /\ Completed(k).attempt = row[WorkerOf(k)].attempt
      /\ Completed(k).result = row[WorkerOf(k)].result
      /\ ~ Current(k) \/ Over(WorkerOf(k)) => Completed(k) = row[WorkerOf(k)]
  BY CompletedRow DEF IInv, TypeOK
<1>3. CASE Expires(k)
  <2>1. Completed(k) = Move(row[WorkerOf(k)], Running) /\ row[WorkerOf(k)].state = RequiresAction
    BY <1>3 DEF Completed, Expires
  <2>2. Completed(k).session = row[WorkerOf(k)].session
        /\ Completed(k).health = row[WorkerOf(k)].health /\ Completed(k).state = Running
    BY <1>1, <2>1 DEF Move, Row
  <2> QED BY <1>2, <1>3, <2>1, <2>2
<1>4. CASE ~ Expires(k)
  BY <1>1, <1>2, <1>4 DEF Completed
<1> QED BY <1>3, <1>4

\* A finalisation ends the attempt without a result, or leaves the row (but for
\* its health) where it was: the transition it may be refused is the one from
\* starting to lost.
LEMMA FinalizedOutcome ==
  ASSUME IInv, ResultsAreFinal, NEW k \in Attempts, NEW missing \in {"cancelled", "lost"}
  PROVE  LET f == Finalized(k, missing)  r == row[WorkerOf(k)] IN
         /\ f \in Row /\ f.attempt = r.attempt /\ f.result = r.result
         /\ f.session = r.session
         /\ ~ MustFinalize(k) => f = r
         /\ MustFinalize(k) =>
              /\ f.health = "exited" /\ f.result = NoResult /\ ~ f.session
              /\ r.state \in {Starting, Running, RequiresAction}
              /\ \/ f.state = missing /\ ~ FinalizeRaises(k, missing)
                    /\ (r.state = Starting => missing = "cancelled")
                 \/ f.state = Starting /\ r.state = Starting /\ missing = "lost"
                    /\ FinalizeRaises(k, missing)
<1> DEFINE w == WorkerOf(k)  r == row[w]  c == Completed(k)  f == Finalized(k, missing)
           e == SetHealth(c, "exited")
<1>1. /\ w \in Workers /\ r \in Row /\ f \in Row /\ f.attempt = r.attempt
  BY AttemptPair, FinalizedRow DEF IInv, TypeOK
<1>2. /\ c \in Row /\ c.attempt = r.attempt /\ c.result = r.result
      /\ c.session = r.session /\ c.health = r.health
      /\ c.state \in {r.state, Running}
      /\ c.state # r.state => r.state = RequiresAction
      /\ ~ Current(k) \/ Over(w) => c = r
  BY CompletedOutcome
<1>3. e \in Row /\ e.state = c.state /\ e.result = c.result /\ e.session = c.session
      /\ e.health = "exited"
  BY <1>2 DEF SetHealth, Row, Health
<1>4. CASE ~ MustFinalize(k)
  <2>1. f = c
    BY <1>4 DEF Finalized
  <2> QED BY <1>1, <1>2, <1>4, <2>1 DEF MustFinalize
<1>5. CASE MustFinalize(k)
  <2>1. Current(k) /\ ~ Over(w) /\ r.result = NoResult /\ ~ r.session
    BY <1>1, <1>5 DEF MustFinalize, ResultsAreFinal
  <2>2. r.state \in {Starting, Running, RequiresAction}
    BY <2>1, WorkingStates
  <2>3. FinalTarget(k, missing) = missing
    BY <1>2, <2>1 DEF FinalTarget
  <2>4. f = IF CanMove(c.state, missing) THEN Move(e, missing) ELSE e
    BY <1>5, <2>3 DEF Finalized, FinalizeRaises
  <2>5. FinalizeRaises(k, missing) <=> ~ CanMove(c.state, missing)
    BY <1>5, <2>3 DEF FinalizeRaises
  <2>6. /\ Move(e, missing).state = missing /\ Move(e, missing).result = e.result
        /\ Move(e, missing).session = e.session /\ Move(e, missing).health = e.health
    BY <1>3 DEF Move, Row
  <2>7. CASE CanMove(c.state, missing)
    <3>1. r.state = Starting => missing = "cancelled"
      BY <1>2, <2>7, Moves, StatesDiffer
    <3> HIDE DEF r, c, f, e, w
    <3> QED BY <1>1, <1>2, <1>3, <1>5, <2>1, <2>2, <2>4, <2>5, <2>6, <2>7, <3>1 DEF r, f, w
  <2>8. CASE ~ CanMove(c.state, missing)
    <3>1. c.state \in {Starting, Running, RequiresAction}
      BY <1>2, <2>2
    <3>2. c.state = Starting /\ missing = "lost"
      BY <2>8, <3>1, Moves, StatesDiffer
    <3>3. r.state = Starting
      BY <1>2, <3>2, StatesDiffer
    <3> HIDE DEF r, c, f, e, w
    <3> QED BY <1>1, <1>2, <1>3, <1>5, <2>1, <2>2, <2>4, <2>5, <2>8, <3>2, <3>3 DEF r, f, w
  <2> QED BY <2>7, <2>8
<1> QED BY <1>4, <1>5

-----------------------------------------------------------------------------
(***************************************************************************)
(* Kinds of steps, and what each leaves of the promise.                    *)
(***************************************************************************)

\* The tasks of k alone move, and rows and controls stay: k remains at work, or
\* was not at work, or had not registered anything.
LEMMA TaskMovesKeepPromise ==
  ASSUME IInv, Promise, NEW k \in Attempts,
         UNCHANGED <<row, requested, live, pending, revoked>>,
         \A j \in Attempts : j # k =>
           owner'[j] = owner[j] /\ phase'[j] = phase[j] /\ run'[j].kind = run[j].kind,
         AtWork(k)' => AtWork(k),
         \/ AtWork(k)' /\ owner'[k] # "created"
         \/ ~ AtWork(k)
         \/ owner[k] = "created",
         row[WorkerOf(k)].state = Starting /\ AtWork(k)' =>
           /\ owner'[k] \notin {"running", "settling"}
           /\ owner'[k] = "disconnecting" \/ phase'[k] = "pending" =>
                run'[k].kind \in {"adapter_failure", "cancelled"}
  PROVE  Promise'
<1>1. RegisteredIsOwned'
  BY DEF Promise, RegisteredIsOwned, Registered, AtWork
<1>2. WaitingHasRequests'
  BY DEF Promise, WaitingHasRequests, Registered, PendingOf, AtWork
<1>3. StartersHadNoTurn'
  BY DEF Promise, StartersHadNoTurn, Current, AtWork, Busy
<1> QED BY <1>1, <1>2, <1>3 DEF Promise, ResultsAreFinal, Over

\* Attempt k ends, or a finished one is finalised, and leaves the row x.
LEMMA EndKeepsPromise ==
  ASSUME IInv, Promise, NEW k \in Attempts, NEW x,
         CompleteLiveAttempt(k), UNCHANGED requested,
         row' = [row EXCEPT ![WorkerOf(k)] = x],
         x.attempt = row[WorkerOf(k)].attempt,
         ~ Current(k) => x = row[WorkerOf(k)],
         x.state = Starting => row[WorkerOf(k)].state = Starting,
         x.result # NoResult => x.state \in Terminal,
         x.session => x.result # NoResult,
         \A j \in Attempts : j # k =>
           owner'[j] = owner[j] /\ phase'[j] = phase[j] /\ run'[j].kind = run[j].kind,
         ~ AtWork(k)'
  PROVE  Promise'
<1> DEFINE w == WorkerOf(k)
<1>1. /\ w \in Workers /\ row'[w] = x
      /\ \A v \in Workers : v # w => row'[v] = row[v] /\ live'[v] = live[v]
      /\ \A v \in Workers : row'[v].attempt = row[v].attempt
      /\ live'[w] = IF Registered(k) THEN 0 ELSE live[w]
      /\ pending' = pending \ Gone(k) /\ revoked' = {}
  BY AttemptPair DEF IInv, TypeOK, CompleteLiveAttempt, Promise
<1>2. \A j \in Attempts : j # k =>
        /\ AtWork(j)' = AtWork(j)
        /\ PendingOf(j)' = PendingOf(j)
        /\ AtWork(j) /\ WorkerOf(j) = w => row'[w] = row[w] /\ ~ Current(k)
  <2> SUFFICES ASSUME NEW j \in Attempts, j # k
               PROVE  /\ AtWork(j)' = AtWork(j)
                      /\ PendingOf(j)' = PendingOf(j)
                      /\ AtWork(j) /\ WorkerOf(j) = w => row'[w] = row[w] /\ ~ Current(k)
    OBVIOUS
  <2>1. AtWork(j)' = AtWork(j)
    BY DEF AtWork
  <2>2. PendingOf(j)' = PendingOf(j)
    BY <1>1 DEF PendingOf, Gone
  <2>3. AtWork(j) /\ WorkerOf(j) = w => ~ Current(k)
    BY OneActive, AttemptPair DEF IInv, AtWork, Current
  <2> QED BY <1>1, <2>1, <2>2, <2>3
<1> HIDE DEF w
<1>3. RegisteredIsOwned'
  <2> SUFFICES ASSUME NEW j \in Attempts, Registered(j)'
               PROVE  AtWork(j)' /\ owner'[j] # "created"
    BY DEF RegisteredIsOwned
  <2>1. j # k /\ Registered(j)
    <3>1. NumberOf(j) # 0 /\ WorkerOf(j) \in Workers
      BY AttemptPair
    <3>2. CASE WorkerOf(j) = w
      BY <1>1, <3>1, <3>2, AttemptPair DEF Registered, w
    <3>3. CASE WorkerOf(j) # w
      BY <1>1, <3>1, <3>3 DEF Registered, w
    <3> QED BY <3>2, <3>3
  <2> QED BY <1>2, <2>1 DEF Promise, RegisteredIsOwned
<1>4. WaitingHasRequests'
  <2> SUFFICES ASSUME NEW j \in Attempts, AtWork(j)', row'[WorkerOf(j)].state = RequiresAction
               PROVE  Registered(j)' /\ PendingOf(j)' # {}
    BY DEF WaitingHasRequests
  <2>1. j # k /\ AtWork(j)
    BY <1>2
  <2>2. row'[WorkerOf(j)] = row[WorkerOf(j)]
    BY <1>1, <1>2, <2>1, AttemptPair
  <2>3. Registered(j) /\ PendingOf(j) # {}
    BY <2>1, <2>2 DEF Promise, WaitingHasRequests
  <2>4. live'[WorkerOf(j)] = live[WorkerOf(j)]
    BY <1>1, <2>1, <2>3, AttemptPair DEF Registered, w
  <2> QED BY <1>2, <2>1, <2>3, <2>4 DEF Registered
<1>5. ResultsAreFinal'
  BY <1>1 DEF Promise, ResultsAreFinal, Over
<1>6. StartersHadNoTurn'
  <2> SUFFICES ASSUME NEW j \in Attempts, Current(j)', row'[WorkerOf(j)].state = Starting
               PROVE  /\ owner'[j] \notin {"running", "settling"}
                      /\ owner'[j] = "disconnecting" \/ phase'[j] = "pending" =>
                           run'[j].kind \in {"adapter_failure", "cancelled"}
    BY DEF StartersHadNoTurn
  <2>1. Current(j) /\ row[WorkerOf(j)].state = Starting
    BY <1>1, AttemptPair DEF Current, w
  <2>2. CASE j = k
    BY <2>2 DEF AtWork, Busy
  <2>3. CASE j # k
    BY <2>1, <2>3 DEF Promise, StartersHadNoTurn
  <2> QED BY <2>2, <2>3
<1> QED BY <1>1, <1>3, <1>4, <1>5, <1>6 DEF Promise

\* The finalisation of k, whose tasks are no longer at work.
LEMMA FinalizationKeepsPromise ==
  ASSUME IInv, Promise, NEW k \in Attempts, NEW missing \in {"cancelled", "lost"},
         FinalizeWithoutResult(k, missing), UNCHANGED requested,
         \A j \in Attempts : j # k =>
           owner'[j] = owner[j] /\ phase'[j] = phase[j] /\ run'[j].kind = run[j].kind,
         ~ AtWork(k)'
  PROVE  Promise'
<1> DEFINE f == Finalized(k, missing)  r == row[WorkerOf(k)]
<1>1. /\ f.attempt = r.attempt /\ f.result = r.result /\ f.session = r.session
      /\ ~ MustFinalize(k) => f = r
      /\ MustFinalize(k) => /\ f.result = NoResult /\ ~ f.session
                            /\ f.state = Starting => r.state = Starting
  BY FinalizedOutcome, StatesDiffer DEF Promise
<1>2. r.result # NoResult => r.state \in Terminal
  BY AttemptPair DEF Promise, ResultsAreFinal, Over
<1>3. r.session => r.result # NoResult
  BY AttemptPair DEF Promise, ResultsAreFinal
<1>4. ~ Current(k) => f = r
  BY <1>1 DEF MustFinalize
<1>5. CompleteLiveAttempt(k) /\ row' = [row EXCEPT ![WorkerOf(k)] = f]
  BY DEF FinalizeWithoutResult
<1> HIDE DEF f
<1> QED BY <1>1, <1>2, <1>3, <1>4, <1>5, EndKeepsPromise

\* The runner of k ended with h.
LEMMA AfterRunKeepsPromise ==
  ASSUME IInv, Promise, NEW k \in Attempts, owner[k] \in Busy, NEW h \in Run,
         AfterRun(k, h), RunFrame,
         row[WorkerOf(k)].state = Starting => h.kind \in {"adapter_failure", "cancelled"}
  PROVE  Promise'
<1>0. phase[k] # "pending"
  BY OneActive DEF IInv
<1>1. CASE h.kind \in Results
  <2>1. /\ owner' = [owner EXCEPT ![k] = "persisting"]
        /\ phase' = [phase EXCEPT ![k] = "pending"]
        /\ run' = [run EXCEPT ![k] = h]
        /\ UNCHANGED <<row, requested, live, pending, revoked>>
    BY <1>1 DEF AfterRun, RunFrame
  <2>2. /\ owner'[k] = "persisting" /\ phase'[k] = "pending" /\ run'[k] = h
        /\ \A j \in Attempts : j # k =>
             owner'[j] = owner[j] /\ phase'[j] = phase[j] /\ run'[j] = run[j]
    BY <2>1 DEF IInv, TypeOK
  <2> QED BY <2>1, <2>2, TaskMovesKeepPromise DEF AtWork
<1>2. CASE h.kind \notin Results
  <2>1. /\ owner' = [owner EXCEPT ![k] = "done"]
        /\ run' = [run EXCEPT ![k] = NoRun]
        /\ FinalizeWithoutResult(k, MissingState(k))
        /\ UNCHANGED <<phase, requested>>
    BY <1>2 DEF AfterRun, OwnerEnds, RunFrame
  <2>2. /\ owner'[k] = "done"
        /\ \A j \in Attempts : j # k => owner'[j] = owner[j] /\ run'[j] = run[j]
    BY <2>1 DEF IInv, TypeOK
  <2>3. ~ AtWork(k)'
    BY <1>0, <2>1, <2>2 DEF AtWork, Busy
  <2>4. MissingState(k) \in {"cancelled", "lost"}
    BY DEF MissingState
  <2> QED BY <2>1, <2>2, <2>3, <2>4, FinalizationKeepsPromise
<1> QED BY <1>1, <1>2

\* The runner leaves its try block holding h.
LEMMA EnterDisconnectKeepsPromise ==
  ASSUME IInv, Promise, NEW k \in Attempts, owner[k] \in Busy \ {"created"}, NEW h \in Run,
         EnterDisconnect(k, h), RunFrame,
         row[WorkerOf(k)].state = Starting => h.kind \in {"adapter_failure", "cancelled"}
  PROVE  Promise'
<1>1. CASE h.disconnected
  BY <1>1, AfterRunKeepsPromise DEF EnterDisconnect
<1>2. CASE ~ h.disconnected
  <2>1. /\ owner' = [owner EXCEPT ![k] = "disconnecting"]
        /\ run' = [run EXCEPT ![k] = h]
        /\ UNCHANGED <<row, requested, live, pending, revoked, phase>>
    BY <1>2 DEF EnterDisconnect, RunFrame
  <2>2. /\ owner'[k] = "disconnecting" /\ run'[k] = h
        /\ \A j \in Attempts : j # k => owner'[j] = owner[j] /\ run'[j] = run[j]
    BY <2>1 DEF IInv, TypeOK
  <2>3. phase[k] # "pending"
    BY OneActive DEF IInv
  <2> QED BY <2>1, <2>2, <2>3, TaskMovesKeepPromise DEF AtWork, Busy
<1> QED BY <1>1, <1>2

\* Rows, tasks and controls stay.
LEMMA NothingKeepsPromise ==
  ASSUME Promise,
         UNCHANGED <<row, requested, owner, phase, live, pending, revoked>>,
         \A j \in Attempts : run'[j].kind = run[j].kind
  PROVE  Promise'
BY DEF Promise, RegisteredIsOwned, WaitingHasRequests, ResultsAreFinal, StartersHadNoTurn,
   Registered, PendingOf, AtWork, Current, Over

-----------------------------------------------------------------------------
(***************************************************************************)
(* The promise is kept by every step but a callback's cancellation.        *)
(***************************************************************************)

\* Steps of the runner: results, failures, ends of the stream and disconnects.
LEMMA RunnerStepsKeepPromise ==
  ASSUME IInv, Promise, NEW k \in Attempts,
         \/ OwnerFactoryFails(k) \/ OwnerAdapterFails(k)
         \/ \E result \in SdkResult, nested \in BOOLEAN : OwnerResult(k, result, nested)
         \/ \E kind \in {"missing", "eof"} : OwnerStreamEnds(k, kind)
         \/ OwnerSettled(k) \/ OwnerDisconnected(k) \/ OwnerDisconnectFails(k)
  PROVE  Promise'
<1>0. run \in [Attempts -> Run] /\ run[k] \in Run
  BY DEF IInv, TypeOK
<1>a. owner[k] \in Busy => Current(k)
  BY OneActive DEF IInv
<1>b. owner[k] \in {"running", "settling"} => row[WorkerOf(k)].state # Starting
  BY <1>a DEF Promise, StartersHadNoTurn, Busy
<1>c. owner[k] = "disconnecting" /\ row[WorkerOf(k)].state = Starting =>
        run[k].kind \in {"adapter_failure", "cancelled"}
  BY <1>a DEF Promise, StartersHadNoTurn, Busy
<1>d. Holding(k, "adapter_failure").kind = "adapter_failure"
  BY <1>0 DEF Holding, Run
<1>1. CASE OwnerFactoryFails(k)
  BY <1>0, <1>1, <1>d, AfterRunKeepsPromise, RunOperators DEF OwnerFactoryFails, OwnerAt, Busy
<1>2. CASE OwnerAdapterFails(k)
  BY <1>0, <1>2, <1>d, EnterDisconnectKeepsPromise, RunOperators DEF OwnerAdapterFails, OwnerAt, Busy
<1>3. ASSUME NEW result \in SdkResult, NEW nested \in BOOLEAN, OwnerResult(k, result, nested)
      PROVE  Promise'
  <2>1. /\ owner[k] = "running" /\ RunFrame /\ HoldingResult(k, result) \in Run
        /\ row[WorkerOf(k)].state # Starting /\ phase[k] # "pending"
    BY <1>0, <1>3, <1>b, RunOperators, OneActive DEF OwnerResult, OwnerAt, IInv, Busy
  <2>2. CASE nested
    <3>1. /\ owner' = [owner EXCEPT ![k] = "settling"]
          /\ run' = [run EXCEPT ![k] = HoldingResult(k, result)]
          /\ UNCHANGED <<row, requested, live, pending, revoked, phase>>
      BY <1>3, <2>1, <2>2 DEF OwnerResult, RunFrame
    <3>2. /\ owner'[k] = "settling"
          /\ \A j \in Attempts : j # k => owner'[j] = owner[j] /\ run'[j] = run[j]
      BY <3>1 DEF IInv, TypeOK
    <3> QED BY <2>1, <3>1, <3>2, TaskMovesKeepPromise DEF AtWork, Busy
  <2>3. CASE ~ nested
    BY <1>3, <2>1, <2>3, EnterDisconnectKeepsPromise DEF OwnerResult, Busy
  <2> QED BY <2>2, <2>3
<1>4. ASSUME NEW kind \in {"missing", "eof"}, OwnerStreamEnds(k, kind)
      PROVE  Promise'
  BY <1>0, <1>4, <1>b, EnterDisconnectKeepsPromise, RunOperators DEF OwnerStreamEnds, OwnerAt, Busy
<1>5. CASE OwnerSettled(k)
  BY <1>0, <1>5, <1>b, EnterDisconnectKeepsPromise DEF OwnerSettled, OwnerAt, Busy
<1>6. CASE OwnerDisconnected(k)
  <2>1. [run[k] EXCEPT !.disconnected = TRUE].kind = run[k].kind
    BY <1>0 DEF Run
  <2> QED
    BY <1>0, <1>6, <1>c, <2>1, AfterRunKeepsPromise, RunOperators
    DEF OwnerDisconnected, OwnerAt, Busy
<1>7. CASE OwnerDisconnectFails(k)
  <2> DEFINE h == [run[k] EXCEPT !.kind = IF @ \in SdkResults THEN "failed" ELSE @]
  <2>1. h \in Run /\ (run[k].kind \in {"adapter_failure", "cancelled"} => h.kind = run[k].kind)
    BY <1>0, RunOperators DEF Run, SdkResults
  <2>2. owner[k] = "disconnecting" /\ AfterRun(k, h) /\ RunFrame
    BY <1>7 DEF OwnerDisconnectFails, OwnerAt
  <2> HIDE DEF h
  <2> QED
    BY <1>c, <2>1, <2>2, AfterRunKeepsPromise DEF Busy
<1> QED BY <1>1, <1>2, <1>3, <1>4, <1>5, <1>6, <1>7

\* The owner's other steps: registering, initialising, being cancelled, ending.
LEMMA OwnerStepsKeepPromise ==
  ASSUME IInv, Promise, NEW k \in Attempts,
         \/ OwnerStart(k) \/ OwnerInitialized(k) \/ OwnerCancelled(k)
         \/ OwnerReturns(k) \/ TaskFinished(k) \/ ResultPhaseFinished(k)
  PROVE  Promise'
<1>0. run \in [Attempts -> Run] /\ run[k] \in Run /\ row \in [Workers -> Row]
      /\ WorkerOf(k) \in Workers
  BY AttemptPair DEF IInv, TypeOK
<1>1. CASE OwnerStart(k)
  <2> DEFINE w == WorkerOf(k)
  <2>1. /\ owner[k] = "created" /\ owner' = [owner EXCEPT ![k] = "connecting"]
        /\ live' = [live EXCEPT ![w] = NumberOf(k)]
        /\ UNCHANGED <<row, requested, pending, revoked, phase, run>>
    BY <1>1 DEF OwnerStart, OwnerAt, rows
  <2>2. /\ owner'[k] = "connecting"
        /\ \A j \in Attempts : j # k => owner'[j] = owner[j]
        /\ live'[w] = NumberOf(k) /\ \A v \in Workers : v # w => live'[v] = live[v]
    BY <1>0, <2>1 DEF IInv, TypeOK
  <2>3. \A j \in Attempts : AtWork(j)' = AtWork(j)
    BY <2>1, <2>2 DEF AtWork, Busy
  <2>4. RegisteredIsOwned'
    <3> SUFFICES ASSUME NEW j \in Attempts, Registered(j)'
                 PROVE  AtWork(j)' /\ owner'[j] # "created"
      BY DEF RegisteredIsOwned
    <3>1. CASE j = k
      BY <2>2, <3>1 DEF AtWork, Busy
    <3>2. CASE j # k
      <4>1. Registered(j)
        BY <2>2, <3>2, AttemptPair DEF Registered
      <4> QED BY <2>2, <2>3, <3>2, <4>1 DEF Promise, RegisteredIsOwned
    <3> QED BY <3>1, <3>2
  <2>5. row[w].state = Starting
    BY <2>1 DEF IInv, TasksAgree, ConnectingIsStarting
  <2>6. WaitingHasRequests'
    BY <2>1, <2>2, <2>3, <2>5, StatesDiffer, AttemptPair
    DEF Promise, WaitingHasRequests, Registered, PendingOf
  <2>7. StartersHadNoTurn'
    BY <2>1, <2>2 DEF Promise, StartersHadNoTurn, Current
  <2> QED BY <2>1, <2>4, <2>6, <2>7 DEF Promise, ResultsAreFinal, Over
<1>2. CASE OwnerInitialized(k)
  <2> DEFINE w == WorkerOf(k)  x == SetHealth(Move(row[w], Running), "healthy")
  <2>1. /\ owner[k] = "connecting" /\ owner' = [owner EXCEPT ![k] = "running"]
        /\ row' = [row EXCEPT ![w] = x]
        /\ UNCHANGED <<requested, pending, live, revoked, phase, run>>
    BY <1>2 DEF OwnerInitialized, OwnerAt, control
  <2>2. /\ x.state = Running /\ x.attempt = row[w].attempt /\ x.result = row[w].result
        /\ x.session = row[w].session
    BY <1>0 DEF SetHealth, Move, Row
  <2> HIDE DEF x
  <2>3. /\ owner'[k] = "running" /\ \A j \in Attempts : j # k => owner'[j] = owner[j]
        /\ row'[w] = x /\ \A v \in Workers : v # w => row'[v] = row[v]
    BY <1>0, <2>1 DEF IInv, TypeOK
  <2>4. \A j \in Attempts : AtWork(j)' = AtWork(j)
    BY <2>1, <2>3 DEF AtWork, Busy
  <2>5. RegisteredIsOwned'
    BY <2>1, <2>3, <2>4 DEF Promise, RegisteredIsOwned, Registered
  <2>6. WaitingHasRequests'
    BY <2>1, <2>2, <2>3, <2>4, StatesDiffer, AttemptPair
    DEF Promise, WaitingHasRequests, Registered, PendingOf
  <2>7. row[w].state = Starting
    BY <2>1 DEF IInv, TasksAgree, ConnectingIsStarting
  <2>8. ResultsAreFinal'
    BY <1>0, <2>2, <2>3, <2>7, StatesDiffer DEF Promise, ResultsAreFinal, Over
  <2>9. StartersHadNoTurn'
    BY <2>1, <2>2, <2>3, StatesDiffer, AttemptPair DEF Promise, StartersHadNoTurn, Current
  <2> QED BY <2>1, <2>5, <2>6, <2>8, <2>9 DEF Promise
<1>3. CASE OwnerCancelled(k)
  <2>a. RunFrame
    BY <1>3 DEF OwnerCancelled
  <2>b. Holding(k, "cancelled").kind = "cancelled" /\ Holding(k, "cancelled") \in Run
    <3>1. Holding(k, "cancelled").kind = "cancelled"
      BY <1>0 DEF Holding, Run
    <3> QED BY <1>0, <3>1, RunOperators
  <2>1. CASE owner[k] = "created" /\ OwnerEnds(k)
             /\ UNCHANGED <<row, resolution, pending, revoked, live, phase>>
    <3>1. phase[k] # "pending"
      BY <2>1, OneActive DEF IInv, Busy
    <3>2. /\ owner'[k] = "done"
          /\ \A j \in Attempts : j # k => owner'[j] = owner[j] /\ run'[j] = run[j]
      BY <2>1 DEF OwnerEnds, IInv, TypeOK
    <3> QED BY <2>1, <2>a, <3>1, <3>2, TaskMovesKeepPromise DEF RunFrame, AtWork, Busy
  <2>2. CASE owner[k] \in {"connecting", "running"} /\ EnterDisconnect(k, Holding(k, "cancelled"))
    BY <2>2, <2>a, <2>b, EnterDisconnectKeepsPromise DEF Busy
  <2>3. CASE owner[k] = "settling" /\ EnterDisconnect(k, run[k])
    <3>1. row[WorkerOf(k)].state # Starting
      BY <2>3, OneActive DEF Promise, StartersHadNoTurn, IInv, Busy
    <3> QED BY <1>0, <2>3, <2>a, <3>1, EnterDisconnectKeepsPromise DEF Busy
  <2>4. CASE owner[k] = "disconnecting" /\ AfterRun(k, Holding(k, "cancelled"))
    BY <2>4, <2>a, <2>b, AfterRunKeepsPromise DEF Busy
  <2>5. CASE owner[k] = "persisting"
             /\ UNCHANGED <<row, resolution, pending, revoked, live, phase, run, owner>>
    <3>1. AtWork(k) => Current(k)
      BY <2>5, OneActive DEF AtWork, IInv
    <3>2. row[WorkerOf(k)].state = Starting /\ phase[k] = "pending" =>
            run[k].kind \in {"adapter_failure", "cancelled"}
      BY <3>1 DEF AtWork, Promise, StartersHadNoTurn
    <3>3. AtWork(k)' = AtWork(k)
      BY <2>5 DEF AtWork
    <3> QED BY <2>5, <2>a, <3>2, <3>3, TaskMovesKeepPromise DEF RunFrame
  <2> QED BY <1>3, <2>1, <2>2, <2>3, <2>4, <2>5 DEF OwnerCancelled
<1>4. CASE OwnerReturns(k)
  <2>1. /\ owner[k] = "persisting" /\ phase[k] # "pending"
        /\ UNCHANGED <<row, requested, phase, live, pending, revoked>>
        /\ owner' = [owner EXCEPT ![k] = "done"] /\ run' = [run EXCEPT ![k] = NoRun]
    BY <1>4 DEF OwnerReturns, OwnerAt, OwnerEnds, rows, control
  <2>2. /\ owner'[k] = "done"
        /\ \A j \in Attempts : j # k => owner'[j] = owner[j] /\ run'[j] = run[j]
    BY <2>1 DEF IInv, TypeOK
  <2> QED BY <2>1, <2>2, TaskMovesKeepPromise DEF AtWork, Busy
<1>5. CASE TaskFinished(k)
  <2>1. /\ owner[k] = "done"
        /\ UNCHANGED <<row, requested, owner, run, phase, live, pending, revoked>>
    BY <1>5 DEF TaskFinished, rows, owners
  <2>2. ~ AtWork(k)
    BY <2>1 DEF AtWork, Busy, IInv, TasksAgree, PhaseHasResult
  <2> QED BY <2>1, <2>2, TaskMovesKeepPromise DEF AtWork
<1>6. CASE ResultPhaseFinished(k)
  <2>1. /\ phase[k] = "done" /\ phase' = [phase EXCEPT ![k] = "none"]
        /\ UNCHANGED <<row, requested, owner, run, live, pending, revoked>>
    BY <1>6 DEF ResultPhaseFinished, rows, control
  <2>2. phase'[k] = "none" /\ \A j \in Attempts : j # k => phase'[j] = phase[j]
    BY <2>1 DEF IInv, TypeOK
  <2>3. AtWork(k)' = AtWork(k)
    BY <2>1, <2>2 DEF AtWork
  <2>4. \A j \in Attempts : AtWork(j)' = AtWork(j) /\ (phase'[j] = "pending" <=> phase[j] = "pending")
    BY <2>1, <2>2, <2>3 DEF AtWork
  <2>5. RegisteredIsOwned'
    BY <2>1, <2>4 DEF Promise, RegisteredIsOwned, Registered
  <2>6. WaitingHasRequests'
    BY <2>1, <2>4 DEF Promise, WaitingHasRequests, Registered, PendingOf
  <2>7. StartersHadNoTurn'
    BY <2>1, <2>4 DEF Promise, StartersHadNoTurn, Current
  <2> QED BY <2>1, <2>5, <2>6, <2>7 DEF Promise, ResultsAreFinal, Over
<1> QED BY <1>1, <1>2, <1>3, <1>4, <1>5, <1>6

\* The result that the phase of k records comes with its terminal state: the
\* transition is never refused.
LEMMA PersistIsAllowed ==
  ASSUME IInv, Promise, NEW k \in Attempts, phase[k] = "pending"
  PROVE  CanMove(Completed(k).state, ResultTarget(k))
<1> DEFINE r == row[WorkerOf(k)]  c == Completed(k)
<1>1. AtWork(k) /\ Current(k) /\ ~ Over(WorkerOf(k)) /\ run[k].kind \in Results
  BY OneActive DEF AtWork, IInv, TasksAgree, PhaseHasResult
<1>2. r.state \in {Starting, Running, RequiresAction}
  BY <1>1, WorkingStates
<1>3. c.state \in {r.state, Running} /\ (Expires(k) => c.state = Running)
  BY CompletedOutcome DEF Promise
<1>4. ResultTarget(k) \in {"completed", "failed", "cancelled"}
  BY DEF ResultTarget, TargetOf
<1>5. r.state = RequiresAction => c.state = Running
  <2>1. r.state = RequiresAction => Registered(k) /\ PendingOf(k) # {}
    BY <1>1 DEF Promise, WaitingHasRequests
  <2> QED BY <1>1, <1>3, <2>1 DEF Expires
<1>6. CASE c.state = Running
  BY <1>4, <1>6, Moves DEF Terminal
<1>7. CASE c.state = Starting
  <2>1. r.state = Starting
    BY <1>3, <1>7, StatesDiffer
  <2>2. run[k].kind = "adapter_failure"
    BY <1>1, <2>1 DEF Promise, StartersHadNoTurn, Results, SdkResults
  <2>3. ResultTarget(k) \in {"failed", "cancelled"}
    BY <2>2 DEF ResultTarget, TargetOf
  <2> QED BY <1>7, <2>3, Moves
<1> HIDE DEF r, c
<1> QED BY <1>2, <1>3, <1>5, <1>6, <1>7 DEF c

\* The row that persisting the result of k leaves: no result at all, when the
\* store refuses it, or the result under its terminal state.
LEMMA PersistedOutcome ==
  ASSUME IInv, Promise, NEW k \in Attempts, phase[k] = "pending", NEW x \in Row,
         \/ ~ run[k].safe /\ x = Completed(k)
         \/ run[k].safe /\ x = Move(ResultRecorded(k), ResultTarget(k))
  PROVE  LET r == row[WorkerOf(k)] IN
         /\ x.attempt = r.attempt
         /\ ~ run[k].safe => x = Completed(k)
         /\ run[k].safe =>
              /\ x.state = ResultTarget(k) /\ x.state \in Terminal
              /\ x.result = run[k].kind /\ x.result \in Results
              /\ x.session = run[k].session
              /\ x.health = IF Completed(k).state = Starting THEN r.health ELSE "exited"
<1> DEFINE c == Completed(k)  rec == RecordResult(c, run[k].kind, run[k].session)
           y == ResultRecorded(k)  t == ResultTarget(k)
<1>1. run[k].kind \in Results /\ run[k].session \in BOOLEAN
  BY DEF IInv, TypeOK, TasksAgree, PhaseHasResult, Run
<1>2. c \in Row /\ c.attempt = row[WorkerOf(k)].attempt /\ c.health = row[WorkerOf(k)].health
  BY CompletedOutcome DEF Promise
<1>3. /\ rec \in Row /\ rec.attempt = c.attempt /\ rec.state = c.state /\ rec.health = c.health
      /\ rec.result = run[k].kind /\ rec.session = run[k].session
  BY <1>1, <1>2 DEF RecordResult, Row
<1>4. /\ y \in Row /\ y.attempt = c.attempt /\ y.result = run[k].kind /\ y.session = run[k].session
      /\ y.health = IF c.state = Starting THEN c.health ELSE "exited"
  <2>1. /\ SetHealth(rec, "exited") \in Row /\ SetHealth(rec, "exited").attempt = rec.attempt
        /\ SetHealth(rec, "exited").result = rec.result
        /\ SetHealth(rec, "exited").session = rec.session
        /\ SetHealth(rec, "exited").health = "exited"
    BY <1>3 DEF SetHealth, Row, Health
  <2>2. y = IF rec.state = Starting THEN rec ELSE SetHealth(rec, "exited")
    BY DEF ResultRecorded
  <2> HIDE DEF c, rec, y
  <2> QED BY <1>3, <2>1, <2>2
<1>5. t \in Terminal
  BY DEF ResultTarget, TargetOf, Terminal
<1>6. /\ Move(y, t).attempt = y.attempt /\ Move(y, t).state = t /\ Move(y, t).result = y.result
      /\ Move(y, t).session = y.session /\ Move(y, t).health = y.health
  BY <1>4 DEF Move, Row
<1> HIDE DEF c, rec, y, t
<1> QED BY <1>1, <1>2, <1>4, <1>5, <1>6 DEF c, y, t

\* What persisting the result of k does, since it is never refused.
LEMMA PersistStep ==
  ASSUME IInv, Promise, NEW k \in Attempts, PersistAcceptedResult(k)
  PROVE  /\ phase[k] = "pending" /\ CompleteLiveAttempt(k)
         /\ phase' = [phase EXCEPT ![k] = "done"]
         /\ UNCHANGED <<requested, owner, run>>
         /\ \E x \in Row :
              /\ row' = [row EXCEPT ![WorkerOf(k)] = x]
              /\ \/ ~ run[k].safe /\ x = Completed(k) /\ UNCHANGED stopReq
                 \/ run[k].safe /\ x = Move(ResultRecorded(k), ResultTarget(k))
                    /\ stopReq' = stopReq \ {k}
<1>1. phase[k] = "pending" /\ CanMove(Completed(k).state, ResultTarget(k))
  BY PersistIsAllowed DEF PersistAcceptedResult
<1>2. run[k].kind \in Results /\ run[k].session \in BOOLEAN
  BY <1>1 DEF IInv, TypeOK, TasksAgree, PhaseHasResult, Run
<1>3. Completed(k) \in Row /\ ResultRecorded(k) \in Row
  BY <1>2, CompletedRow, RecordedRow DEF IInv, TypeOK
<1>4. Move(ResultRecorded(k), ResultTarget(k)) \in Row
  BY <1>3, RowOperators DEF ResultTarget, TargetOf, States, Terminal
<1> QED BY <1>1, <1>3, <1>4 DEF PersistAcceptedResult

\* The result phase of k keeps the promise.
LEMMA PersistKeepsPromise ==
  ASSUME IInv, Promise, NEW k \in Attempts, PersistAcceptedResult(k)
  PROVE  Promise'
<1> DEFINE r == row[WorkerOf(k)]
<1>1. PICK x \in Row :
        /\ row' = [row EXCEPT ![WorkerOf(k)] = x]
        /\ \/ ~ run[k].safe /\ x = Completed(k)
           \/ run[k].safe /\ x = Move(ResultRecorded(k), ResultTarget(k))
  BY PersistStep
<1>2. /\ phase[k] = "pending" /\ CompleteLiveAttempt(k) /\ UNCHANGED <<requested, owner, run>>
      /\ phase' = [phase EXCEPT ![k] = "done"]
  BY PersistStep
<1>3. /\ phase'[k] = "done" /\ \A j \in Attempts : j # k => phase'[j] = phase[j]
      /\ owner'[k] = "persisting" /\ Current(k) /\ ~ Over(WorkerOf(k))
  BY <1>2, OneActive DEF IInv, TypeOK, TasksAgree, PhaseHasResult
<1>4. ~ AtWork(k)'
  BY <1>3 DEF AtWork, Busy
<1>5. r.result = NoResult /\ ~ r.session
  BY <1>3, AttemptPair DEF Promise, ResultsAreFinal
<1>6. /\ x.attempt = r.attempt
      /\ \/ x = Completed(k)
         \/ x.state \in Terminal /\ x.result \in Results
  BY <1>1, <1>2, PersistedOutcome
<1>7. /\ x.state = Starting => r.state = Starting
      /\ x.result # NoResult => x.state \in Terminal
      /\ x.session => x.result # NoResult
  <2>1. Completed(k).result = NoResult /\ ~ Completed(k).session
        /\ Completed(k).state \in {r.state, Running}
    BY <1>5, CompletedOutcome DEF Promise
  <2>2. NoResult \notin Results
    BY DEF NoResult, Results, SdkResults
  <2> QED BY <1>6, <2>1, <2>2, StatesDiffer
<1> QED BY <1>1, <1>2, <1>3, <1>4, <1>6, <1>7, EndKeepsPromise

\* A new attempt k of a worker without one, or whose last one is over.
LEMMA FreshAttemptKeepsPromise ==
  ASSUME IInv, Promise, NEW k \in Attempts,
         row[WorkerOf(k)].state = Absent \/ Over(WorkerOf(k)),
         NumberOf(k) = row[WorkerOf(k)].attempt + 1,
         row' = [row EXCEPT ![WorkerOf(k)] = FreshAttempt(NumberOf(k))],
         owner' = [owner EXCEPT ![k] = "created"],
         UNCHANGED <<requested, run, phase, live, pending, revoked>>
  PROVE  Promise'
<1> DEFINE w == WorkerOf(k)  x == FreshAttempt(NumberOf(k))
<1>1. /\ w \in Workers /\ row[w] \in Row /\ row[w].attempt \in Nat
  BY AttemptPair DEF IInv, TypeOK, Row
<1>2. x.attempt = NumberOf(k) /\ x.state = Starting /\ x.result = NoResult /\ ~ x.session
  BY DEF FreshAttempt
<1> HIDE DEF x
<1>3. /\ row'[w] = x /\ \A v \in Workers : v # w => row'[v] = row[v]
      /\ owner'[k] = "created" /\ \A j \in Attempts : j # k => owner'[j] = owner[j]
  BY <1>1 DEF IInv, TypeOK, x
<1>4. owner[k] = "none" /\ phase[k] = "none"
  BY <1>1 DEF IInv, TasksAgree, FutureIsUnused
<1>5. \A j \in Attempts : AtWork(j) => WorkerOf(j) # w
  <2> SUFFICES ASSUME NEW j \in Attempts, AtWork(j), WorkerOf(j) = w
               PROVE  FALSE
    OBVIOUS
  <2>1. Current(j) /\ ~ Over(w)
    BY OneActive DEF IInv, AtWork
  <2>2. row[w].state = Absent /\ row[w].attempt # 0
    BY <2>1, AttemptPair DEF Current
  <2> QED BY <1>1, <2>2 DEF IInv, Controls, RowsAreNumbered
<1>6. RegisteredIsOwned'
  <2> SUFFICES ASSUME NEW j \in Attempts, Registered(j)'
               PROVE  AtWork(j)' /\ owner'[j] # "created"
    BY DEF RegisteredIsOwned
  <2>1. Registered(j) /\ j # k
    BY <1>4 DEF Registered, Promise, RegisteredIsOwned, AtWork, Busy
  <2> QED BY <1>3, <2>1 DEF Promise, RegisteredIsOwned, AtWork
<1>7. WaitingHasRequests'
  <2> SUFFICES ASSUME NEW j \in Attempts, AtWork(j)', row'[WorkerOf(j)].state = RequiresAction
               PROVE  Registered(j)' /\ PendingOf(j)' # {}
    BY DEF WaitingHasRequests
  <2>1. j # k /\ WorkerOf(j) # w
    BY <1>2, <1>3, StatesDiffer
  <2>2. AtWork(j) /\ row[WorkerOf(j)].state = RequiresAction
    BY <1>3, <2>1, AttemptPair DEF AtWork
  <2> QED BY <2>2 DEF Promise, WaitingHasRequests, Registered, PendingOf
<1>8. ResultsAreFinal'
  BY <1>2, <1>3 DEF Promise, ResultsAreFinal, Over
<1>9. StartersHadNoTurn'
  <2> SUFFICES ASSUME NEW j \in Attempts, Current(j)', row'[WorkerOf(j)].state = Starting
               PROVE  /\ owner'[j] \notin {"running", "settling"}
                      /\ owner'[j] = "disconnecting" \/ phase'[j] = "pending" =>
                           run'[j].kind \in {"adapter_failure", "cancelled"}
    BY DEF StartersHadNoTurn
  <2>1. CASE WorkerOf(j) = w
    <3>1. j = k
      BY <1>2, <1>3, <2>1, AttemptPair DEF Current
    <3> QED BY <1>3, <1>4, <3>1
  <2>2. CASE WorkerOf(j) # w
    BY <1>3, <2>2, AttemptPair DEF Promise, StartersHadNoTurn, Current
  <2> QED BY <2>1, <2>2
<1> QED BY <1>6, <1>7, <1>8, <1>9 DEF Promise

\* Steps of clients.
LEMMA ClientStepsKeepPromise ==
  ASSUME IInv, Promise, NEW w \in Workers, ClientStep(w)
  PROVE  Promise'
<1>1. CASE SpawnCommit(w)
  <2> DEFINE k == <<w, 1>>
  <2>1. k \in Attempts /\ WorkerOf(k) = w /\ NumberOf(k) = 1
    BY MaxAttemptsAssumption DEF Attempts, WorkerOf, NumberOf
  <2>2. row[w].state = Absent /\ row[w].attempt = 0
    BY <1>1 DEF SpawnCommit, PreflightPassed, IInv, TasksAgree, NewcomersAreAbsent,
       Controls, RowsAreNumbered
  <2>3. /\ row' = [row EXCEPT ![w] = FreshAttempt(1)]
        /\ owner' = [owner EXCEPT ![k] = "created"]
        /\ UNCHANGED <<requested, run, phase, live, pending, revoked>>
    BY <1>1 DEF SpawnCommit
  <2>4. NumberOf(k) = row[WorkerOf(k)].attempt + 1
    BY <2>1, <2>2
  <2> HIDE DEF k
  <2> QED BY <2>1, <2>2, <2>3, <2>4, FreshAttemptKeepsPromise
<1>2. CASE Resume(w)
  <2> DEFINE n == row[w].attempt + 1  k == <<w, n>>
  <2>1. row[w].attempt \in Nat
    BY DEF IInv, TypeOK, Row
  <2>2. k \in Attempts /\ WorkerOf(k) = w /\ NumberOf(k) = n
    BY <1>2, <2>1, MaxAttemptsAssumption DEF Resume, Attempts, WorkerOf, NumberOf
  <2>3. Over(w)
    BY <1>2 DEF Resume, MayResume, Over, Resumable, Terminal
  <2>4. /\ row' = [row EXCEPT ![w] = FreshAttempt(n)]
        /\ owner' = [owner EXCEPT ![k] = "created"]
        /\ UNCHANGED <<requested, run, phase, live, pending, revoked>>
    BY <1>2 DEF Resume
  <2> HIDE DEF k
  <2> QED BY <2>2, <2>3, <2>4, FreshAttemptKeepsPromise
<1>3. CASE SpawnBegin(w) \/ SpawnRefused(w) \/ \E force \in BOOLEAN : Stop(w, force)
  <2>1. UNCHANGED <<rows, owners, control>>
    BY <1>3 DEF SpawnBegin, SpawnRefused, Stop
  <2> QED BY <2>1, NothingKeepsPromise DEF rows, owners, control
<1> QED BY <1>1, <1>2, <1>3 DEF ClientStep

\* Steps of approvals, if no callback is cancelled.
LEMMA ApprovalStepsKeepPromise ==
  ASSUME IInv, Promise, "callback_cancelled" \notin Incidents,
         NEW r \in Requests, ApprovalStep(r)
  PROVE  Promise'
<1>1. ASSUME NEW k \in Attempts, RequestApproval(k, r)
      PROVE  Promise'
  <2> DEFINE w == WorkerOf(k)  x == Move(row[w], RequiresAction)
  <2>1. /\ requested' = [requested EXCEPT ![r] = k] /\ pending' = pending \cup {r}
        /\ row' = [row EXCEPT ![w] = x] /\ requested[r] = NoAttempt
        /\ Current(k) /\ Registered(k)
        /\ row[w].state \in {Running, RequiresAction}
        /\ UNCHANGED <<owner, run, phase, live, revoked>>
    BY <1>1 DEF RequestApproval, owners
  <2>2. /\ w \in Workers /\ x.state = RequiresAction /\ x.attempt = row[w].attempt
        /\ x.result = row[w].result /\ x.session = row[w].session
    BY AttemptPair DEF IInv, TypeOK, Move, Row
  <2> HIDE DEF x
  <2>3. /\ row'[w] = x /\ \A v \in Workers : v # w => row'[v] = row[v]
        /\ requested'[r] = k /\ \A q \in Requests : q # r => requested'[q] = requested[q]
        /\ r \notin pending
    <3>1. r \notin pending
      BY <2>1 DEF IInv, Controls, PendingIsLive, NoAttempt, Attempts
    <3> QED BY <2>1, <2>2, <3>1 DEF IInv, TypeOK
  <2>4. \A j \in Attempts : AtWork(j)' = AtWork(j) /\ Registered(j)' = Registered(j)
    BY <2>1 DEF AtWork, Registered
  <2>5. RegisteredIsOwned'
    BY <2>1, <2>4 DEF Promise, RegisteredIsOwned
  <2>6. WaitingHasRequests'
    <3> SUFFICES ASSUME NEW j \in Attempts, AtWork(j)', row'[WorkerOf(j)].state = RequiresAction
                 PROVE  Registered(j)' /\ PendingOf(j)' # {}
      BY DEF WaitingHasRequests
    <3>1. CASE j = k
      BY <2>1, <2>3, <2>4, <3>1 DEF PendingOf
    <3>2. CASE j # k
      <4>1. AtWork(j) /\ WorkerOf(j) # w
        BY <2>1, <2>4, <3>2, OneActive, AttemptPair DEF IInv, AtWork, Current
      <4>2. Registered(j) /\ PendingOf(j) # {}
        BY <2>3, <4>1, AttemptPair DEF Promise, WaitingHasRequests
      <4> QED BY <2>1, <2>3, <2>4, <4>2 DEF PendingOf, IInv, TypeOK
    <3> QED BY <3>1, <3>2
  <2>7. ResultsAreFinal'
    BY <2>1, <2>2, <2>3, StatesDiffer DEF Promise, ResultsAreFinal, Over
  <2>8. StartersHadNoTurn'
    BY <2>1, <2>2, <2>3, StatesDiffer, AttemptPair DEF Promise, StartersHadNoTurn, Current
  <2> QED BY <2>1, <2>5, <2>6, <2>7, <2>8 DEF Promise
<1>2. CASE Respond(r)
  <2> DEFINE k == requested[r]  w == WorkerOf(k)
             x == IF LastPending(r) THEN Move(row[w], Running) ELSE row[w]
  <2>1. /\ r \in pending /\ k \in Attempts /\ Current(k) /\ Registered(k)
        /\ row[w].state = RequiresAction
        /\ pending' = pending \ {r} /\ revoked' = revoked \ {r}
        /\ row' = [row EXCEPT ![w] = x]
        /\ UNCHANGED <<requested, owner, run, phase, live>>
    BY <1>2 DEF Respond, MayAnswer, IInv, Controls, PendingIsLive, owners
  <2>2. /\ w \in Workers /\ x.attempt = row[w].attempt
        /\ x.state = IF LastPending(r) THEN Running ELSE RequiresAction
        /\ x.result = row[w].result /\ x.session = row[w].session
    BY <2>1, AttemptPair DEF IInv, TypeOK, Move, Row
  <2> HIDE DEF x
  <2>3. row'[w] = x /\ \A v \in Workers : v # w => row'[v] = row[v]
    BY <2>1, <2>2 DEF IInv, TypeOK
  <2>4. \A j \in Attempts : AtWork(j)' = AtWork(j) /\ Registered(j)' = Registered(j)
    BY <2>1 DEF AtWork, Registered
  <2>5. RegisteredIsOwned'
    BY <2>1, <2>4 DEF Promise, RegisteredIsOwned
  <2>6. WaitingHasRequests'
    <3> SUFFICES ASSUME NEW j \in Attempts, AtWork(j)', row'[WorkerOf(j)].state = RequiresAction
                 PROVE  Registered(j)' /\ PendingOf(j)' # {}
      BY DEF WaitingHasRequests
    <3>1. CASE j = k
      <4>1. ~ LastPending(r)
        BY <2>2, <2>3, <3>1, StatesDiffer
      <4> QED BY <2>1, <2>4, <3>1, <4>1 DEF LastPending, PendingOf
    <3>2. CASE j # k
      <4>1. AtWork(j) /\ WorkerOf(j) # w
        BY <2>1, <2>4, <3>2, OneActive, AttemptPair DEF IInv, AtWork, Current
      <4>2. Registered(j) /\ PendingOf(j) # {}
        BY <2>3, <4>1, AttemptPair DEF Promise, WaitingHasRequests
      <4> QED BY <2>1, <2>4, <3>2, <4>2 DEF PendingOf
    <3> QED BY <3>1, <3>2
  <2>7. ResultsAreFinal'
    BY <2>1, <2>2, <2>3, StatesDiffer DEF Promise, ResultsAreFinal, Over
  <2>8. StartersHadNoTurn'
    BY <2>1, <2>2, <2>3, StatesDiffer, AttemptPair DEF Promise, StartersHadNoTurn, Current
  <2> QED BY <2>1, <2>5, <2>6, <2>7, <2>8 DEF Promise
<1>3. CASE CallbackCancelled(r) \/ CallbackCleanup(r)
  BY <1>3 DEF CallbackCancelled, CallbackCleanup, Promise
<1> QED BY <1>1, <1>2, <1>3 DEF ApprovalStep

\* Steps of a stop operation, of which only the last touches rows and controls.
LEMMA StopStepsKeepPromise ==
  ASSUME IInv, Promise, NEW k \in Attempts, StopStep(k)
  PROVE  Promise'
<1>1. CASE StopFinal(k)
  <2>1. /\ FinalizeWithoutResult(k, "cancelled") /\ stopAt[k] = "final"
        /\ UNCHANGED <<requested, owner, run, phase>>
    BY <1>1 DEF StopFinal, StopMoves, owners
  <2>2. ~ AtWork(k)
    BY <2>1 DEF AtWork, Busy, OwnerGone, IInv, TasksAgree, FinalStopHasNoOwner, PhaseHasResult
  <2>3. ~ AtWork(k)'
    BY <2>1, <2>2 DEF AtWork
  <2> QED BY <2>1, <2>3, FinalizationKeepsPromise
<1>2. CASE ~ StopFinal(k)
  <2>1. UNCHANGED <<row, requested, owner, phase, live, pending, revoked>>
    BY <1>2 DEF StopStep, StopBegin, StopYield, StopGrace, StopDisconnect, StopCancelOwner,
       StopGather, StopJoin, StopFrame, rows, control
  <2>2. UNCHANGED run \/ run' = [run EXCEPT ![k].disconnected = TRUE]
    BY <1>2 DEF StopStep, StopBegin, StopYield, StopGrace, StopDisconnect, StopCancelOwner,
       StopGather, StopJoin
  <2>3. \A j \in Attempts : run'[j].kind = run[j].kind
    <3>1. CASE UNCHANGED run
      BY <3>1
    <3>2. CASE run' = [run EXCEPT ![k].disconnected = TRUE]
      <4>1. run' = [run EXCEPT ![k] = [run[k] EXCEPT !.disconnected = TRUE]]
        BY <3>2
      <4>2. [run[k] EXCEPT !.disconnected = TRUE].kind = run[k].kind
        BY DEF IInv, TypeOK, Run
      <4> QED BY <4>1, <4>2 DEF IInv, TypeOK
    <3> QED BY <2>2, <3>1, <3>2
  <2> QED BY <2>1, <2>3, NothingKeepsPromise
<1> QED BY <1>1, <1>2

\* Every step keeps the promise, if no callback is cancelled.
LEMMA NextPromise ==
  ASSUME "callback_cancelled" \notin Incidents
  PROVE  IInv /\ Promise /\ [Next]_vars => Promise'
<1> SUFFICES ASSUME IInv, Promise, [Next]_vars PROVE Promise'
  OBVIOUS
<1>1. ASSUME NEW k \in Attempts, OwnerStep(k) PROVE Promise'
  BY <1>1, RunnerStepsKeepPromise, OwnerStepsKeepPromise, PersistKeepsPromise DEF OwnerStep
<1>2. CASE CloseStep \/ UNCHANGED vars
  <2>1. UNCHANGED <<row, requested, owner, run, phase, live, pending, revoked>>
    BY <1>2 DEF CloseStep, CloseBegin, CloseStopReturns, CloseDrain, CloseEnd, CloseStop,
       vars, rows, owners, control
  <2> QED BY <2>1, NothingKeepsPromise
<1>3. CASE FreshProcess
  <2>1. /\ \A j \in Attempts : owner'[j] = "none" /\ phase'[j] = "none" /\ NumberOf(j) # 0
        /\ \A w \in Workers : live'[w] = 0
        /\ revoked' = {} /\ UNCHANGED row
    BY <1>3, AttemptPair DEF FreshProcess, rows
  <2>2. \A j \in Attempts : ~ AtWork(j)' /\ ~ Registered(j)'
    BY <2>1, AttemptPair DEF AtWork, Busy, Registered
  <2> QED BY <2>1, <2>2 DEF Promise, RegisteredIsOwned, WaitingHasRequests, ResultsAreFinal,
         StartersHadNoTurn, Over, Current
<1> QED
  BY <1>1, <1>2, <1>3, ClientStepsKeepPromise, StopStepsKeepPromise, ApprovalStepsKeepPromise
  DEF Next, Restart, Crash

\* The promise holds initially.
LEMMA InitPromise == Init => Promise
<1> SUFFICES ASSUME Init PROVE Promise
  OBVIOUS
<1>1. \A k \in Attempts : ~ AtWork(k) /\ ~ Registered(k) /\ row[WorkerOf(k)].state # Starting
  BY AttemptPair DEF Init, AtWork, Busy, Registered, NoRow, Absent, Starting
<1>2. \A w \in Workers : row[w].result = NoResult /\ ~ row[w].session
  BY DEF Init, NoRow
<1> QED BY <1>1, <1>2 DEF Promise, RegisteredIsOwned, WaitingHasRequests, ResultsAreFinal,
       StartersHadNoTurn, Init

\* Without cancelled callbacks the promise holds in every state.
THEOREM PromiseIsKept ==
  ASSUME "callback_cancelled" \notin Incidents
  PROVE  Spec => []Promise
<1>1. Init => IInv /\ Promise
  BY InitIInv, InitPromise
<1>2. IInv /\ Promise /\ [Next]_vars => (IInv /\ Promise)'
  BY NextIInv, NextPromise
<1> QED BY <1>1, <1>2, PTL DEF Spec

-----------------------------------------------------------------------------
(***************************************************************************)
(* The refinement: every step is a step of the contract, or none.          *)
(***************************************************************************)

\* What a client sees of a row.
View(r) == [attempt |-> r.attempt, state |-> r.state,
            result |-> r.result, session |-> r.session]

\* The contract calls states and results as the supervisor does.
LEMMA ContractNames ==
  /\ Contract!Starting = Starting /\ Contract!Running = Running
  /\ Contract!RequiresAction = RequiresAction /\ Contract!Absent = Absent
  /\ Contract!Terminal = Terminal /\ Contract!Resumable = Resumable
  /\ Contract!NoResult = NoResult /\ Contract!Results = Results
  /\ \A n : Contract!Fresh(n) = View(FreshAttempt(n))
BY DEF Contract!Starting, Starting, Contract!Running, Running, Contract!RequiresAction,
   RequiresAction, Contract!Absent, Absent, Contract!Terminal, Terminal, Contract!Resumable,
   Resumable, Contract!NoResult, NoResult, Contract!Results, Results, Contract!SdkResults,
   SdkResults, Contract!Fresh, View, FreshAttempt

\* The view of a row s whose attempt has ended.
LEMMA EndedView ==
  ASSUME NEW r, NEW s, s.attempt = r.attempt
  PROVE  View(s) = [View(r) EXCEPT !.state = s.state, !.result = s.result, !.session = s.session]
<1>1. [View(r) EXCEPT !.state = s.state]
      = [attempt |-> r.attempt, state |-> s.state, result |-> r.result, session |-> r.session]
  BY DEF View
<1>2. [[attempt |-> r.attempt, state |-> s.state, result |-> r.result, session |-> r.session]
        EXCEPT !.result = s.result]
      = [attempt |-> r.attempt, state |-> s.state, result |-> s.result, session |-> r.session]
  OBVIOUS
<1>3. [[attempt |-> r.attempt, state |-> s.state, result |-> s.result, session |-> r.session]
        EXCEPT !.session = s.session]
      = [attempt |-> r.attempt, state |-> s.state, result |-> s.result, session |-> s.session]
  OBVIOUS
<1>4. View(s) = [attempt |-> r.attempt, state |-> s.state, result |-> s.result, session |-> s.session]
  BY DEF View
<1> QED BY <1>1, <1>2, <1>3, <1>4

\* A step changes the row of one worker at most.
LEMMA OneRowMoves ==
  ASSUME IInv, [Next]_vars
  PROVE  UNCHANGED row \/ \E w \in Workers : \E x : row' = [row EXCEPT ![w] = x]
<1> DEFINE OneRow == UNCHANGED row \/ \E w \in Workers : \E x : row' = [row EXCEPT ![w] = x]
<1>a. ASSUME NEW k \in Attempts, NEW x, row' = [row EXCEPT ![WorkerOf(k)] = x] PROVE OneRow
  BY <1>a, AttemptPair
<1>b. ASSUME NEW k \in Attempts, NEW h, AfterRun(k, h) \/ EnterDisconnect(k, h) PROVE OneRow
  <2>1. CASE UNCHANGED row
    BY <2>1
  <2>2. CASE FinalizeWithoutResult(k, MissingState(k))
    BY <1>a, <2>2 DEF FinalizeWithoutResult
  <2> QED BY <1>b, <2>1, <2>2 DEF EnterDisconnect, AfterRun
<1> HIDE DEF OneRow
<1>c. UNCHANGED row => OneRow
  BY DEF OneRow
<1>1. ASSUME NEW w \in Workers, ClientStep(w) PROVE OneRow
  <2>1. CASE SpawnCommit(w) \/ Resume(w)
    BY <2>1 DEF SpawnCommit, Resume, OneRow
  <2>2. CASE ~ (SpawnCommit(w) \/ Resume(w))
    BY <1>1, <1>c, <2>2 DEF ClientStep, SpawnBegin, SpawnRefused, Stop, rows
  <2> QED BY <2>1, <2>2
<1>2. ASSUME NEW k \in Attempts, OwnerStep(k) PROVE OneRow
  <2>1. CASE OwnerStart(k) \/ OwnerReturns(k) \/ TaskFinished(k) \/ ResultPhaseFinished(k)
    BY <1>c, <2>1 DEF OwnerStart, OwnerReturns, TaskFinished, ResultPhaseFinished, rows
  <2>2. CASE \/ OwnerFactoryFails(k) \/ OwnerDisconnected(k) \/ OwnerDisconnectFails(k)
             \/ OwnerAdapterFails(k) \/ OwnerSettled(k)
             \/ \E kind \in {"missing", "eof"} : OwnerStreamEnds(k, kind)
    BY <1>b, <2>2 DEF OwnerFactoryFails, OwnerDisconnected, OwnerDisconnectFails,
       OwnerAdapterFails, OwnerSettled, OwnerStreamEnds
  <2>3. ASSUME NEW result \in SdkResult, NEW nested \in BOOLEAN, OwnerResult(k, result, nested)
        PROVE  OneRow
    BY <1>b, <1>c, <2>3 DEF OwnerResult
  <2>4. CASE OwnerCancelled(k)
    BY <1>b, <1>c, <2>4 DEF OwnerCancelled
  <2>5. CASE PersistAcceptedResult(k) \/ OwnerInitialized(k)
    BY <1>a, <2>5 DEF PersistAcceptedResult, OwnerInitialized
  <2> QED BY <1>2, <2>1, <2>2, <2>3, <2>4, <2>5 DEF OwnerStep
<1>3. ASSUME NEW k \in Attempts, StopStep(k) PROVE OneRow
  <2>1. CASE StopFinal(k)
    BY <1>a, <2>1 DEF StopFinal, FinalizeWithoutResult
  <2>2. CASE ~ StopFinal(k)
    BY <1>3, <1>c, <2>2 DEF StopStep, StopBegin, StopYield, StopGrace, StopDisconnect,
       StopCancelOwner, StopGather, StopJoin, StopFrame, rows
  <2> QED BY <2>1, <2>2
<1>4. ASSUME NEW r \in Requests, ApprovalStep(r) PROVE OneRow
  <2>1. ASSUME NEW k \in Attempts, RequestApproval(k, r) PROVE OneRow
    BY <1>a, <2>1 DEF RequestApproval
  <2>2. CASE Respond(r)
    BY <1>a, <2>2 DEF Respond, MayAnswer, IInv, Controls, PendingIsLive
  <2>3. CASE CallbackCancelled(r) \/ CallbackCleanup(r)
    BY <1>c, <2>3 DEF CallbackCancelled, CallbackCleanup, rows
  <2> QED BY <1>4, <2>1, <2>2, <2>3 DEF ApprovalStep
<1>5. CASE CloseStep \/ Restart \/ Crash \/ UNCHANGED vars
  BY <1>c, <1>5 DEF CloseStep, CloseBegin, CloseStopReturns, CloseDrain, CloseEnd, CloseStop,
     Restart, Crash, FreshProcess, vars, rows
<1> QED BY <1>1, <1>2, <1>3, <1>4, <1>5 DEF Next, OneRow

\* How the view of one worker may change.
ContractChange(r, s) ==
  \/ View(s) = View(r)
  \/ r.state = Absent /\ View(s) = Contract!Fresh(1)
  \/ /\ r.state \in {Starting, RequiresAction}
     /\ View(s) = [View(r) EXCEPT !.state = Running]
  \/ r.state = Running /\ View(s) = [View(r) EXCEPT !.state = RequiresAction]
  \/ /\ r.state \in Resumable /\ r.session
     /\ View(s) = Contract!Fresh(r.attempt + 1)
  \/ /\ r.state \in {Starting, Running, RequiresAction} /\ s.state \in Terminal
     /\ r.state = Starting => s.state \in {"failed", "cancelled"}
     /\ s.state = "completed" => s.result = "completed"
     /\ s.state = "failed" => s.result \in {"failed", "adapter_failure"}
     /\ s.state = "lost" => s.result = NoResult
     /\ s.session => s.result # NoResult
     /\ s.attempt = r.attempt

\* Every change of a row is such a change.
LEMMA RowChangesAreContractChanges ==
  ASSUME IInv, Promise, [Next]_vars, NEW w \in Workers
  PROVE  ContractChange(row[w], row'[w])
<1> DEFINE r == row[w]  s == row'[w]
<1>0. r \in Row /\ RowChanges(w)
  BY RowStep DEF IInv, TypeOK
<1>1. CASE s = r
  BY <1>1 DEF ContractChange
<1>2. CASE r.state = Absent /\ s = FreshAttempt(1)
  <2>1. View(s) = Contract!Fresh(1)
    BY <1>2, ContractNames
  <2> QED BY <1>2, <2>1 DEF ContractChange
<1>3. CASE MayResume(w) /\ s = FreshAttempt(r.attempt + 1)
  <2>1. View(s) = Contract!Fresh(r.attempt + 1)
    BY <1>3, ContractNames
  <2> QED BY <1>3, <2>1 DEF ContractChange, MayResume
<1>4. CASE r.state = Starting /\ s = SetHealth(Move(r, Running), "healthy")
  <2>1. View(s) = [View(r) EXCEPT !.state = Running]
    BY <1>0, <1>4 DEF View, SetHealth, Move, Row
  <2> QED BY <1>4, <2>1 DEF ContractChange
<1>5. CASE r.state \in {Running, RequiresAction} /\ s = Move(r, RequiresAction)
  <2>1. View(s) = [View(r) EXCEPT !.state = RequiresAction]
    BY <1>0, <1>5 DEF View, Move, Row
  <2>2. r.state = RequiresAction => View(s) = View(r)
    BY <2>1 DEF View
  <2> QED BY <1>5, <2>1, <2>2 DEF ContractChange
<1>6. CASE r.state = RequiresAction /\ s = Move(r, Running)
  <2>1. View(s) = [View(r) EXCEPT !.state = Running]
    BY <1>0, <1>6 DEF View, Move, Row
  <2> QED BY <1>6, <2>1 DEF ContractChange
<1>7. ASSUME NEW k \in Attempts, NEW missing \in {"cancelled", "lost"},
             WorkerOf(k) = w, s = Finalized(k, missing)
      PROVE  ContractChange(r, s)
  <2>1. /\ s.attempt = r.attempt /\ s.result = r.result /\ s.session = r.session
        /\ ~ MustFinalize(k) => s = r
        /\ MustFinalize(k) =>
             /\ s.result = NoResult /\ ~ s.session
             /\ r.state \in {Starting, Running, RequiresAction}
             /\ \/ s.state = missing /\ (r.state = Starting => missing = "cancelled")
                \/ s.state = Starting /\ r.state = Starting
    BY <1>7, FinalizedOutcome DEF Promise
  <2>2. CASE ~ MustFinalize(k) \/ (s.state = Starting /\ r.state = Starting)
    <3>1. View(s) = View(r)
      BY <2>1, <2>2 DEF View
    <3> QED BY <3>1 DEF ContractChange
  <2>3. CASE MustFinalize(k) /\ s.state = missing /\ (r.state = Starting => missing = "cancelled")
    BY <2>1, <2>3 DEF ContractChange, Terminal
  <2> QED BY <2>1, <2>2, <2>3
<1>8. ASSUME NEW k \in Attempts, WorkerOf(k) = w, phase[k] = "pending", s \in Persisted(k)
      PROVE  ContractChange(r, s)
  <2>1. CanMove(Completed(k).state, ResultTarget(k))
    BY <1>8, PersistIsAllowed
  <2>2. /\ Current(k) /\ ~ Over(w) /\ r.state \in {Starting, Running, RequiresAction}
        /\ run[k].kind \in Results /\ run[k].session \in BOOLEAN
    BY <1>8, OneActive, WorkingStates DEF IInv, TypeOK, TasksAgree, PhaseHasResult, Run
  <2>3. Completed(k) \in Row /\ Completed(k).state \in {r.state, Running}
        /\ (Completed(k).state # r.state => r.state = RequiresAction)
        /\ Completed(k).attempt = r.attempt /\ Completed(k).result = r.result
        /\ Completed(k).session = r.session
    BY <1>8, CompletedOutcome DEF Promise
  <2>4. CASE s = Completed(k)
    <3>1. CASE s.state = r.state
      <4>1. View(s) = View(r)
        BY <2>3, <2>4, <3>1 DEF View
      <4> QED BY <4>1 DEF ContractChange
    <3>2. CASE s.state # r.state
      <4>1. View(s) = [View(r) EXCEPT !.state = Running] /\ r.state = RequiresAction
        BY <2>3, <2>4, <3>2 DEF View
      <4> QED BY <4>1 DEF ContractChange
    <3> QED BY <3>1, <3>2
  <2>5. CASE s = Move(ResultRecorded(k), ResultTarget(k))
    <3> DEFINE y == RecordResult(Completed(k), run[k].kind, run[k].session)
               z == SetHealth(y, "exited")
    <3>1. /\ y.attempt = r.attempt /\ y.state = Completed(k).state
          /\ y.result = run[k].kind /\ y.session = run[k].session /\ y \in Row
      BY <2>2, <2>3 DEF RecordResult, Row
    <3>2. /\ z.attempt = r.attempt /\ z.result = run[k].kind /\ z.session = run[k].session
          /\ z \in Row
      BY <3>1 DEF SetHealth, Row, Health
    <3>3. ResultRecorded(k) = IF y.state = Starting THEN y ELSE z
      BY DEF ResultRecorded
    <3> HIDE DEF y, z
    <3>4. /\ ResultRecorded(k) \in Row /\ ResultRecorded(k).attempt = r.attempt
          /\ ResultRecorded(k).result = run[k].kind /\ ResultRecorded(k).session = run[k].session
      BY <3>1, <3>2, <3>3
    <3>5. /\ s.attempt = r.attempt /\ s.result = run[k].kind /\ s.state = ResultTarget(k)
      BY <2>5, <3>4 DEF Move, Row
    <3>6. run[k].kind # NoResult
      BY <2>2 DEF Results, SdkResults, NoResult
    <3>7. /\ ResultTarget(k) \in {"completed", "failed", "cancelled"}
          /\ ResultTarget(k) = "completed" => run[k].kind = "completed"
          /\ ResultTarget(k) = "failed" => run[k].kind \in {"failed", "adapter_failure"}
      BY <2>2 DEF ResultTarget, TargetOf, Results, SdkResults
    <3>8. r.state = Starting => ResultTarget(k) # "completed"
      <4>1. r.state = Starting => run[k].kind \in {"adapter_failure", "cancelled"}
        BY <1>8, <2>2 DEF Promise, StartersHadNoTurn
      <4> QED BY <3>7, <4>1
    <3> HIDE DEF r, s
    <3> QED BY <2>2, <3>5, <3>6, <3>7, <3>8 DEF ContractChange, Terminal, r
  <2> QED BY <1>8, <2>1, <2>4, <2>5 DEF Persisted
<1> QED BY <1>0, <1>1, <1>2, <1>3, <1>4, <1>5, <1>6, <1>7, <1>8 DEF RowChanges

\* Every step of the supervisor is a step of the contract, or changes nothing
\* that a client sees.
LEMMA StepsFollowContract ==
  ASSUME IInv, Promise, [Next]_vars
  PROVE  \/ Contract!Next
         \/ UNCHANGED [w \in Workers |-> [attempt |-> row[w].attempt, state |-> row[w].state,
                                          result |-> row[w].result, session |-> row[w].session]]
<1> DEFINE view == [v \in Workers |-> [attempt |-> row[v].attempt, state |-> row[v].state,
                                       result |-> row[v].result, session |-> row[v].session]]
<1>1. CASE UNCHANGED row
  BY <1>1
<1>2. ASSUME NEW w \in Workers, NEW x, row' = [row EXCEPT ![w] = x]
      PROVE  Contract!Next \/ UNCHANGED view
  <2> DEFINE r == row[w]
  <2>1. /\ row'[w] = x /\ \A v \in Workers : v # w => row'[v] = row[v]
        /\ r \in Row
    BY <1>2 DEF IInv, TypeOK
  <2>2. view[w] = View(r)
    BY DEF View
  <2>3. view' = [view EXCEPT ![w] = View(x)]
    BY <2>1 DEF View
  <2>4. ContractChange(r, x)
    BY <2>1, RowChangesAreContractChanges
  <2>5. CASE View(x) = View(r)
    <3>1. view' = view
      BY <2>2, <2>3, <2>5
    <3> QED BY <3>1
  <2>6. CASE r.state = Absent /\ View(x) = Contract!Fresh(1)
    <3>1. Contract!Accept(w)
      BY <2>3, <2>6, ContractNames DEF Contract!Accept
    <3> QED BY <3>1 DEF Contract!Next
  <2>7. CASE r.state \in {Starting, RequiresAction} /\ View(x) = [View(r) EXCEPT !.state = Running]
    <3>1. Contract!Work(w)
      BY <2>2, <2>3, <2>7, ContractNames DEF Contract!Work
    <3> QED BY <3>1 DEF Contract!Next
  <2>8. CASE r.state = Running /\ View(x) = [View(r) EXCEPT !.state = RequiresAction]
    <3>1. Contract!Work(w)
      BY <2>2, <2>3, <2>8, ContractNames DEF Contract!Work
    <3> QED BY <3>1 DEF Contract!Next
  <2>9. CASE r.state \in Resumable /\ r.session /\ View(x) = Contract!Fresh(r.attempt + 1)
    <3>1. Contract!Continue(w)
      BY <2>3, <2>9, ContractNames DEF Contract!Continue
    <3> QED BY <3>1 DEF Contract!Next
  <2>10. CASE /\ r.state \in {Starting, Running, RequiresAction} /\ x.state \in Terminal
              /\ r.state = Starting => x.state \in {"failed", "cancelled"}
              /\ x.state = "completed" => x.result = "completed"
              /\ x.state = "failed" => x.result \in {"failed", "adapter_failure"}
              /\ x.state = "lost" => x.result = NoResult
              /\ x.session => x.result # NoResult
              /\ x.attempt = r.attempt
    <3>1. x \in Row
      BY <2>1, NextIInv DEF IInv, TypeOK
    <3>2. View(x) = [View(r) EXCEPT !.state = x.state, !.result = x.result, !.session = x.session]
      <4> HIDE DEF r
      <4> QED BY <2>10, EndedView, Zenon
    <3>3. Contract!Finish(w, x.state, x.result, x.session)
      BY <2>2, <2>3, <2>10, <3>2, ContractNames DEF Contract!Finish
    <3>4. x.result \in Results \cup {NoResult} /\ x.session \in BOOLEAN
      BY <3>1 DEF Row
    <3> QED BY <2>10, <3>3, <3>4, ContractNames DEF Contract!Next
  <2> HIDE DEF r, view
  <2> QED BY <2>4, <2>5, <2>6, <2>7, <2>8, <2>9, <2>10 DEF ContractChange
<1> QED BY <1>1, <1>2, OneRowMoves

\* Unless a callback that waits is cancelled, what clients observe is a behaviour
\* of the contract: results appear with the terminal state, an attempt ends once,
\* and only what was neither completed nor left without a session is continued.
THEOREM ContractImplemented ==
  ASSUME "callback_cancelled" \notin Incidents
  PROVE  Spec => ImplementsContract
<1>1. Init => Contract!Init
  BY ContractNames DEF Init, Contract!Init, NoRow
<1>2. IInv /\ Promise /\ [Next]_vars =>
        \/ Contract!Next
        \/ UNCHANGED [w \in Workers |-> [attempt |-> row[w].attempt, state |-> row[w].state,
                                         result |-> row[w].result, session |-> row[w].session]]
  BY StepsFollowContract
<1> QED BY <1>1, <1>2, Invariant, PromiseIsKept, PTL DEF Spec, ImplementsContract, Contract!Spec

-----------------------------------------------------------------------------
(***************************************************************************)
(* When only stops and closes happen.                                      *)
(***************************************************************************)
OnlyStops == Incidents \subseteq {"stop", "close"}

\* An attempt that is not over is at work, or a stop is about to end it.
Attended ==
  \A k \in Attempts :
    Current(k) => \/ Over(WorkerOf(k)) \/ AtWork(k)
                  \/ owner[k] = "done" /\ stopAt[k] # "idle"

\* An owner is cancelled only on behalf of a stop that was requested, and every
\* result is one that the store accepts.
StopsAreRequested ==
  \A k \in Attempts :
    /\ owner[k] \in Busy /\ stopAt[k] # "idle" => k \in stopReq
    /\ owner[k] \in Busy /\ k \in cancelling => stopAt[k] # "idle"
    /\ owner[k] = "disconnecting" /\ run[k].kind = "cancelled" => k \in stopReq
    /\ owner[k] = "settling" => run[k].kind \in SdkResults
    /\ owner[k] = "none" => k \notin cancelling
    /\ run[k].safe

\* The registered task of a worker is the owner of its current attempt.
Tracked ==
  \A k \in Attempts : Current(k) /\ ~ OwnerGone(k) => tasks[WorkerOf(k)] = NumberOf(k)

\* A close stops every attempt that is at work before it ends.
ClosesInOrder ==
  /\ closeAt # "aborted"
  /\ closeAt = "open" => closeWait = NoAttempt
  /\ closeAt = "stopping" =>
       /\ \A k \in Attempts : AtWork(k) => WorkerOf(k) \in closeTodo
       /\ closeWait # NoAttempt =>
            /\ Current(closeWait)
            /\ stopAt[closeWait] = "idle" => ~ AtWork(closeWait)
  /\ closeAt \in {"draining", "closed"} => \A k \in Attempts : ~ AtWork(k)

Order ==
  /\ Attended /\ StopsAreRequested /\ Tracked /\ ClosesInOrder
  /\ HealthFollowsState /\ EveryRequestIsResolved

\* An attempt at work has an owner that is not gone.
LEMMA WorkHasOwner ==
  ASSUME IInv, NEW k \in Attempts, AtWork(k)
  PROVE  ~ OwnerGone(k) /\ Current(k) /\ ~ Over(WorkerOf(k))
BY OneActive DEF IInv, AtWork, Busy, OwnerGone, TasksAgree, PhaseHasResult

-----------------------------------------------------------------------------
(***************************************************************************)
(* Kinds of steps, and what each leaves of the order.                      *)
(***************************************************************************)

\* The tasks of k move: k stays at work, or was not, or its owner ends at once
\* because a stop cancelled it.
LEMMA TaskMovesKeepOrder ==
  ASSUME IInv, Order, NEW k \in Attempts,
         UNCHANGED <<row, requested, resolution, pending, tasks, stopReq, stopAt, closing>>,
         \A j \in Attempts : j # k =>
           owner'[j] = owner[j] /\ phase'[j] = phase[j] /\ run'[j] = run[j],
         cancelling' \subseteq cancelling,
         AtWork(k)' => AtWork(k),
         AtWork(k)' \/ ~ AtWork(k) \/ (owner'[k] = "done" /\ stopAt[k] # "idle"),
         owner[k] = "done" => owner'[k] = "done",
         owner'[k] = "none" => owner[k] = "none",
         owner'[k] \in Busy => owner[k] \in Busy,
         ~ OwnerGone(k)' => ~ OwnerGone(k),
         owner'[k] = "disconnecting" /\ run'[k].kind = "cancelled" => k \in stopReq,
         owner'[k] = "settling" => run'[k].kind \in SdkResults,
         run'[k].safe
  PROVE  Order'
<1>1. \A j \in Attempts : AtWork(j)' => AtWork(j)
  BY DEF AtWork
<1>2. Attended'
  BY DEF Order, Attended, Current, Over, AtWork
<1>3. StopsAreRequested'
  BY DEF Order, StopsAreRequested
<1>4. Tracked'
  BY DEF Order, Tracked, Current, OwnerGone
<1>5. ClosesInOrder'
  <2>1. \A j \in Attempts : Current(j)' = Current(j)
    BY DEF Current
  <2>2. closeWait \in Attempts \cup {NoAttempt}
    BY DEF IInv, TypeOK
  <2> QED BY <1>1, <2>1, <2>2 DEF Order, ClosesInOrder, closing
<1>6. HealthFollowsState' /\ EveryRequestIsResolved'
  BY DEF Order, HealthFollowsState, EveryRequestIsResolved, Over
<1> QED BY <1>2, <1>3, <1>4, <1>5, <1>6 DEF Order

\* Attempt k ends, or a finished one is finalised, and leaves the row x.
LEMMA EndKeepsOrder ==
  ASSUME IInv, Order, NEW k \in Attempts, NEW x,
         CompleteLiveAttempt(k),
         row' = [row EXCEPT ![WorkerOf(k)] = x],
         x.attempt = row[WorkerOf(k)].attempt,
         ~ Current(k) => x = row[WorkerOf(k)],
         Current(k) => /\ x.state \in Terminal
                       /\ x = row[WorkerOf(k)] \/ x.health # "healthy",
         \A j \in Attempts : j # k =>
           /\ owner'[j] = owner[j] /\ phase'[j] = phase[j] /\ run'[j] = run[j]
           /\ stopAt'[j] = stopAt[j],
         ~ AtWork(k)', owner'[k] \in {owner[k], "done"}, run'[k].safe,
         stopReq \subseteq stopReq' \cup {k}, cancelling' \subseteq cancelling,
         UNCHANGED <<requested, tasks, closeAt, closeTodo, closeWait>>
  PROVE  Order'
<1> DEFINE w == WorkerOf(k)
<1>1. /\ w \in Workers /\ row'[w] = x
      /\ \A v \in Workers : v # w => row'[v] = row[v]
      /\ \A v \in Workers : row'[v].attempt = row[v].attempt
  BY AttemptPair DEF IInv, TypeOK
<1>2. \A j \in Attempts : /\ Current(j)' = Current(j)
                          /\ AtWork(j)' => AtWork(j)
                          /\ j # k => AtWork(j)' = AtWork(j)
  BY <1>1, AttemptPair DEF Current, AtWork
<1> HIDE DEF w
<1>3. Attended'
  <2> SUFFICES ASSUME NEW j \in Attempts, Current(j)'
               PROVE  \/ Over(WorkerOf(j))' \/ AtWork(j)'
                      \/ owner'[j] = "done" /\ stopAt'[j] # "idle"
    BY DEF Attended
  <2>1. CASE j = k
    BY <1>1, <1>2, <2>1 DEF Over, w
  <2>2. CASE j # k
    <3>1. WorkerOf(j) # w \/ ~ Current(k)
      BY <1>2, <2>2, AttemptPair DEF Current, w
    <3>2. row'[WorkerOf(j)] = row[WorkerOf(j)]
      BY <1>1, <3>1, AttemptPair DEF w
    <3>3. Over(WorkerOf(j)) \/ AtWork(j) \/ (owner[j] = "done" /\ stopAt[j] # "idle")
      BY <1>2 DEF Order, Attended
    <3>4. Over(WorkerOf(j)) => Over(WorkerOf(j))'
      BY <3>2 DEF Over
    <3>5. AtWork(j) => AtWork(j)'
      BY <1>2, <2>2
    <3>6. (owner[j] = "done" /\ stopAt[j] # "idle") => (owner'[j] = "done" /\ stopAt'[j] # "idle")
      BY <2>2
    <3> QED BY <3>3, <3>4, <3>5, <3>6
  <2> QED BY <2>1, <2>2
<1>4. StopsAreRequested'
  <2>1. owner'[k] \notin Busy
    BY DEF AtWork
  <2> QED BY <2>1 DEF Order, StopsAreRequested, Busy
<1>5. Tracked'
  BY <1>2 DEF Order, Tracked, OwnerGone
<1>6. ClosesInOrder'
  <2>1. closeWait \in Attempts \cup {NoAttempt}
    BY DEF IInv, TypeOK
  <2> QED BY <1>2, <2>1 DEF Order, ClosesInOrder
<1>7. HealthFollowsState'
  <2> SUFFICES ASSUME NEW v \in Workers
               PROVE  /\ row'[v].health = "exited" => Over(v)'
                      /\ row'[v].health = "healthy" <=> row'[v].state \in {Running, RequiresAction}
    BY DEF HealthFollowsState
  <2>1. CASE row'[v] = row[v]
    BY <2>1 DEF Order, HealthFollowsState, Over
  <2>2. CASE row'[v] # row[v]
    BY <1>1, <2>2, StatesDiffer DEF Over, w
  <2> QED BY <2>1, <2>2
<1>8. EveryRequestIsResolved'
  <2> SUFFICES ASSUME NEW r \in Requests, requested[r] # NoAttempt, r \notin pending'
               PROVE  resolution'[r] # "none"
    BY DEF EveryRequestIsResolved
  <2>1. CASE r \in Gone(k)
    <3>1. r \in PendingOf(k) /\ Registered(k) /\ r \in pending /\ requested[r] = k
      BY <2>1 DEF Gone, PendingOf
    <3>2. Expires(k)
      BY <3>1 DEF Expires, IInv, Controls, PendingIsLive
    <3> QED BY <2>1, <3>2 DEF CompleteLiveAttempt
  <2>2. CASE r \notin Gone(k)
    BY <2>2 DEF CompleteLiveAttempt, Order, EveryRequestIsResolved
  <2> QED BY <2>1, <2>2
<1> QED BY <1>3, <1>4, <1>5, <1>6, <1>7, <1>8 DEF Order

\* The finalisation of k is not refused.
LEMMA FinalizationKeepsOrder ==
  ASSUME IInv, Promise, Order, NEW k \in Attempts, NEW missing \in {"cancelled", "lost"},
         row[WorkerOf(k)].state = Starting => missing = "cancelled",
         FinalizeWithoutResult(k, missing),
         \A j \in Attempts : j # k =>
           /\ owner'[j] = owner[j] /\ phase'[j] = phase[j] /\ run'[j] = run[j]
           /\ stopAt'[j] = stopAt[j],
         ~ AtWork(k)', owner'[k] \in {owner[k], "done"}, run'[k].safe,
         stopReq \subseteq stopReq' \cup {k}, cancelling' \subseteq cancelling,
         UNCHANGED <<requested, tasks, closeTodo, closeWait>>,
         ~ FinalizeRaises(k, missing) => UNCHANGED closeAt
  PROVE  Order'
<1> DEFINE f == Finalized(k, missing)  r == row[WorkerOf(k)]
<1>1. /\ f.attempt = r.attempt
      /\ ~ MustFinalize(k) => f = r
      /\ MustFinalize(k) =>
           /\ f.health = "exited" /\ ~ FinalizeRaises(k, missing) /\ f.state = missing
  BY FinalizedOutcome, StatesDiffer DEF Promise
<1>2. /\ ~ Current(k) => f = r
      /\ Current(k) => f.state \in Terminal /\ (f = r \/ f.health # "healthy")
  BY <1>1 DEF MustFinalize, Over, Terminal
<1>3. UNCHANGED closeAt
  BY <1>1 DEF FinalizeRaises
<1>4. CompleteLiveAttempt(k) /\ row' = [row EXCEPT ![WorkerOf(k)] = f]
  BY DEF FinalizeWithoutResult
<1> HIDE DEF f
<1> QED BY <1>1, <1>2, <1>3, <1>4, EndKeepsOrder

\* The runner of k ended with h.
LEMMA AfterRunKeepsOrder ==
  ASSUME IInv, Promise, Order, NEW k \in Attempts, owner[k] \in Busy, NEW h \in Run,
         AfterRun(k, h), RunFrame, cancelling' \subseteq cancelling, h.safe,
         h.kind = "cancelled" => k \in stopReq,
         row[WorkerOf(k)].state = Starting => h.kind \in {"adapter_failure", "cancelled"}
  PROVE  Order'
<1>0. phase[k] # "pending"
  BY OneActive DEF IInv
<1>1. CASE h.kind \in Results
  <2>1. /\ owner' = [owner EXCEPT ![k] = "persisting"]
        /\ phase' = [phase EXCEPT ![k] = "pending"]
        /\ run' = [run EXCEPT ![k] = h]
        /\ UNCHANGED <<row, resolution, pending>>
    BY <1>1 DEF AfterRun
  <2>2. /\ owner'[k] = "persisting" /\ phase'[k] = "pending" /\ run'[k] = h
        /\ \A j \in Attempts : j # k =>
             owner'[j] = owner[j] /\ phase'[j] = phase[j] /\ run'[j] = run[j]
    BY <2>1 DEF IInv, TypeOK
  <2>3. AtWork(k) /\ AtWork(k)' /\ ~ OwnerGone(k) /\ owner'[k] \notin Busy
    BY <2>2 DEF AtWork, OwnerGone, Busy
  <2>4. UNCHANGED <<requested, tasks, stopReq, stopAt, closing>>
    BY DEF RunFrame, stops
  <2>5. owner'[k] \notin {"none", "done", "disconnecting", "settling"} /\ owner[k] # "done"
    BY <2>2 DEF Busy
  <2>6. run'[k].safe
    BY <2>2
  <2> QED BY <2>1, <2>2, <2>3, <2>4, <2>5, <2>6, TaskMovesKeepOrder
<1>2. CASE h.kind \notin Results
  <2>1. /\ owner' = [owner EXCEPT ![k] = "done"]
        /\ run' = [run EXCEPT ![k] = NoRun]
        /\ FinalizeWithoutResult(k, MissingState(k))
        /\ UNCHANGED phase
    BY <1>2 DEF AfterRun, OwnerEnds
  <2>2. /\ owner'[k] = "done" /\ run'[k] = NoRun
        /\ \A j \in Attempts : j # k => owner'[j] = owner[j] /\ run'[j] = run[j]
    BY <2>1 DEF IInv, TypeOK
  <2>3. ~ AtWork(k)'
    BY <1>0, <2>1, <2>2 DEF AtWork, Busy
  <2>4. MissingState(k) \in {"cancelled", "lost"}
    BY DEF MissingState
  <2>5. row[WorkerOf(k)].state = Starting => MissingState(k) = "cancelled"
    BY <1>2 DEF MissingState, Results
  <2>6. UNCHANGED <<requested, tasks, stopReq, stopAt, closeAt, closeTodo, closeWait>>
    BY DEF RunFrame, stops, closing
  <2>7. run'[k].safe
    BY <2>2 DEF NoRun
  <2> QED BY <2>1, <2>2, <2>3, <2>4, <2>5, <2>6, <2>7, FinalizationKeepsOrder
<1> QED BY <1>1, <1>2

\* The runner leaves its try block holding h.
LEMMA EnterDisconnectKeepsOrder ==
  ASSUME IInv, Promise, Order, NEW k \in Attempts, owner[k] \in Busy \ {"created"},
         NEW h \in Run,
         EnterDisconnect(k, h), RunFrame, cancelling' \subseteq cancelling, h.safe,
         h.kind = "cancelled" => k \in stopReq,
         row[WorkerOf(k)].state = Starting => h.kind \in {"adapter_failure", "cancelled"}
  PROVE  Order'
<1>1. CASE h.disconnected
  BY <1>1, AfterRunKeepsOrder DEF EnterDisconnect
<1>2. CASE ~ h.disconnected
  <2>1. /\ owner' = [owner EXCEPT ![k] = "disconnecting"]
        /\ run' = [run EXCEPT ![k] = h]
        /\ UNCHANGED <<row, resolution, pending, phase>>
    BY <1>2 DEF EnterDisconnect
  <2>2. /\ owner'[k] = "disconnecting" /\ run'[k] = h
        /\ \A j \in Attempts : j # k => owner'[j] = owner[j] /\ run'[j] = run[j]
    BY <2>1 DEF IInv, TypeOK
  <2>3. AtWork(k) /\ AtWork(k)' /\ ~ OwnerGone(k)
    BY <2>2 DEF AtWork, OwnerGone, Busy
  <2>4. UNCHANGED <<requested, tasks, stopReq, stopAt, closing>>
    BY DEF RunFrame, stops
  <2>5. owner'[k] \notin {"none", "settling"} /\ owner[k] # "done"
    BY <2>2 DEF Busy
  <2>6. run'[k].safe /\ (run'[k].kind = "cancelled" => k \in stopReq)
    BY <2>2
  <2> QED BY <2>1, <2>2, <2>3, <2>4, <2>5, <2>6, TaskMovesKeepOrder
<1> QED BY <1>1, <1>2

-----------------------------------------------------------------------------
(***************************************************************************)
(* The order is kept by every step.                                        *)
(***************************************************************************)

\* Steps of the runner.
LEMMA RunnerStepsKeepOrder ==
  ASSUME IInv, Promise, Order, OnlyStops, NEW k \in Attempts,
         \/ OwnerFactoryFails(k) \/ OwnerAdapterFails(k)
         \/ \E result \in SdkResult, nested \in BOOLEAN : OwnerResult(k, result, nested)
         \/ \E kind \in {"missing", "eof"} : OwnerStreamEnds(k, kind)
         \/ OwnerSettled(k) \/ OwnerDisconnected(k) \/ OwnerDisconnectFails(k)
  PROVE  Order'
<1>0. /\ run \in [Attempts -> Run] /\ run[k] \in Run /\ run[k].safe
      /\ cancelling' \subseteq cancelling
  BY DEF IInv, TypeOK, Order, StopsAreRequested, OwnerFactoryFails, OwnerAdapterFails,
     OwnerResult, OwnerStreamEnds, OwnerSettled, OwnerDisconnected, OwnerDisconnectFails
<1>a. owner[k] \in Busy => Current(k)
  BY OneActive DEF IInv
<1>b. owner[k] \in {"running", "settling"} => row[WorkerOf(k)].state # Starting
  BY <1>a DEF Promise, StartersHadNoTurn, Busy
<1>c. owner[k] = "disconnecting" =>
        /\ row[WorkerOf(k)].state = Starting => run[k].kind \in {"adapter_failure", "cancelled"}
        /\ run[k].kind = "cancelled" => k \in stopReq
  BY <1>a DEF Promise, StartersHadNoTurn, Busy, Order, StopsAreRequested
<1>d. \A kind \in {"adapter_failure", "missing", "eof"} :
        Holding(k, kind).kind = kind /\ Holding(k, kind).safe
  BY <1>0 DEF Holding, Run
<1>1. CASE OwnerFactoryFails(k)
  BY <1>0, <1>1, <1>d, AfterRunKeepsOrder, RunOperators DEF OwnerFactoryFails, OwnerAt, Busy
<1>2. CASE OwnerAdapterFails(k)
  BY <1>0, <1>2, <1>d, EnterDisconnectKeepsOrder, RunOperators DEF OwnerAdapterFails, OwnerAt, Busy
<1>3. ASSUME NEW result \in SdkResult, NEW nested \in BOOLEAN, OwnerResult(k, result, nested)
      PROVE  Order'
  <2> DEFINE h == HoldingResult(k, result)
  <2>1. /\ owner[k] = "running" /\ RunFrame /\ h \in Run
        /\ row[WorkerOf(k)].state # Starting /\ phase[k] # "pending"
    BY <1>0, <1>3, <1>b, RunOperators, OneActive DEF OwnerResult, OwnerAt, IInv, Busy
  <2>2. h.safe /\ h.kind \in SdkResults
    BY DEF HoldingResult, SdkResult, OnlyStops
  <2>3. h.kind # "cancelled"
    BY <2>2 DEF SdkResults
  <2>4. /\ nested => /\ owner' = [owner EXCEPT ![k] = "settling"]
                     /\ run' = [run EXCEPT ![k] = h]
                     /\ UNCHANGED <<row, resolution, pending, phase>>
        /\ ~ nested => EnterDisconnect(k, h)
    BY <1>3 DEF OwnerResult
  <2> HIDE DEF h
  <2>5. CASE nested
    <3>1. /\ owner'[k] = "settling" /\ run'[k] = h
          /\ \A j \in Attempts : j # k => owner'[j] = owner[j] /\ run'[j] = run[j]
      BY <2>4, <2>5 DEF IInv, TypeOK
    <3>2. AtWork(k) /\ AtWork(k)' /\ ~ OwnerGone(k) /\ owner[k] \in Busy
      BY <2>1, <3>1 DEF AtWork, OwnerGone, Busy
    <3>3. UNCHANGED <<row, requested, resolution, pending, phase, tasks, stopReq, stopAt, closing>>
      BY <2>1, <2>4, <2>5 DEF RunFrame, stops
    <3> QED BY <1>0, <2>1, <2>2, <3>1, <3>2, <3>3, TaskMovesKeepOrder
  <2>6. CASE ~ nested
    <3>1. owner[k] \in Busy \ {"created"}
      BY <2>1 DEF Busy
    <3> QED BY <1>0, <2>1, <2>2, <2>3, <2>4, <2>6, <3>1, EnterDisconnectKeepsOrder
  <2> QED BY <2>5, <2>6
<1>4. ASSUME NEW kind \in {"missing", "eof"}, OwnerStreamEnds(k, kind)
      PROVE  Order'
  BY <1>0, <1>4, <1>b, <1>d, EnterDisconnectKeepsOrder, RunOperators DEF OwnerStreamEnds, OwnerAt, Busy
<1>5. CASE OwnerSettled(k)
  <2>1. run[k].kind # "cancelled" /\ owner[k] = "settling"
    BY <1>5 DEF OwnerSettled, OwnerAt, Order, StopsAreRequested, SdkResults
  <2> QED BY <1>0, <1>5, <1>b, <2>1, EnterDisconnectKeepsOrder DEF OwnerSettled, Busy
<1>6. CASE OwnerDisconnected(k)
  <2> DEFINE h == [run[k] EXCEPT !.disconnected = TRUE]
  <2>1. h.kind = run[k].kind /\ h.safe = run[k].safe
    BY <1>0 DEF Run
  <2>2. h \in Run
    BY <1>0, RunOperators
  <2>3. owner[k] = "disconnecting" /\ AfterRun(k, h) /\ RunFrame
    BY <1>6 DEF OwnerDisconnected, OwnerAt
  <2> HIDE DEF h
  <2> QED BY <1>0, <1>c, <2>1, <2>2, <2>3, AfterRunKeepsOrder DEF Busy
<1>7. CASE OwnerDisconnectFails(k)
  <2> DEFINE h == [run[k] EXCEPT !.kind = IF @ \in SdkResults THEN "failed" ELSE @]
  <2>1. /\ run[k].kind \in {"adapter_failure", "cancelled"} => h.kind = run[k].kind
        /\ h.kind \in {run[k].kind, "failed"} /\ h.safe = run[k].safe
    BY <1>0 DEF Run, SdkResults
  <2>2. h \in Run
    BY <1>0, RunOperators
  <2>3. owner[k] = "disconnecting" /\ AfterRun(k, h) /\ RunFrame
    BY <1>7 DEF OwnerDisconnectFails, OwnerAt
  <2> HIDE DEF h
  <2> QED BY <1>0, <1>c, <2>1, <2>2, <2>3, AfterRunKeepsOrder DEF Busy
<1> QED BY <1>1, <1>2, <1>3, <1>4, <1>5, <1>6, <1>7

\* A cancellation reaches the owner.
LEMMA OwnerCancelledKeepsOrder ==
  ASSUME IInv, Promise, Order, NEW k \in Attempts, OwnerCancelled(k)
  PROVE  Order'
<1> DEFINE h == Holding(k, "cancelled")
<1>0. /\ run \in [Attempts -> Run] /\ run[k] \in Run /\ run[k].safe /\ RunFrame
      /\ k \in cancelling /\ cancelling' \subseteq cancelling
  BY DEF IInv, TypeOK, Order, StopsAreRequested, OwnerCancelled
<1>1. h.kind = "cancelled" /\ h.safe
  BY <1>0 DEF Holding, Run
<1>2. h \in Run
  BY <1>0, RunOperators
<1>3. owner[k] \in Busy => k \in stopReq /\ Current(k)
  BY <1>0, OneActive DEF Order, StopsAreRequested, IInv
<1>4. UNCHANGED <<requested, tasks, stopReq, stopAt, closing>>
  BY <1>0 DEF RunFrame, stops
<1> HIDE DEF h
<1>5. CASE owner[k] = "created" /\ OwnerEnds(k)
           /\ UNCHANGED <<row, resolution, pending, revoked, live, phase>>
  <2>1. /\ owner'[k] = "done" /\ run'[k] = NoRun
        /\ \A j \in Attempts : j # k => owner'[j] = owner[j] /\ run'[j] = run[j]
    BY <1>5 DEF OwnerEnds, IInv, TypeOK
  <2>2. AtWork(k) /\ ~ AtWork(k)' /\ ~ OwnerGone(k)
    BY <1>5, <2>1, OneActive DEF AtWork, OwnerGone, Busy, IInv
  <2>3. stopAt[k] # "idle"
    BY <1>0, <1>5 DEF Order, StopsAreRequested, Busy
  <2> QED
    BY <1>0, <1>4, <1>5, <2>1, <2>2, <2>3, TaskMovesKeepOrder DEF NoRun, OwnerGone, Busy
<1>6. CASE owner[k] \in {"connecting", "running"} /\ EnterDisconnect(k, h)
  BY <1>0, <1>1, <1>2, <1>3, <1>6, EnterDisconnectKeepsOrder DEF Busy
<1>7. CASE owner[k] = "settling" /\ EnterDisconnect(k, run[k])
  <2>1. run[k].kind # "cancelled" /\ row[WorkerOf(k)].state # Starting
    BY <1>3, <1>7 DEF Order, StopsAreRequested, SdkResults, Promise, StartersHadNoTurn, Busy
  <2> QED BY <1>0, <1>7, <2>1, EnterDisconnectKeepsOrder DEF Busy
<1>8. CASE owner[k] = "disconnecting" /\ AfterRun(k, h)
  BY <1>0, <1>1, <1>2, <1>3, <1>8, AfterRunKeepsOrder DEF Busy
<1>9. CASE /\ owner[k] = "persisting"
           /\ UNCHANGED <<row, resolution, pending, revoked, live, phase, run, owner>>
  <2>1. AtWork(k)' = AtWork(k) /\ OwnerGone(k)' = OwnerGone(k)
    BY <1>9 DEF AtWork, OwnerGone
  <2> QED BY <1>0, <1>4, <1>9, <2>1, TaskMovesKeepOrder
<1> QED BY <1>5, <1>6, <1>7, <1>8, <1>9 DEF OwnerCancelled, h

\* The owner's other steps: registering, initialising, ending.
LEMMA OwnerStepsKeepOrder ==
  ASSUME IInv, Order, NEW k \in Attempts,
         \/ OwnerStart(k) \/ OwnerInitialized(k)
         \/ OwnerReturns(k) \/ TaskFinished(k) \/ ResultPhaseFinished(k)
  PROVE  Order'
<1>0. /\ WorkerOf(k) \in Workers /\ row \in [Workers -> Row] /\ run[k].safe
  BY AttemptPair DEF IInv, TypeOK, Order, StopsAreRequested
<1>1. CASE OwnerStart(k)
  <2>1. /\ owner[k] = "created" /\ owner' = [owner EXCEPT ![k] = "connecting"]
        /\ UNCHANGED <<row, requested, resolution, pending, tasks, stopReq, stopAt, closing,
                       phase, run, cancelling>>
    BY <1>1 DEF OwnerStart, OwnerAt, rows, stops
  <2>2. owner'[k] = "connecting" /\ \A j \in Attempts : j # k => owner'[j] = owner[j]
    BY <2>1 DEF IInv, TypeOK
  <2>3. AtWork(k) /\ AtWork(k)' /\ ~ OwnerGone(k) /\ owner[k] \in Busy
    BY <2>1, <2>2 DEF AtWork, OwnerGone, Busy
  <2> QED BY <1>0, <2>1, <2>2, <2>3, TaskMovesKeepOrder
<1>2. CASE OwnerInitialized(k)
  <2> DEFINE w == WorkerOf(k)  x == SetHealth(Move(row[w], Running), "healthy")
  <2>1. /\ owner[k] = "connecting" /\ owner' = [owner EXCEPT ![k] = "running"]
        /\ row' = [row EXCEPT ![w] = x]
        /\ UNCHANGED <<requested, resolution, pending, tasks, stopReq, stopAt, closing,
                       phase, run, cancelling>>
    BY <1>2 DEF OwnerInitialized, OwnerAt, control, stops
  <2>2. x.state = Running /\ x.attempt = row[w].attempt /\ x.health = "healthy"
    BY <1>0 DEF SetHealth, Move, Row
  <2> HIDE DEF x
  <2>3. /\ owner'[k] = "running" /\ \A j \in Attempts : j # k => owner'[j] = owner[j]
        /\ row'[w] = x /\ \A v \in Workers : v # w => row'[v] = row[v]
        /\ row[w].state = Starting
    BY <1>0, <2>1 DEF IInv, TypeOK, TasksAgree, ConnectingIsStarting
  <2>4. \A j \in Attempts : /\ AtWork(j)' = AtWork(j) /\ OwnerGone(j)' = OwnerGone(j)
                            /\ Current(j)' = Current(j)
                            /\ Over(WorkerOf(j)) => Over(WorkerOf(j))'
                            /\ owner'[j] = "done" <=> owner[j] = "done"
    BY <2>1, <2>2, <2>3, StatesDiffer, AttemptPair DEF AtWork, OwnerGone, Current, Over, Busy
  <2>5. Attended'
    BY <2>1, <2>4 DEF Order, Attended
  <2>6. StopsAreRequested'
    BY <2>1, <2>3 DEF Order, StopsAreRequested, Busy
  <2>7. Tracked'
    BY <2>1, <2>4 DEF Order, Tracked
  <2>8. ClosesInOrder'
    BY <2>1, <2>4 DEF Order, ClosesInOrder, closing, IInv, TypeOK
  <2>9. HealthFollowsState'
    BY <2>2, <2>3 DEF Order, HealthFollowsState, Over
  <2> QED BY <2>1, <2>5, <2>6, <2>7, <2>8, <2>9 DEF Order, EveryRequestIsResolved
<1>3. CASE OwnerReturns(k)
  <2>1. /\ owner[k] = "persisting" /\ phase[k] # "pending"
        /\ owner' = [owner EXCEPT ![k] = "done"] /\ run' = [run EXCEPT ![k] = NoRun]
        /\ UNCHANGED <<row, requested, resolution, pending, tasks, stopReq, stopAt, closing,
                       phase, cancelling>>
    BY <1>3 DEF OwnerReturns, OwnerAt, OwnerEnds, rows, control, stops
  <2>2. /\ owner'[k] = "done" /\ run'[k] = NoRun
        /\ \A j \in Attempts : j # k => owner'[j] = owner[j] /\ run'[j] = run[j]
    BY <2>1 DEF IInv, TypeOK
  <2>3. ~ AtWork(k) /\ ~ AtWork(k)' /\ OwnerGone(k)' /\ NoRun.safe
    BY <2>1, <2>2 DEF AtWork, OwnerGone, Busy, NoRun
  <2> QED BY <2>1, <2>2, <2>3, TaskMovesKeepOrder DEF Busy
<1>4. CASE TaskFinished(k)
  <2>1. /\ owner[k] = "done" /\ tasks[WorkerOf(k)] = NumberOf(k)
        /\ tasks' = [tasks EXCEPT ![WorkerOf(k)] = 0]
        /\ UNCHANGED <<row, requested, resolution, pending, owner, stopReq, stopAt, closing,
                       phase, run, cancelling>>
    BY <1>4 DEF TaskFinished, rows, owners, stops
  <2>2. Tracked'
    <3> SUFFICES ASSUME NEW j \in Attempts, Current(j)', ~ OwnerGone(j)'
                 PROVE  tasks'[WorkerOf(j)] = NumberOf(j)
      BY DEF Tracked
    <3>1. Current(j) /\ ~ OwnerGone(j) /\ j # k
      BY <2>1 DEF Current, OwnerGone
    <3>2. tasks[WorkerOf(j)] = NumberOf(j)
      BY <3>1 DEF Order, Tracked
    <3>3. WorkerOf(j) # WorkerOf(k)
      BY <2>1, <3>1, <3>2, AttemptPair
    <3> QED BY <2>1, <3>2, <3>3, AttemptPair DEF IInv, TypeOK
  <2>3. Attended' /\ StopsAreRequested'
    BY <2>1 DEF Order, Attended, StopsAreRequested, Current, Over, AtWork
  <2>4. ClosesInOrder'
    BY <2>1 DEF Order, ClosesInOrder, closing, Current, AtWork
  <2> QED BY <2>1, <2>2, <2>3, <2>4 DEF Order, HealthFollowsState, EveryRequestIsResolved, Over
<1>5. CASE ResultPhaseFinished(k)
  <2>1. /\ phase[k] = "done" /\ phase' = [phase EXCEPT ![k] = "none"]
        /\ UNCHANGED <<row, requested, resolution, pending, tasks, stopReq, stopAt, closing,
                       owner, run, cancelling>>
    BY <1>5 DEF ResultPhaseFinished, rows, control, stops
  <2>2. phase'[k] = "none" /\ \A j \in Attempts : j # k => phase'[j] = phase[j]
    BY <2>1 DEF IInv, TypeOK
  <2>3. AtWork(k)' = AtWork(k) /\ OwnerGone(k)' = OwnerGone(k)
    BY <2>1, <2>2 DEF AtWork, OwnerGone
  <2>4. /\ owner[k] = "disconnecting" /\ run[k].kind = "cancelled" => k \in stopReq
        /\ owner[k] = "settling" => run[k].kind \in SdkResults
    BY DEF Order, StopsAreRequested
  <2> QED BY <1>0, <2>1, <2>2, <2>3, <2>4, TaskMovesKeepOrder
<1> QED BY <1>1, <1>2, <1>3, <1>4, <1>5

\* The result phase, whose result is always recorded.
LEMMA PersistKeepsOrder ==
  ASSUME IInv, Promise, Order, NEW k \in Attempts, PersistAcceptedResult(k)
  PROVE  Order'
<1> DEFINE r == row[WorkerOf(k)]
<1>1. run[k].safe
  BY DEF Order, StopsAreRequested
<1>2. PICK x \in Row :
        /\ row' = [row EXCEPT ![WorkerOf(k)] = x]
        /\ x = Move(ResultRecorded(k), ResultTarget(k)) /\ stopReq' = stopReq \ {k}
  BY <1>1, PersistStep
<1>3. /\ phase[k] = "pending" /\ CompleteLiveAttempt(k) /\ UNCHANGED <<requested, owner, run>>
      /\ phase' = [phase EXCEPT ![k] = "done"]
  BY PersistStep
<1>4. UNCHANGED <<tasks, cancelling, stopAt, closeAt, closeTodo, closeWait>>
  BY DEF PersistAcceptedResult, closing
<1>5. /\ phase'[k] = "done" /\ \A j \in Attempts : j # k => phase'[j] = phase[j]
      /\ owner'[k] = "persisting" /\ Current(k) /\ ~ Over(WorkerOf(k))
  BY <1>3, OneActive DEF IInv, TypeOK, TasksAgree, PhaseHasResult
<1>6. ~ AtWork(k)'
  BY <1>5 DEF AtWork, Busy
<1>7. /\ x.attempt = r.attempt /\ x.state \in Terminal
      /\ x.health = IF Completed(k).state = Starting THEN r.health ELSE "exited"
  BY <1>1, <1>2, <1>3, PersistedOutcome
<1>8. x.health # "healthy"
  <2>1. Completed(k).state = Starting => r.state = Starting
    BY CompletedOutcome, StatesDiffer DEF Promise
  <2>2. r.state = Starting => r.health # "healthy"
    BY AttemptPair, StatesDiffer DEF Order, HealthFollowsState
  <2> QED BY <1>7, <2>1, <2>2
<1> QED BY <1>1, <1>2, <1>3, <1>4, <1>5, <1>6, <1>7, <1>8, EndKeepsOrder

\* A new attempt k, which no close may see.
LEMMA FreshAttemptKeepsOrder ==
  ASSUME IInv, Order, NEW k \in Attempts, ~ Closed,
         row[WorkerOf(k)].state = Absent \/ Over(WorkerOf(k)),
         NumberOf(k) = row[WorkerOf(k)].attempt + 1,
         row' = [row EXCEPT ![WorkerOf(k)] = FreshAttempt(NumberOf(k))],
         owner' = [owner EXCEPT ![k] = "created"],
         tasks' = [tasks EXCEPT ![WorkerOf(k)] = NumberOf(k)],
         UNCHANGED <<requested, resolution, run, cancelling, phase, pending, stops, closing>>
  PROVE  Order'
<1> DEFINE w == WorkerOf(k)  x == FreshAttempt(NumberOf(k))
<1>1. /\ w \in Workers /\ row[w] \in Row /\ row[w].attempt \in Nat
  BY AttemptPair DEF IInv, TypeOK, Row
<1>2. x.attempt = NumberOf(k) /\ x.state = Starting /\ x.health = "unknown"
  BY DEF FreshAttempt
<1> HIDE DEF x
<1>3. /\ row'[w] = x /\ \A v \in Workers : v # w => row'[v] = row[v]
      /\ owner'[k] = "created" /\ \A j \in Attempts : j # k => owner'[j] = owner[j]
      /\ tasks'[w] = NumberOf(k) /\ \A v \in Workers : v # w => tasks'[v] = tasks[v]
  BY <1>1 DEF IInv, TypeOK, x
<1>4. owner[k] = "none" /\ stopAt[k] = "idle" /\ k \notin cancelling
  BY <1>1 DEF IInv, TasksAgree, FutureIsUnused, Order, StopsAreRequested
<1>5. \A j \in Attempts : Current(j)' /\ j # k => WorkerOf(j) # w
  BY <1>2, <1>3, AttemptPair DEF Current
<1>6. Attended'
  <2> SUFFICES ASSUME NEW j \in Attempts, Current(j)'
               PROVE  \/ Over(WorkerOf(j))' \/ AtWork(j)'
                      \/ owner'[j] = "done" /\ stopAt'[j] # "idle"
    BY DEF Attended
  <2>1. CASE j = k
    BY <1>3, <2>1 DEF AtWork, Busy
  <2>2. CASE j # k
    <3>1. row'[WorkerOf(j)] = row[WorkerOf(j)] /\ owner'[j] = owner[j]
      BY <1>3, <1>5, <2>2, AttemptPair
    <3>2. Over(WorkerOf(j)) \/ AtWork(j) \/ (owner[j] = "done" /\ stopAt[j] # "idle")
      BY <3>1 DEF Order, Attended, Current
    <3>3. AtWork(j)' = AtWork(j) /\ Over(WorkerOf(j))' = Over(WorkerOf(j)) /\ stopAt'[j] = stopAt[j]
      BY <3>1 DEF AtWork, Over, stops
    <3> QED BY <3>1, <3>2, <3>3
  <2> QED BY <2>1, <2>2
<1>7. StopsAreRequested'
  BY <1>3, <1>4 DEF Order, StopsAreRequested, stops
<1>8. Tracked'
  <2> SUFFICES ASSUME NEW j \in Attempts, Current(j)', ~ OwnerGone(j)'
               PROVE  tasks'[WorkerOf(j)] = NumberOf(j)
    BY DEF Tracked
  <2>1. CASE j = k
    BY <1>3, <2>1
  <2>2. CASE j # k
    <3>1. WorkerOf(j) # w /\ Current(j) /\ ~ OwnerGone(j)
      BY <1>3, <1>5, <2>2, AttemptPair DEF Current, OwnerGone
    <3> QED BY <1>3, <3>1, AttemptPair DEF Order, Tracked
  <2> QED BY <2>1, <2>2
<1>9. ClosesInOrder'
  BY DEF Order, ClosesInOrder, Closed, closing
<1>10. HealthFollowsState'
  BY <1>2, <1>3, StatesDiffer DEF Order, HealthFollowsState, Over
<1> QED BY <1>6, <1>7, <1>8, <1>9, <1>10 DEF Order, EveryRequestIsResolved

\* stop, from a client or from close: all but the close itself.
LEMMA RequestStopKeepsOrder ==
  ASSUME IInv, Order, NEW k \in Attempts, NEW force \in BOOLEAN,
         RequestStop(k, force), UNCHANGED <<rows, owners, control>>
  PROVE  /\ Attended' /\ StopsAreRequested' /\ Tracked'
         /\ HealthFollowsState' /\ EveryRequestIsResolved'
         /\ stopAt'[k] # "idle"
         /\ \A j \in Attempts : stopAt[j] # "idle" => stopAt'[j] # "idle"
<1>1. /\ stopAt'[k] # "idle"
      /\ \A j \in Attempts : j # k => stopAt'[j] = stopAt[j]
      /\ stopReq \subseteq stopReq'
      /\ stopAt[k] = "idle" => k \in stopReq'
      /\ stopAt[k] # "idle" => stopAt'[k] = stopAt[k]
  BY DEF RequestStop, IInv, TypeOK
<1>2. UNCHANGED <<row, requested, resolution, pending, owner, run, cancelling, phase, tasks>>
  BY DEF rows, owners, control
<1>3. Attended'
  BY <1>1, <1>2 DEF Order, Attended, Current, Over, AtWork
<1>4. StopsAreRequested'
  BY <1>1, <1>2 DEF Order, StopsAreRequested
<1>5. Tracked' /\ HealthFollowsState' /\ EveryRequestIsResolved'
  BY <1>2 DEF Order, Tracked, HealthFollowsState, EveryRequestIsResolved, Current, OwnerGone, Over
<1> QED BY <1>1, <1>3, <1>4, <1>5

\* Nothing that the order speaks of moves.
LEMMA NothingKeepsOrder ==
  ASSUME Order, UNCHANGED <<rows, owners, control, stops, closing>>
  PROVE  Order'
BY DEF Order, Attended, StopsAreRequested, Tracked, ClosesInOrder, HealthFollowsState,
   EveryRequestIsResolved, Current, Over, AtWork, OwnerGone, rows, owners, control, stops, closing

\* The attempt that the row of w shows.
LEMMA CurrentIsAttempt ==
  ASSUME IInv, NEW w \in Workers, row[w].attempt > 0 \/ row[w].state # Absent
  PROVE  LET k == <<w, row[w].attempt>> IN
         k \in Attempts /\ WorkerOf(k) = w /\ NumberOf(k) = row[w].attempt /\ Current(k)
<1>1. row[w].attempt \in Nat /\ row[w].attempt <= MaxAttempts
  BY DEF IInv, TypeOK, Row, Controls, RowsAreNumbered
<1>2. row[w].attempt # 0
  BY <1>1 DEF IInv, Controls, RowsAreNumbered
<1> QED BY <1>1, <1>2, MaxAttemptsAssumption DEF Attempts, WorkerOf, NumberOf, Current

\* Steps of clients.
LEMMA ClientStepsKeepOrder ==
  ASSUME IInv, Order, NEW w \in Workers, ClientStep(w)
  PROVE  Order'
<1>1. CASE SpawnCommit(w)
  <2> DEFINE k == <<w, 1>>
  <2>1. k \in Attempts /\ WorkerOf(k) = w /\ NumberOf(k) = 1
    BY MaxAttemptsAssumption DEF Attempts, WorkerOf, NumberOf
  <2>2. row[w].state = Absent /\ row[w].attempt = 0 /\ ~ Closed
    BY <1>1 DEF SpawnCommit, PreflightPassed, IInv, TasksAgree, NewcomersAreAbsent,
       Controls, RowsAreNumbered
  <2>3. /\ row' = [row EXCEPT ![w] = FreshAttempt(1)]
        /\ owner' = [owner EXCEPT ![k] = "created"]
        /\ tasks' = [tasks EXCEPT ![w] = 1]
        /\ UNCHANGED <<requested, resolution, run, cancelling, phase, pending, stops, closing>>
    BY <1>1 DEF SpawnCommit
  <2>4. NumberOf(k) = row[WorkerOf(k)].attempt + 1
    BY <2>1, <2>2
  <2> HIDE DEF k
  <2> QED BY <2>1, <2>2, <2>3, <2>4, FreshAttemptKeepsOrder
<1>2. CASE Resume(w)
  <2> DEFINE n == row[w].attempt + 1  k == <<w, n>>
  <2>1. row[w].attempt \in Nat
    BY DEF IInv, TypeOK, Row
  <2>2. k \in Attempts /\ WorkerOf(k) = w /\ NumberOf(k) = n
    BY <1>2, <2>1, MaxAttemptsAssumption DEF Resume, Attempts, WorkerOf, NumberOf
  <2>3. Over(w) /\ ~ Closed
    BY <1>2 DEF Resume, MayResume, Over, Resumable, Terminal
  <2>4. /\ row' = [row EXCEPT ![w] = FreshAttempt(n)]
        /\ owner' = [owner EXCEPT ![k] = "created"]
        /\ tasks' = [tasks EXCEPT ![w] = n]
        /\ UNCHANGED <<requested, resolution, run, cancelling, phase, pending, stops, closing>>
    BY <1>2 DEF Resume
  <2> HIDE DEF k
  <2> QED BY <2>2, <2>3, <2>4, FreshAttemptKeepsOrder
<1>3. CASE SpawnBegin(w) \/ SpawnRefused(w)
  BY <1>3, NothingKeepsOrder DEF SpawnBegin, SpawnRefused
<1>4. ASSUME NEW force \in BOOLEAN, Stop(w, force)
      PROVE  Order'
  <2> DEFINE k == <<w, row[w].attempt>>
  <2>1. k \in Attempts
    BY <1>4, CurrentIsAttempt DEF Stop, CanStop
  <2>2. RequestStop(k, force) /\ UNCHANGED <<rows, owners, control, closing>>
    BY <1>4 DEF Stop
  <2> HIDE DEF k
  <2>3. /\ Attended' /\ StopsAreRequested' /\ Tracked'
        /\ HealthFollowsState' /\ EveryRequestIsResolved'
        /\ \A j \in Attempts : stopAt[j] # "idle" => stopAt'[j] # "idle"
    BY <2>1, <2>2, RequestStopKeepsOrder
  <2>4. ClosesInOrder'
    BY <2>2, <2>3 DEF Order, ClosesInOrder, closing, rows, owners, Current, AtWork, IInv, TypeOK
  <2> QED BY <2>3, <2>4 DEF Order
<1> QED BY <1>1, <1>2, <1>3, <1>4 DEF ClientStep

\* Steps of approvals: a request is shown, answered or refused with its attempt.
LEMMA ApprovalStepsKeepOrder ==
  ASSUME IInv, Order, OnlyStops, Promise, NEW r \in Requests, ApprovalStep(r)
  PROVE  Order'
<1>a. ASSUME NEW w \in Workers, NEW x, row' = [row EXCEPT ![w] = x],
             x.attempt = row[w].attempt, x.health = row[w].health,
             row[w].state \in {Running, RequiresAction}, x.state \in {Running, RequiresAction},
             UNCHANGED <<owners, tasks, stops, closing>>, EveryRequestIsResolved'
      PROVE  Order'
  <2>1. /\ row'[w] = x /\ \A v \in Workers : v # w => row'[v] = row[v]
        /\ \A v \in Workers : Over(v)' = Over(v) /\ row'[v].attempt = row[v].attempt
    BY <1>a, StatesDiffer DEF IInv, TypeOK, Over
  <2>2. \A j \in Attempts : /\ Current(j)' = Current(j) /\ Over(WorkerOf(j))' = Over(WorkerOf(j))
                            /\ AtWork(j)' = AtWork(j) /\ OwnerGone(j)' = OwnerGone(j)
    BY <1>a, <2>1, AttemptPair DEF Current, Over, AtWork, OwnerGone, owners
  <2>3. Attended' /\ Tracked'
    BY <1>a, <2>2 DEF Order, Attended, Tracked, owners, stops
  <2>4. StopsAreRequested'
    BY <1>a DEF Order, StopsAreRequested, owners, stops
  <2>5. ClosesInOrder'
    BY <1>a, <2>2 DEF Order, ClosesInOrder, closing, stops, IInv, TypeOK
  <2>6. HealthFollowsState'
    BY <1>a, <2>1 DEF Order, HealthFollowsState
  <2> QED BY <1>a, <2>3, <2>4, <2>5, <2>6 DEF Order
<1>1. ASSUME NEW k \in Attempts, RequestApproval(k, r)
      PROVE  Order'
  <2> DEFINE w == WorkerOf(k)  x == Move(row[w], RequiresAction)
  <2>1. /\ requested' = [requested EXCEPT ![r] = k] /\ pending' = pending \cup {r}
        /\ row' = [row EXCEPT ![w] = x]
        /\ row[w].state \in {Running, RequiresAction}
        /\ UNCHANGED <<resolution, owners, tasks, stops, closing>>
    BY <1>1 DEF RequestApproval
  <2>2. /\ w \in Workers /\ x.state = RequiresAction /\ x.attempt = row[w].attempt
        /\ x.health = row[w].health
    BY AttemptPair DEF IInv, TypeOK, Move, Row
  <2>3. EveryRequestIsResolved'
    BY <2>1 DEF Order, EveryRequestIsResolved, IInv, TypeOK
  <2> HIDE DEF x, w
  <2> QED BY <1>a, <2>1, <2>2, <2>3
<1>2. CASE Respond(r)
  <2> DEFINE k == requested[r]  w == WorkerOf(k)
             x == IF LastPending(r) THEN Move(row[w], Running) ELSE row[w]
  <2>1. /\ k \in Attempts /\ row[w].state = RequiresAction
        /\ pending' = pending \ {r} /\ resolution' = [resolution EXCEPT ![r] = "responded"]
        /\ row' = [row EXCEPT ![w] = x]
        /\ UNCHANGED <<requested, owners, tasks, stops, closing>>
    BY <1>2 DEF Respond, MayAnswer, IInv, Controls, PendingIsLive
  <2>2. /\ w \in Workers /\ x.state \in {Running, RequiresAction}
        /\ x.attempt = row[w].attempt /\ x.health = row[w].health
    BY <2>1, AttemptPair DEF IInv, TypeOK, Move, Row
  <2>3. EveryRequestIsResolved'
    BY <2>1 DEF Order, EveryRequestIsResolved, IInv, TypeOK
  <2> HIDE DEF x, w
  <2> QED BY <1>a, <2>1, <2>2, <2>3
<1>3. CASE CallbackCancelled(r) \/ CallbackCleanup(r)
  BY <1>3 DEF CallbackCancelled, CallbackCleanup, OnlyStops, Promise
<1> QED BY <1>1, <1>2, <1>3 DEF ApprovalStep

\* A stop moves on, cancels the owner at most, and is not at its end.
LEMMA StopMovesKeepOrder ==
  ASSUME IInv, Order, NEW k \in Attempts, NEW from, NEW to, from # "idle", to # "idle",
         StopMoves(k, from, to), UNCHANGED cancelling \/ (~ OwnerGone(k) /\ CancelOwner(k)),
         \A j \in Attempts : run'[j].kind = run[j].kind /\ run'[j].safe = run[j].safe,
         StopFrame
  PROVE  Order'
<1>1. /\ stopAt[k] # "idle" /\ stopAt'[k] # "idle"
      /\ \A j \in Attempts : j # k => stopAt'[j] = stopAt[j]
  BY DEF StopMoves, IInv, TypeOK
<1>2. UNCHANGED <<row, requested, resolution, pending, owner, phase, tasks, stopReq, closing>>
  BY DEF StopFrame, rows, control
<1>3. cancelling' \subseteq cancelling \cup {k} /\ (OwnerGone(k) => UNCHANGED cancelling)
  BY DEF CancelOwner
<1>4. Attended'
  BY <1>1, <1>2 DEF Order, Attended, Current, Over, AtWork
<1>5. StopsAreRequested'
  BY <1>1, <1>2, <1>3 DEF Order, StopsAreRequested, OwnerGone
<1>6. ClosesInOrder'
  <2>1. closeWait \in Attempts \cup {NoAttempt}
    BY DEF IInv, TypeOK
  <2> QED BY <1>1, <1>2, <2>1 DEF Order, ClosesInOrder, Current, AtWork, closing
<1>7. Tracked' /\ HealthFollowsState' /\ EveryRequestIsResolved'
  BY <1>2 DEF Order, Tracked, HealthFollowsState, EveryRequestIsResolved, Current, OwnerGone, Over
<1> QED BY <1>4, <1>5, <1>6, <1>7 DEF Order

\* Steps of a stop operation.
LEMMA StopStepsKeepOrder ==
  ASSUME IInv, Promise, Order, NEW k \in Attempts, StopStep(k)
  PROVE  Order'
<1>0. run \in [Attempts -> Run]
  BY DEF IInv, TypeOK
<1>a. ASSUME NEW from, from # "idle", JoinOrCancel(k, from), StopFrame,
             \A j \in Attempts : run'[j].kind = run[j].kind /\ run'[j].safe = run[j].safe
      PROVE  Order'
  BY <1>a, StopMovesKeepOrder DEF JoinOrCancel
<1>b. ASSUME NEW from, from # "idle", NEW known, StopChoose(k, from, known),
             UNCHANGED run, StopFrame
      PROVE  Order'
  BY <1>a, <1>b, StopMovesKeepOrder DEF StopChoose
<1>1. CASE StopBegin(k)
  BY <1>1, <1>b, StopMovesKeepOrder DEF StopBegin
<1>2. CASE StopYield(k)
  BY <1>2, <1>b DEF StopYield
<1>3. CASE StopGrace(k)
  BY <1>3, StopMovesKeepOrder DEF StopGrace
<1>4. CASE StopDisconnect(k)
  <2>1. \A j \in Attempts : run'[j].kind = run[j].kind /\ run'[j].safe = run[j].safe
    <3>1. CASE UNCHANGED run
      BY <3>1
    <3>2. CASE run' = [run EXCEPT ![k].disconnected = TRUE]
      <4>1. run' = [run EXCEPT ![k] = [run[k] EXCEPT !.disconnected = TRUE]]
        BY <3>2
      <4>2. /\ [run[k] EXCEPT !.disconnected = TRUE].kind = run[k].kind
            /\ [run[k] EXCEPT !.disconnected = TRUE].safe = run[k].safe
        BY <1>0 DEF Run
      <4> QED BY <1>0, <4>1, <4>2
    <3> QED BY <1>4, <3>1, <3>2 DEF StopDisconnect
  <2> QED BY <1>4, <1>a, <2>1 DEF StopDisconnect
<1>5. CASE StopCancelOwner(k)
  BY <1>5, StopMovesKeepOrder DEF StopCancelOwner
<1>6. CASE StopGather(k)
  BY <1>6, StopMovesKeepOrder DEF StopGather
<1>7. CASE StopJoin(k)
  BY <1>7, StopMovesKeepOrder DEF StopJoin
<1>8. CASE StopFinal(k)
  <2>1. /\ FinalizeWithoutResult(k, "cancelled")
        /\ stopAt[k] = "final" /\ stopAt' = [stopAt EXCEPT ![k] = "idle"]
        /\ UNCHANGED <<requested, preflight, owners, tasks, closeTodo, closeWait>>
        /\ stopReq \subseteq stopReq' \cup {k}
        /\ ~ FinalizeRaises(k, "cancelled") => UNCHANGED closeAt
    BY <1>8 DEF StopFinal, StopMoves
  <2>2. \A j \in Attempts : j # k => stopAt'[j] = stopAt[j]
    BY <2>1
  <2>3. UNCHANGED <<owner, run, cancelling, phase>> /\ ~ AtWork(k)'
    BY <2>1 DEF owners, AtWork, Busy, IInv, TasksAgree, FinalStopHasNoOwner, PhaseHasResult,
       OwnerGone
  <2>4. run'[k].safe
    BY <2>3 DEF Order, StopsAreRequested
  <2> QED BY <2>1, <2>2, <2>3, <2>4, FinalizationKeepsOrder
<1> QED BY <1>1, <1>2, <1>3, <1>4, <1>5, <1>6, <1>7, <1>8 DEF StopStep

\* Steps of close: it passes over no worker whose attempt is at work.
LEMMA CloseStepsKeepOrder ==
  ASSUME IInv, Order, CloseStep
  PROVE  Order'
<1>0. \A j \in Attempts : AtWork(j) =>
        /\ ~ OwnerGone(j) /\ Current(j) /\ ~ Over(WorkerOf(j))
        /\ tasks[WorkerOf(j)] = NumberOf(j) /\ NumberOf(j) \in Nat \ {0}
        /\ WorkerOf(j) \in Workers
  BY WorkHasOwner, AttemptPair DEF Order, Tracked
<1>1. CASE CloseBegin \/ CloseStopReturns \/ CloseDrain \/ CloseEnd
  <2>1. /\ UNCHANGED <<row, requested, resolution, owner, run, phase, pending, stopReq, stopAt>>
        /\ \A j \in Attempts : /\ AtWork(j)' = AtWork(j) /\ Current(j)' = Current(j)
                               /\ OwnerGone(j)' = OwnerGone(j)
    BY <1>1 DEF CloseBegin, CloseStopReturns, CloseDrain, CloseEnd, rows, owners, control, stops,
       AtWork, Current, OwnerGone
  <2>2. Attended' /\ HealthFollowsState' /\ EveryRequestIsResolved'
    BY <2>1 DEF Order, Attended, HealthFollowsState, EveryRequestIsResolved, Over
  <2>3. CASE CloseBegin
    <3>1. /\ closeAt = "open" /\ closeAt' = "stopping" /\ closeTodo' = {w \in Workers : tasks[w] # 0}
          /\ UNCHANGED <<cancelling, tasks, closeWait>>
      BY <2>3 DEF CloseBegin, owners, control
    <3>2. ClosesInOrder'
      BY <1>0, <2>1, <3>1 DEF Order, ClosesInOrder
    <3>3. StopsAreRequested' /\ Tracked'
      BY <2>1, <3>1 DEF Order, StopsAreRequested, Tracked
    <3> QED BY <2>2, <3>2, <3>3 DEF Order
  <2>4. CASE CloseStopReturns
    <3> DEFINE c == closeWait
    <3>1. /\ closeAt = "stopping" /\ c # NoAttempt /\ stopAt[c] = "idle"
          /\ closeTodo' = closeTodo \ {WorkerOf(c)} /\ closeWait' = NoAttempt
          /\ UNCHANGED <<cancelling, tasks, closeAt>>
      BY <2>4 DEF CloseStopReturns, owners, control
    <3>2. c \in Attempts /\ Current(c) /\ ~ AtWork(c)
      BY <3>1 DEF Order, ClosesInOrder, IInv, TypeOK
    <3>3. \A j \in Attempts : AtWork(j) => WorkerOf(j) # WorkerOf(c)
      BY <1>0, <3>2, AttemptPair DEF Current
    <3>4. ClosesInOrder'
      BY <2>1, <3>1, <3>3 DEF Order, ClosesInOrder
    <3>5. StopsAreRequested' /\ Tracked'
      BY <2>1, <3>1 DEF Order, StopsAreRequested, Tracked
    <3> QED BY <2>2, <3>4, <3>5 DEF Order
  <2>5. CASE CloseDrain
    <3>1. /\ closeAt = "stopping" /\ closeTodo = {} /\ closeAt' = "draining"
          /\ \A k \in Attempts : k \in cancelling' => k \in cancelling \/ ~ OwnerGone(k)
          /\ UNCHANGED tasks
      BY <2>5 DEF CloseDrain, control
    <3>2. \A j \in Attempts : ~ AtWork(j)
      BY <3>1 DEF Order, ClosesInOrder
    <3>3. ClosesInOrder' /\ Tracked'
      BY <2>1, <3>1, <3>2 DEF Order, ClosesInOrder, Tracked
    <3>4. \A j \in Attempts : owner[j] \notin Busy
      BY <3>2 DEF AtWork
    <3>5. StopsAreRequested'
      BY <2>1, <3>1, <3>4 DEF Order, StopsAreRequested, OwnerGone
    <3> QED BY <2>2, <3>3, <3>5 DEF Order
  <2>6. CASE CloseEnd
    <3>1. /\ closeAt = "draining" /\ closeAt' = "closed"
          /\ \A k \in Attempts : tasks[WorkerOf(k)] = NumberOf(k) => OwnerGone(k)
          /\ UNCHANGED cancelling
      BY <2>6 DEF CloseEnd, owners
    <3>2. Tracked'
      BY <2>1, <3>1 DEF Order, Tracked
    <3>3. ClosesInOrder'
      BY <2>1, <3>1 DEF Order, ClosesInOrder
    <3>4. StopsAreRequested'
      BY <2>1, <3>1 DEF Order, StopsAreRequested
    <3> QED BY <2>2, <3>2, <3>3, <3>4 DEF Order
  <2> QED BY <1>1, <2>3, <2>4, <2>5, <2>6
<1>2. ASSUME NEW w \in Workers, CloseStop(w)
      PROVE  Order'
  <2>0. /\ closeAt = "stopping" /\ closeWait = NoAttempt
        /\ UNCHANGED <<rows, owners, control, closeAt>>
        /\ \A j \in Attempts : AtWork(j)' = AtWork(j) /\ Current(j)' = Current(j)
    BY <1>2 DEF CloseStop, rows, owners, AtWork, Current
  <2>1. CASE CanStop(w)
    <3> DEFINE k == <<w, row[w].attempt>>
    <3>1. k \in Attempts /\ Current(k)
      BY <2>1, CurrentIsAttempt DEF CanStop
    <3>2. RequestStop(k, TRUE) /\ closeWait' = k /\ UNCHANGED closeTodo
      BY <1>2, <2>1 DEF CloseStop
    <3> HIDE DEF k
    <3>3. /\ Attended' /\ StopsAreRequested' /\ Tracked'
          /\ HealthFollowsState' /\ EveryRequestIsResolved' /\ stopAt'[k] # "idle"
      BY <2>0, <3>1, <3>2, RequestStopKeepsOrder
    <3>4. ClosesInOrder'
      BY <2>0, <3>1, <3>2, <3>3 DEF Order, ClosesInOrder
    <3> QED BY <3>3, <3>4 DEF Order
  <2>2. CASE ~ CanStop(w)
    <3>1. closeTodo' = closeTodo \ {w} /\ UNCHANGED <<stops, closeWait>>
      BY <1>2, <2>2 DEF CloseStop
    <3>2. \A j \in Attempts : AtWork(j) => WorkerOf(j) # w
      BY <1>0, <2>2 DEF CanStop, Current
    <3>3. ClosesInOrder'
      BY <2>0, <3>1, <3>2 DEF Order, ClosesInOrder
    <3>4. Attended' /\ StopsAreRequested' /\ Tracked' /\ HealthFollowsState' /\ EveryRequestIsResolved'
      BY <2>0, <3>1 DEF Order, Attended, StopsAreRequested, Tracked, HealthFollowsState,
         EveryRequestIsResolved, Current, Over, AtWork, OwnerGone, rows, owners, control, stops
    <3> QED BY <3>3, <3>4 DEF Order
  <2> QED BY <2>1, <2>2
<1> QED BY <1>1, <1>2 DEF CloseStep

\* After a close no request is pending and no transport registered.
LEMMA RestLeavesNoControl ==
  ASSUME IInv, Promise, \A j \in Attempts : ~ AtWork(j)
  PROVE  pending = {} /\ \A w \in Workers : live[w] = 0
<1>1. \A j \in Attempts : ~ Registered(j)
  BY DEF Promise, RegisteredIsOwned
<1>2. pending = {}
  BY <1>1 DEF IInv, Controls, PendingIsLive
<1>3. ASSUME NEW w \in Workers, live[w] # 0
      PROVE  FALSE
  <2>1. live[w] = row[w].attempt /\ live[w] \in 0 .. MaxAttempts
    BY <1>3 DEF IInv, TypeOK, Controls, LiveIsCurrent
  <2>2. row[w].attempt > 0
    BY <1>3, <2>1, MaxAttemptsAssumption
  <2>3. Registered(<<w, row[w].attempt>>) /\ <<w, row[w].attempt>> \in Attempts
    BY <2>1, <2>2, CurrentIsAttempt DEF Registered
  <2> QED BY <1>1, <2>3
<1> QED BY <1>2, <1>3

\* The next process finds nobody at work, and no request to answer.
LEMMA RestartKeepsOrder ==
  ASSUME IInv, Promise, Order, Restart
  PROVE  Order'
<1>1. closeAt = "closed" /\ \A j \in Attempts : ~ AtWork(j)
  BY DEF Order, ClosesInOrder, Restart
<1>2. pending = {}
  BY <1>1, RestLeavesNoControl
<1>3. /\ \A k \in Attempts : /\ owner'[k] = "none" /\ run'[k] = NoRun /\ stopAt'[k] = "idle"
                             /\ phase'[k] = "none"
      /\ cancelling' = {} /\ closeAt' = "open" /\ closeWait' = NoAttempt /\ pending' = {}
      /\ UNCHANGED <<row, requested, resolution>>
  BY DEF Restart, FreshProcess, rows
<1>4. \A k \in Attempts : Current(k) => Over(WorkerOf(k))
  BY <1>1 DEF Order, Attended, Restart, OwnerGone
<1>5. Attended'
  BY <1>3, <1>4 DEF Attended, Current, Over
<1>6. StopsAreRequested'
  BY <1>3 DEF StopsAreRequested, NoRun, Busy
<1>7. Tracked' /\ ClosesInOrder'
  BY <1>3 DEF Tracked, ClosesInOrder, OwnerGone
<1>8. HealthFollowsState' /\ EveryRequestIsResolved'
  BY <1>2, <1>3 DEF Order, HealthFollowsState, EveryRequestIsResolved, Over
<1> QED BY <1>5, <1>6, <1>7, <1>8 DEF Order

-----------------------------------------------------------------------------
(***************************************************************************)
(* Nobody is left behind.                                                  *)
(***************************************************************************)
LEMMA InitOrder == Init => Order
<1> SUFFICES ASSUME Init PROVE Order
  OBVIOUS
<1>1. \A k \in Attempts : ~ Current(k)
  BY AttemptPair DEF Init, NoRow, Current
<1>2. Attended /\ Tracked
  BY <1>1 DEF Attended, Tracked
<1>3. StopsAreRequested
  BY DEF Init, StopsAreRequested, Busy, NoRun
<1>4. ClosesInOrder /\ EveryRequestIsResolved
  BY DEF Init, ClosesInOrder, EveryRequestIsResolved
<1>5. HealthFollowsState
  BY DEF Init, HealthFollowsState, NoRow, Absent, Running, RequiresAction
<1> QED BY <1>2, <1>3, <1>4, <1>5 DEF Order

LEMMA NextOrder ==
  ASSUME OnlyStops, IInv, Promise, Order, [Next]_vars
  PROVE  Order'
<1>1. ASSUME NEW w \in Workers, ClientStep(w) PROVE Order'
  BY <1>1, ClientStepsKeepOrder
<1>2. ASSUME NEW k \in Attempts, OwnerStep(k) PROVE Order'
  BY <1>2, RunnerStepsKeepOrder, OwnerCancelledKeepsOrder, OwnerStepsKeepOrder,
     PersistKeepsOrder DEF OwnerStep
<1>3. ASSUME NEW k \in Attempts, StopStep(k) PROVE Order'
  BY <1>3, StopStepsKeepOrder
<1>4. ASSUME NEW r \in Requests, ApprovalStep(r) PROVE Order'
  BY <1>4, ApprovalStepsKeepOrder
<1>5. CASE CloseStep
  BY <1>5, CloseStepsKeepOrder
<1>6. CASE Restart
  BY <1>6, RestartKeepsOrder
<1>7. CASE Crash
  BY <1>7 DEF Crash, OnlyStops
<1>8. CASE UNCHANGED vars
  BY <1>8, NothingKeepsOrder DEF vars
<1> QED BY <1>1, <1>2, <1>3, <1>4, <1>5, <1>6, <1>7, <1>8 DEF Next

\* When only stops and closes happen, stops, cancellations and the close stay in
\* order with the owners, in any interleaving.
THEOREM OrderIsKept ==
  ASSUME OnlyStops
  PROVE  Spec => []Order
<1>1. Spec => []Promise
  BY PromiseIsKept DEF OnlyStops
<1>2. IInv /\ Promise /\ Order /\ [Next]_vars => Order'
  BY NextOrder
<1> QED BY <1>1, <1>2, InitOrder, Invariant, PTL DEF Spec

\* When only stops and closes happen, a worker that is not over is controlled by
\* its owner, its result phase or a stop, and its health is that of its state.
THEOREM RowsStayTrue ==
  ASSUME OnlyStops
  PROVE  Spec => []RowsAreTrue
<1>1. ASSUME IInv, Order PROVE RowsAreTrue
  <2>1. ASSUME NEW w \in Workers, row[w].state # Absent
        PROVE  Over(w) \/ Controlled(w)
    <3> DEFINE k == <<w, row[w].attempt>>
    <3>1. k \in Attempts /\ WorkerOf(k) = w /\ Current(k)
      BY <1>1, <2>1, CurrentIsAttempt
    <3> HIDE DEF k
    <3>2. Over(w) \/ AtWork(k) \/ stopAt[k] # "idle"
      BY <1>1, <3>1 DEF Order, Attended
    <3>3. AtWork(k) => ~ OwnerGone(k)
      BY <1>1, <3>1, WorkHasOwner
    <3> QED BY <3>2, <3>3 DEF Controlled, CurrentAttempt, k
  <2> QED BY <1>1, <2>1 DEF RowsAreTrue, ControlledOrOver, Order
<1> QED BY <1>1, Invariant, OrderIsKept, PTL

\* When only stops and closes happen, every request that can no longer be answered
\* is resolved in the log, and a close leaves no control and no attempt behind.
THEOREM NothingStaysBehind ==
  ASSUME OnlyStops
  PROVE  Spec => []NothingIsLeft
<1>1. Spec => []Promise
  BY PromiseIsKept DEF OnlyStops
<1>2. ASSUME IInv, Promise, Order PROVE NothingIsLeft
  <2>1. ASSUME closeAt = "closed"
        PROVE  /\ \A k \in Attempts :
                    Current(k) => Over(WorkerOf(k)) \/ (OwnerGone(k) /\ stopAt[k] # "idle")
               /\ \A w \in Workers : live[w] = 0
               /\ pending = {}
    <3>1. \A j \in Attempts : ~ AtWork(j)
      BY <1>2, <2>1 DEF Order, ClosesInOrder
    <3>2. pending = {} /\ \A w \in Workers : live[w] = 0
      BY <1>2, <3>1, RestLeavesNoControl
    <3> QED BY <1>2, <3>1, <3>2 DEF Order, Attended, OwnerGone
  <2> QED BY <1>2, <2>1 DEF NothingIsLeft, CloseLeavesNothing, Order
<1> QED BY <1>1, <1>2, Invariant, OrderIsKept, PTL

-----------------------------------------------------------------------------
(***************************************************************************)
(* A stop that comes before the result wins.                               *)
(***************************************************************************)

\* Where an owner is before its runner holds anything.
Early == {"none", "created", "connecting", "running"}

\* Only a result, hence a later place, can precede a stop.
EarlyHasNoResult == \A k \in Attempts : owner[k] \in Early => ~ run[k].preceded

\* What a step does to the work of k: no result gets ahead of a stop that was
\* already requested, and work that goes on stays stopped.
WorkOrder(k) ==
  /\ owner'[k] \in Early /\ run'[k].preceded => owner[k] \in Early /\ run[k].preceded
  /\ AtWork(k)' =>
       \/ AtWork(k) /\ (k \in stopReq => k \in stopReq' /\ (run'[k].preceded => run[k].preceded))
       \/ NumberOf(k) > row[WorkerOf(k)].attempt

\* Nothing happens to an attempt whose tasks stand still.
LEMMA StillIsOrdered ==
  ASSUME NEW k \in Attempts, owner'[k] = owner[k], run'[k] = run[k], phase'[k] = phase[k],
         AtWork(k) /\ k \in stopReq => k \in stopReq'
  PROVE  WorkOrder(k)
BY DEF WorkOrder, AtWork

\* A runner on its way out with h.
LEMMA RunnerIsOrdered ==
  ASSUME IInv, NEW k \in Attempts, NEW j \in Attempts, NEW h \in Run, owner[j] \in Busy,
         j \in stopReq /\ h.preceded => run[j].preceded,
         EnterDisconnect(j, h) \/ AfterRun(j, h), UNCHANGED stopReq
  PROVE  WorkOrder(k)
<1>0. /\ owner \in [Attempts -> OwnerPlaces] /\ run \in [Attempts -> Run]
      /\ phase \in [Attempts -> {"none", "pending", "done"}]
  BY DEF IInv, TypeOK
<1>1. /\ \/ owner'[j] \in {"disconnecting", "persisting"} /\ run'[j] = h
         \/ owner'[j] = "done" /\ phase'[j] = phase[j]
      /\ j # k => owner'[k] = owner[k] /\ run'[k] = run[k] /\ phase'[k] = phase[k]
  BY <1>0 DEF EnterDisconnect, AfterRun, OwnerEnds
<1>2. AtWork(j) /\ phase[j] # "pending"
  BY OneActive DEF IInv, AtWork
<1>3. CASE j # k
  BY <1>1, <1>3, StillIsOrdered
<1>4. CASE j = k
  BY <1>1, <1>2, <1>4 DEF WorkOrder, AtWork, Early, Busy
<1> QED BY <1>3, <1>4

\* What a runner holds precedes a stop only if it did, or if no stop was asked.
LEMMA HoldingPrecedes ==
  ASSUME IInv, NEW k \in Attempts
  PROVE  /\ \A kind \in {"adapter_failure", "missing", "eof", "cancelled"} :
              Holding(k, kind) \in Run /\ (Holding(k, kind).preceded => run[k].preceded)
         /\ \A result \in SdkResult :
              HoldingResult(k, result) \in Run /\ HoldingResult(k, result).preceded = (k \notin stopReq)
         /\ LET h == [run[k] EXCEPT !.disconnected = TRUE] IN
            h \in Run /\ h.preceded = run[k].preceded
         /\ LET h == [run[k] EXCEPT !.kind = IF @ \in SdkResults THEN "failed" ELSE @] IN
            h \in Run /\ h.preceded = run[k].preceded
<1>1. run[k] \in Run /\ run \in [Attempts -> Run]
  BY DEF IInv, TypeOK
<1>2. \A kind \in {"adapter_failure", "missing", "eof", "cancelled"} :
        Holding(k, kind).preceded = run[k].preceded
  BY <1>1 DEF Holding, Run
<1>3. \A result \in SdkResult : HoldingResult(k, result).preceded = (k \notin stopReq)
  BY DEF HoldingResult
<1>4. /\ [run[k] EXCEPT !.disconnected = TRUE].preceded = run[k].preceded
      /\ [run[k] EXCEPT !.kind = IF @ \in SdkResults THEN "failed" ELSE @].preceded = run[k].preceded
  BY <1>1 DEF Run
<1> QED BY <1>1, <1>2, <1>3, <1>4, RunOperators

\* The steps of owners and of result phases.
LEMMA OwnerStepsAreOrdered ==
  ASSUME IInv, NEW k \in Attempts, NEW j \in Attempts, OwnerStep(j)
  PROVE  WorkOrder(k)
<1>0. /\ owner \in [Attempts -> OwnerPlaces] /\ run \in [Attempts -> Run]
      /\ phase \in [Attempts -> {"none", "pending", "done"}] /\ run[j] \in Run
  BY DEF IInv, TypeOK
<1>1. CASE OwnerFactoryFails(j)
  <2>1. /\ owner[j] \in Busy /\ AfterRun(j, Holding(j, "adapter_failure")) /\ UNCHANGED stopReq
    BY <1>1 DEF OwnerFactoryFails, OwnerAt, Busy, RunFrame, stops
  <2> QED BY <2>1, HoldingPrecedes, RunnerIsOrdered
<1>2. CASE OwnerAdapterFails(j)
  <2>1. /\ owner[j] \in Busy /\ EnterDisconnect(j, Holding(j, "adapter_failure"))
        /\ UNCHANGED stopReq
    BY <1>2 DEF OwnerAdapterFails, OwnerAt, Busy, RunFrame, stops
  <2> QED BY <2>1, HoldingPrecedes, RunnerIsOrdered
<1>3. ASSUME NEW result \in SdkResult, NEW nested \in BOOLEAN, OwnerResult(j, result, nested)
      PROVE  WorkOrder(k)
  <2> DEFINE h == HoldingResult(j, result)
  <2>1. h \in Run /\ h.preceded = (j \notin stopReq)
    BY HoldingPrecedes
  <2>2. owner[j] = "running" /\ UNCHANGED stopReq
    BY <1>3 DEF OwnerResult, OwnerAt, RunFrame, stops
  <2>3. CASE EnterDisconnect(j, h)
    <3> HIDE DEF h
    <3> QED BY <2>1, <2>2, <2>3, RunnerIsOrdered DEF Busy
  <2>4. CASE /\ run' = [run EXCEPT ![j] = h]
             /\ owner' = [owner EXCEPT ![j] = "settling"]
             /\ UNCHANGED phase
    <3> HIDE DEF h
    <3>1. CASE j = k
      BY <1>0, <2>1, <2>2, <2>4, <3>1 DEF WorkOrder, AtWork, Early, Busy
    <3>2. CASE j # k
      BY <1>0, <2>2, <2>4, <3>2, StillIsOrdered
    <3> QED BY <3>1, <3>2
  <2> QED BY <1>3, <2>3, <2>4 DEF OwnerResult
<1>4. ASSUME NEW kind \in {"missing", "eof"}, OwnerStreamEnds(j, kind)
      PROVE  WorkOrder(k)
  <2>1. owner[j] \in Busy /\ EnterDisconnect(j, Holding(j, kind)) /\ UNCHANGED stopReq
    BY <1>4 DEF OwnerStreamEnds, OwnerAt, Busy, RunFrame, stops
  <2> QED BY <2>1, HoldingPrecedes, RunnerIsOrdered
<1>5. CASE OwnerSettled(j)
  <2>1. owner[j] \in Busy /\ EnterDisconnect(j, run[j]) /\ UNCHANGED stopReq
    BY <1>5 DEF OwnerSettled, OwnerAt, Busy, RunFrame, stops
  <2> QED BY <1>0, <2>1, RunnerIsOrdered
<1>6. CASE OwnerDisconnected(j)
  <2> DEFINE h == [run[j] EXCEPT !.disconnected = TRUE]
  <2>1. owner[j] \in Busy /\ AfterRun(j, h) /\ UNCHANGED stopReq
    BY <1>6 DEF OwnerDisconnected, OwnerAt, Busy, RunFrame, stops
  <2>2. h \in Run /\ h.preceded = run[j].preceded
    BY HoldingPrecedes
  <2> HIDE DEF h
  <2> QED BY <2>1, <2>2, RunnerIsOrdered
<1>7. CASE OwnerDisconnectFails(j)
  <2> DEFINE h == [run[j] EXCEPT !.kind = IF @ \in SdkResults THEN "failed" ELSE @]
  <2>1. owner[j] \in Busy /\ AfterRun(j, h) /\ UNCHANGED stopReq
    BY <1>7 DEF OwnerDisconnectFails, OwnerAt, Busy, RunFrame, stops
  <2>2. h \in Run /\ h.preceded = run[j].preceded
    BY HoldingPrecedes
  <2> HIDE DEF h
  <2> QED BY <2>1, <2>2, RunnerIsOrdered
<1>8. CASE OwnerCancelled(j)
  <2>0. UNCHANGED stopReq
    BY <1>8 DEF OwnerCancelled, RunFrame, stops
  <2>1. CASE owner[j] = "created" /\ OwnerEnds(j) /\ UNCHANGED phase
    <3>1. CASE j = k
      BY <1>0, <2>1, <3>1, OneActive DEF WorkOrder, AtWork, Early, Busy, OwnerEnds, IInv
    <3>2. CASE j # k
      BY <1>0, <2>0, <2>1, <3>2, StillIsOrdered DEF OwnerEnds
    <3> QED BY <3>1, <3>2
  <2>2. CASE owner[j] \in {"connecting", "running"} /\ EnterDisconnect(j, Holding(j, "cancelled"))
    BY <2>0, <2>2, HoldingPrecedes, RunnerIsOrdered DEF Busy
  <2>3. CASE owner[j] = "settling" /\ EnterDisconnect(j, run[j])
    BY <1>0, <2>0, <2>3, RunnerIsOrdered DEF Busy
  <2>4. CASE owner[j] = "disconnecting" /\ AfterRun(j, Holding(j, "cancelled"))
    BY <2>0, <2>4, HoldingPrecedes, RunnerIsOrdered DEF Busy
  <2>5. CASE UNCHANGED <<phase, run, owner>>
    BY <2>0, <2>5, StillIsOrdered
  <2> QED BY <1>8, <2>1, <2>2, <2>3, <2>4, <2>5 DEF OwnerCancelled
<1>9. CASE OwnerStart(j) \/ OwnerInitialized(j)
  <2>1. /\ owner[j] \in {"created", "connecting"} /\ UNCHANGED <<run, phase, stopReq>>
        /\ \E place \in {"connecting", "running"} : owner' = [owner EXCEPT ![j] = place]
    BY <1>9 DEF OwnerStart, OwnerInitialized, OwnerAt, stops
  <2> QED BY <1>0, <2>1 DEF WorkOrder, AtWork, Early, Busy
<1>10. CASE OwnerReturns(j)
  <2>1. /\ owner[j] = "persisting" /\ UNCHANGED <<phase, stopReq>> /\ OwnerEnds(j)
    BY <1>10 DEF OwnerReturns, OwnerAt, stops
  <2>2. j # k => owner'[k] = owner[k] /\ run'[k] = run[k] /\ phase'[k] = phase[k]
    BY <2>1 DEF OwnerEnds
  <2>3. j = k => ~ AtWork(k)'
    BY <1>0, <1>10, <2>1 DEF OwnerEnds, OwnerReturns, AtWork, Busy
  <2>4. j = k => owner'[k] \notin Early
    BY <1>0, <2>1 DEF OwnerEnds, Early
  <2>5. CASE j = k
    BY <2>3, <2>4, <2>5 DEF WorkOrder
  <2>6. CASE j # k
    BY <2>1, <2>2, <2>6, StillIsOrdered
  <2> QED BY <2>5, <2>6
<1>11. CASE TaskFinished(j)
  BY <1>11, StillIsOrdered DEF TaskFinished, owners, stops
<1>12. CASE PersistAcceptedResult(j)
  <2>1. /\ phase[j] = "pending" /\ phase' = [phase EXCEPT ![j] = "done"]
        /\ UNCHANGED <<owner, run>> /\ stopReq \ {j} \subseteq stopReq'
        /\ owner[j] = "persisting"
    BY <1>12 DEF PersistAcceptedResult, IInv, TasksAgree, PhaseHasResult
  <2>2. CASE j = k
    BY <1>0, <2>1, <2>2 DEF WorkOrder, AtWork, Busy
  <2>3. CASE j # k
    BY <1>0, <2>1, <2>3, StillIsOrdered
  <2> QED BY <2>2, <2>3
<1>13. CASE ResultPhaseFinished(j)
  <2>1. /\ phase[j] = "done" /\ phase' = [phase EXCEPT ![j] = "none"]
        /\ UNCHANGED <<owner, run, stopReq>>
    BY <1>13 DEF ResultPhaseFinished, stops
  <2> QED BY <1>0, <2>1 DEF WorkOrder, AtWork, Busy
<1> QED
  BY <1>1, <1>2, <1>3, <1>4, <1>5, <1>6, <1>7, <1>8, <1>9, <1>10, <1>11, <1>12, <1>13
  DEF OwnerStep

\* Every step.
LEMMA WorkIsOrdered ==
  ASSUME IInv, [Next]_vars, NEW k \in Attempts
  PROVE  WorkOrder(k)
<1>0. /\ owner \in [Attempts -> OwnerPlaces] /\ run \in [Attempts -> Run]
      /\ stopReq \subseteq Attempts
  BY DEF IInv, TypeOK
<1>a. ASSUME UNCHANGED <<owner, run, phase>>, stopReq \subseteq stopReq' PROVE WorkOrder(k)
  BY <1>a, StillIsOrdered
<1>b. ASSUME NEW j, NEW force, RequestStop(j, force) PROVE stopReq \subseteq stopReq'
  BY <1>b DEF RequestStop
<1>1. ASSUME NEW w \in Workers, ClientStep(w) PROVE WorkOrder(k)
  <2>1. ASSUME SpawnCommit(w) \/ Resume(w) PROVE WorkOrder(k)
    <3> DEFINE j == <<w, row[w].attempt + 1>>
    <3>1. /\ owner' = [owner EXCEPT ![j] = "created"] /\ UNCHANGED <<run, phase, stopReq>>
      <4>1. SpawnCommit(w) => row[w].attempt = 0
        BY DEF SpawnCommit, PreflightPassed, IInv, TasksAgree, NewcomersAreAbsent, Controls,
               RowsAreNumbered
      <4>2. ASSUME row[w].attempt = 0 PROVE j = <<w, 1>>
        BY <4>2
      <4> HIDE DEF j
      <4>3. CASE SpawnCommit(w)
        BY <4>1, <4>2, <4>3 DEF SpawnCommit, stops
      <4>4. CASE Resume(w)
        BY <4>4 DEF Resume, stops, j
      <4> QED BY <2>1, <4>3, <4>4
    <3>2. CASE k = j
      <4>1. NumberOf(k) > row[WorkerOf(k)].attempt
        BY <3>2 DEF NumberOf, WorkerOf, IInv, TypeOK, Row
      <4>2. owner[k] = "none"
        BY <4>1 DEF IInv, TasksAgree, FutureIsUnused
      <4> HIDE DEF j
      <4> QED BY <1>0, <3>1, <3>2, <4>1, <4>2 DEF WorkOrder, Early
    <3>3. CASE k # j
      <4> HIDE DEF j
      <4> QED BY <1>0, <3>1, <3>3, StillIsOrdered
    <3> QED BY <3>2, <3>3
  <2>2. CASE SpawnBegin(w) \/ SpawnRefused(w)
    BY <1>a, <2>2 DEF SpawnBegin, SpawnRefused, owners, stops
  <2>3. ASSUME NEW force \in BOOLEAN, Stop(w, force) PROVE WorkOrder(k)
    BY <1>a, <1>b, <2>3 DEF Stop, owners
  <2> QED BY <1>1, <2>1, <2>2, <2>3 DEF ClientStep
<1>2. ASSUME NEW j \in Attempts, StopStep(j) PROVE WorkOrder(k)
  <2>1. CASE StopFinal(j)
    <3>1. /\ UNCHANGED <<owner, run, phase>> /\ stopReq \ {j} \subseteq stopReq' /\ stopAt[j] = "final"
      BY <2>1 DEF StopFinal, StopMoves, owners
    <3>2. ~ AtWork(j)
      BY <3>1 DEF IInv, TasksAgree, FinalStopHasNoOwner, PhaseHasResult, AtWork, Busy, OwnerGone
    <3> QED BY <3>1, <3>2, StillIsOrdered
  <2>2. CASE StopDisconnect(j)
    <3>1. /\ UNCHANGED <<owner, phase, stopReq>>
          /\ UNCHANGED run \/ run' = [run EXCEPT ![j].disconnected = TRUE]
      BY <2>2 DEF StopDisconnect, StopFrame
    <3>2. run'[k].preceded = run[k].preceded
      BY <1>0, <3>1 DEF Run
    <3> QED BY <3>1, <3>2 DEF WorkOrder, AtWork
  <2>3. CASE ~ StopFinal(j) /\ ~ StopDisconnect(j)
    BY <1>2, <1>a, <2>3 DEF StopStep, StopBegin, StopYield, StopGrace,
       StopCancelOwner, StopGather, StopJoin, StopFrame
  <2> QED BY <2>1, <2>2, <2>3
<1>3. ASSUME NEW r \in Requests, ApprovalStep(r) PROVE WorkOrder(k)
  BY <1>3, <1>a DEF ApprovalStep, RequestApproval, Respond, CallbackCancelled, CallbackCleanup,
     owners, stops
<1>4. CASE CloseStep
  <2>1. ASSUME NEW w \in Workers, CloseStop(w) PROVE WorkOrder(k)
    BY <1>a, <1>b, <2>1 DEF CloseStop, owners, stops
  <2>2. CASE CloseBegin \/ CloseStopReturns \/ CloseDrain \/ CloseEnd
    BY <1>a, <2>2 DEF CloseBegin, CloseStopReturns, CloseDrain, CloseEnd, owners, stops
  <2> QED BY <1>4, <2>1, <2>2 DEF CloseStep
<1>5. CASE Restart \/ Crash
  BY <1>5 DEF Restart, Crash, FreshProcess, WorkOrder, AtWork, Busy, NoRun
<1>6. CASE UNCHANGED vars
  BY <1>6, <1>a DEF vars, owners, stops
<1> QED BY <1>1, <1>2, <1>3, <1>4, <1>5, <1>6, OwnerStepsAreOrdered DEF Next

-----------------------------------------------------------------------------
\* A stop found the attempt k without a result: its end can only be cancelled.
Doomed(k) ==
  /\ NumberOf(k) <= row[WorkerOf(k)].attempt
  /\ Current(k) /\ Over(WorkerOf(k)) => row[WorkerOf(k)].state = "cancelled"
  /\ Current(k) /\ AtWork(k) => k \in stopReq /\ ~ run[k].preceded

\* A terminal state that a step gives to a doomed attempt is cancelled.
LEMMA DoomedEndsCancelled ==
  ASSUME IInv, Promise, [Next]_vars, NEW k \in Attempts, Doomed(k),
         Current(k), ~ Over(WorkerOf(k)), row'[WorkerOf(k)].attempt = NumberOf(k),
         row'[WorkerOf(k)].state \in Terminal
  PROVE  row'[WorkerOf(k)].state = "cancelled"
<1> DEFINE w == WorkerOf(k)  r == row[w]
<1>1. w \in Workers /\ r \in Row /\ RowChanges(w) /\ r.state \notin Terminal
  BY AttemptPair, RowStep DEF IInv, TypeOK, Over
<1>2. /\ Running \notin Terminal /\ RequiresAction \notin Terminal /\ Starting \notin Terminal
      /\ Running \in States /\ RequiresAction \in States
  BY DEF Running, RequiresAction, Starting, States, Terminal
<1>3. row'[w] # r
  BY <1>1
<1>4. \A n : row'[w] # FreshAttempt(n)
  BY <1>2 DEF FreshAttempt
<1>5. row'[w] \notin {SetHealth(Move(r, Running), "healthy"), Move(r, RequiresAction),
                      Move(r, Running)}
  <2>1. \A to \in {Running, RequiresAction} :
          Move(r, to) \in Row /\ Move(r, to).state \notin Terminal
    BY <1>1, <1>2, RowOperators
  <2>2. SetHealth(Move(r, Running), "healthy").state \notin Terminal
    BY <2>1, RowOperators DEF Health
  <2> QED BY <2>1, <2>2
<1>6. ASSUME NEW j \in Attempts, NEW missing \in {"cancelled", "lost"}, WorkerOf(j) = w,
             row'[w] = Finalized(j, missing),
             missing = "lost" => owner[j] \in Busy /\ j \notin stopReq
      PROVE  row'[w].state = "cancelled"
  <2> DEFINE f == Finalized(j, missing)
  <2>1. /\ ~ MustFinalize(j) => f = r
        /\ MustFinalize(j) => f.state = missing \/ f.state = Starting
    BY <1>6, FinalizedOutcome DEF Promise
  <2>2. missing = "lost" => Current(j) /\ AtWork(j)
    BY <1>6, OneActive DEF AtWork, IInv
  <2>3. missing = "lost" => j = k
    BY <1>6, <2>2, AttemptPair DEF Current
  <2>4. missing # "lost"
    BY <1>6, <2>2, <2>3 DEF Doomed
  <2> HIDE DEF f
  <2> QED BY <1>1, <1>2, <1>6, <2>1, <2>4 DEF f
<1>7. ASSUME NEW j \in Attempts, WorkerOf(j) = w, phase[j] = "pending", row'[w] \in Persisted(j)
      PROVE  row'[w].state = "cancelled"
  <2>1. AtWork(j) /\ Current(j)
    BY <1>7, OneActive DEF AtWork, IInv
  <2>2. j = k
    BY <1>7, <2>1, AttemptPair DEF Current
  <2>3. ResultTarget(j) = "cancelled"
    BY <2>1, <2>2 DEF Doomed, ResultTarget
  <2>4. /\ run[j].kind \in Results /\ run[j].session \in BOOLEAN
        /\ CanMove(Completed(j).state, ResultTarget(j))
    BY <1>7, PersistIsAllowed DEF IInv, TypeOK, TasksAgree, PhaseHasResult, Run
  <2>5. /\ Completed(j) \in Row /\ Completed(j).state \notin Terminal
        /\ ResultRecorded(j) \in Row
    BY <1>1, <1>2, <1>7, <2>4, CompletedOutcome, CompletedRow, RecordedRow
    DEF Promise, IInv, TypeOK
  <2>6. Move(ResultRecorded(j), "cancelled").state = "cancelled"
    BY <2>5, RowOperators DEF States, Terminal
  <2> QED BY <1>7, <2>3, <2>4, <2>5, <2>6 DEF Persisted
<1> HIDE DEF r, w
<1> QED BY <1>1, <1>3, <1>4, <1>5, <1>6, <1>7 DEF RowChanges, r, w

\* Attempts are never taken back, and an attempt that is over keeps its state.
LEMMA AttemptsGrow ==
  ASSUME IInv, Promise, [Next]_vars, NEW w \in Workers
  PROVE  /\ row'[w].attempt >= row[w].attempt
         /\ Over(w) /\ row'[w].attempt = row[w].attempt => row'[w].state = row[w].state
<1> DEFINE r == row[w]
<1>1. r \in Row /\ r.attempt \in Nat /\ RowChanges(w)
  BY RowStep DEF IInv, TypeOK, Row
<1>2. /\ Running \in States /\ RequiresAction \in States /\ "healthy" \in Health
      /\ {Starting, Running, RequiresAction, Absent} \cap Terminal = {}
  BY DEF Running, RequiresAction, Starting, States, Health, Terminal, Absent
<1>3. CASE row'[w] = r
  BY <1>1, <1>3
<1>4. CASE r.state = Absent /\ row'[w] = FreshAttempt(1)
  <2>1. r.attempt = 0 /\ ~ Over(w)
    BY <1>2, <1>4 DEF IInv, Controls, RowsAreNumbered, Over
  <2> QED BY <1>4, <2>1 DEF FreshAttempt
<1>5. CASE row'[w] = FreshAttempt(r.attempt + 1)
  BY <1>1, <1>5 DEF FreshAttempt
<1>6. CASE /\ r.state \in {Starting, Running, RequiresAction}
           /\ row'[w] \in {SetHealth(Move(r, Running), "healthy"), Move(r, RequiresAction),
                           Move(r, Running)}
  <2>1. /\ Move(r, Running) \in Row /\ Move(r, Running).attempt = r.attempt
        /\ Move(r, RequiresAction).attempt = r.attempt
    BY <1>1, <1>2, RowOperators
  <2>2. SetHealth(Move(r, Running), "healthy").attempt = r.attempt
    BY <1>2, <2>1, RowOperators
  <2>3. row'[w].attempt = r.attempt /\ ~ Over(w)
    BY <1>2, <1>6, <2>1, <2>2 DEF Over
  <2> QED BY <1>1, <2>3
<1>7. ASSUME NEW j \in Attempts, NEW missing \in {"cancelled", "lost"}, WorkerOf(j) = w,
             row'[w] = Finalized(j, missing)
      PROVE  row'[w].attempt = r.attempt /\ (Over(w) => row'[w] = r)
  BY <1>7, FinalizedOutcome DEF Promise, MustFinalize
<1>8. ASSUME NEW j \in Attempts, WorkerOf(j) = w, phase[j] = "pending", row'[w] \in Persisted(j)
      PROVE  row'[w].attempt = r.attempt /\ ~ Over(w)
  <2>1. ~ Over(w) /\ CanMove(Completed(j).state, ResultTarget(j))
    BY <1>8, OneActive, PersistIsAllowed DEF IInv
  <2>2. Completed(j) \in Row /\ Completed(j).attempt = r.attempt
    BY <1>8, CompletedOutcome DEF Promise
  <2>3. run[j].kind \in Results /\ run[j].session \in BOOLEAN
    BY <1>8 DEF IInv, TypeOK, TasksAgree, PhaseHasResult, Run
  <2>4. ResultRecorded(j) \in Row /\ ResultRecorded(j).attempt = r.attempt
    BY <2>2, <2>3, RecordedRow
  <2>5. ResultTarget(j) \in States
    BY DEF ResultTarget, TargetOf, States, Terminal
  <2>6. Move(ResultRecorded(j), ResultTarget(j)).attempt = r.attempt
    BY <2>4, <2>5, RowOperators
  <2> QED BY <1>8, <2>1, <2>2, <2>6 DEF Persisted
<1> HIDE DEF r
<1> QED BY <1>1, <1>3, <1>4, <1>5, <1>6, <1>7, <1>8 DEF RowChanges, r

\* Doom is for good.
LEMMA DoomStays ==
  ASSUME IInv, Promise, [Next]_vars, NEW k \in Attempts, Doomed(k)
  PROVE  Doomed(k)'
<1> DEFINE w == WorkerOf(k)
<1>1. /\ w \in Workers /\ NumberOf(k) \in Nat /\ row[w].attempt \in Nat /\ row'[w].attempt \in Nat
      /\ row'[w].attempt >= row[w].attempt
      /\ Over(w) /\ row'[w].attempt = row[w].attempt => row'[w].state = row[w].state
  BY AttemptPair, AttemptsGrow, NextIInv DEF IInv, TypeOK, Row
<1>2. NumberOf(k) <= row'[w].attempt /\ (Current(k)' => Current(k))
  BY <1>1 DEF Doomed, Current
<1>3. Current(k)' /\ row'[w].state \in Terminal => row'[w].state = "cancelled"
  <2>1. ASSUME Current(k)', row'[w].state \in Terminal PROVE row'[w].state = "cancelled"
    <3>1. Current(k) /\ row'[w].attempt = NumberOf(k) /\ row'[w].attempt = row[w].attempt
      BY <1>2, <2>1 DEF Current
    <3>2. CASE Over(w)
      BY <1>1, <2>1, <3>1, <3>2 DEF Doomed
    <3>3. CASE ~ Over(w)
      BY <2>1, <3>1, <3>3, DoomedEndsCancelled
    <3> QED BY <3>2, <3>3
  <2> QED BY <2>1
<1>4. Current(k)' /\ AtWork(k)' => k \in stopReq' /\ ~ run'[k].preceded
  <2>1. ASSUME Current(k)', AtWork(k)' PROVE k \in stopReq' /\ ~ run'[k].preceded
    <3>1. Current(k) /\ ~ (NumberOf(k) > row[WorkerOf(k)].attempt)
      BY <1>1, <1>2, <2>1 DEF Doomed
    <3>2. /\ AtWork(k)
          /\ k \in stopReq => k \in stopReq' /\ (run'[k].preceded => run[k].preceded)
      BY <2>1, <3>1, WorkIsOrdered DEF WorkOrder
    <3> QED BY <3>1, <3>2 DEF Doomed
  <2> QED BY <2>1
<1> QED BY <1>2, <1>3, <1>4 DEF Doomed, Over

\* A stop that finds its attempt before any result dooms it.
LEMMA StopDooms ==
  ASSUME IInv, EarlyHasNoResult, NEW k \in Attempts,
         k \in stopReq, owner[k] \in {"created", "connecting", "running"}
  PROVE  Doomed(k)
<1>1. Current(k) /\ ~ Over(WorkerOf(k)) /\ ~ run[k].preceded
  BY OneActive DEF EarlyHasNoResult, Early, Busy, IInv
<1>2. NumberOf(k) \in Nat
  BY AttemptPair
<1> QED BY <1>1, <1>2 DEF Doomed, Current

\* Unless a callback that waits is cancelled: once a stop is requested for an
\* attempt that has no result yet, the attempt can only end cancelled, whatever
\* the interrupt releases and however the end is reached.
THEOREM StopHasTheLastWord ==
  ASSUME "callback_cancelled" \notin Incidents
  PROVE  Spec => StopWins
<1> SUFFICES ASSUME NEW k \in Attempts
             PROVE  Spec =>
               [](k \in stopReq /\ owner[k] \in {"created", "connecting", "running"}
                  => [](Current(k) /\ Over(WorkerOf(k)) => row[WorkerOf(k)].state = "cancelled"))
  BY DEF StopWins
<1>1. Init => EarlyHasNoResult
  BY DEF Init, EarlyHasNoResult, NoRun
<1>2. IInv /\ EarlyHasNoResult /\ [Next]_vars => EarlyHasNoResult'
  BY WorkIsOrdered DEF EarlyHasNoResult, WorkOrder
<1>3. Spec => []EarlyHasNoResult
  BY <1>1, <1>2, Invariant, PTL DEF Spec
<1>4. IInv /\ EarlyHasNoResult
      /\ k \in stopReq /\ owner[k] \in {"created", "connecting", "running"} => Doomed(k)
  BY StopDooms
<1>5. IInv /\ Promise /\ [Next]_vars /\ Doomed(k) => Doomed(k)'
  BY DoomStays
<1>6. Doomed(k) =>
        (Current(k) /\ Over(WorkerOf(k)) => row[WorkerOf(k)].state = "cancelled")
  BY DEF Doomed
<1> QED BY <1>3, <1>4, <1>5, <1>6, Invariant, PromiseIsKept, PTL DEF Spec
=============================================================================
