-------------------------- MODULE Supervisor_proofs --------------------------
(***************************************************************************)
(* What holds of the supervisor for every set of workers and requests,     *)
(* every bound on attempts and every choice of incidents: the invariant    *)
(* IInv is inductive, and the safety properties of Supervisor.tla follow.  *)
(*                                                                         *)
(* Two lemmas carry the weight.  CompletionKeepsControls and EndKeepsTasks *)
(* say what the end of an attempt, by whichever task, must leave alone;    *)
(* every action that ends an attempt cites them.  The lemmas on the        *)
(* actions follow the order of Supervisor.tla.                             *)
(***************************************************************************)
EXTENDS Supervisor, TLAPS

\* An attempt is determined by its worker and its number.
LEMMA AttemptPair ==
  ASSUME NEW k \in Attempts
  PROVE  /\ WorkerOf(k) \in Workers /\ NumberOf(k) \in 1 .. MaxAttempts
         /\ NumberOf(k) \in Nat \ {0} /\ NumberOf(k) \in 0 .. MaxAttempts
         /\ \A j \in Attempts :
              WorkerOf(j) = WorkerOf(k) /\ NumberOf(j) = NumberOf(k) => j = k
BY MaxAttemptsAssumption DEF Attempts, WorkerOf, NumberOf

\* The updates of a row keep its type, and touch only what they name.
LEMMA RowOperators ==
  ASSUME NEW r \in Row
  PROVE  /\ \A to \in States : 
              /\ Move(r, to) \in Row
              /\ Move(r, to).attempt = r.attempt /\ Move(r, to).state = to
         /\ \A h \in Health : 
              /\ SetHealth(r, h) \in Row
              /\ SetHealth(r, h).attempt = r.attempt /\ SetHealth(r, h).state = r.state
              /\ SetHealth(r, h).result = r.result
         /\ \A result \in Results, session \in BOOLEAN :
              /\ RecordResult(r, result, session) \in Row
              /\ RecordResult(r, result, session).attempt = r.attempt
              /\ RecordResult(r, result, session).state = r.state
BY DEF Row, Move, SetHealth, RecordResult, States

\* Only known states are entered, and never from the absence of a row.
LEMMA TransitionTargets ==
  ASSUME NEW from \in States \cup {Absent}, NEW to, CanMove(from, to)
  PROVE  to \in States /\ from # Absent
BY DEF CanMove, Transitions, States, Starting, Running, RequiresAction, Terminal,
       Resumable, Absent

\* The row that an end of attempt k leaves, before the terminal state.
LEMMA CompletedRow ==
  ASSUME NEW k \in Attempts, row \in [Workers -> Row]
  PROVE  /\ Completed(k) \in Row
         /\ Completed(k).attempt = row[WorkerOf(k)].attempt
         /\ Completed(k).state = Absent <=> row[WorkerOf(k)].state = Absent
         /\ Completed(k).result = row[WorkerOf(k)].result
         /\ ~ Current(k) \/ Over(WorkerOf(k)) => Completed(k) = row[WorkerOf(k)]
<1> USE AttemptPair, RowOperators
<1>1. CASE Expires(k)
  <2>1. Completed(k) = Move(row[WorkerOf(k)], Running)  BY <1>1 DEF Completed
  <2>2. Current(k) /\ row[WorkerOf(k)].state = RequiresAction  BY <1>1 DEF Expires
  <2>3. RequiresAction \notin Terminal /\ RequiresAction # Absent /\ Running # Absent
        /\ Running \in States
    BY DEF RequiresAction, Terminal, Absent, Running, States
  <2>4. Move(row[WorkerOf(k)], Running).result = row[WorkerOf(k)].result
    BY DEF Move, Row
  <2> QED BY <2>1, <2>2, <2>3, <2>4 DEF Over
<1>2. CASE ~ Expires(k)
  BY <1>2 DEF Completed
<1> QED BY <1>1, <1>2

\* The row that _finalize_without_result leaves: nothing changes for an attempt
\* that is over or not the current one.
LEMMA FinalizedRow ==
  ASSUME NEW k \in Attempts, row \in [Workers -> Row], NEW missing \in {"cancelled", "lost"}
  PROVE  /\ Finalized(k, missing) \in Row
         /\ Finalized(k, missing).attempt = row[WorkerOf(k)].attempt
         /\ RowsAreNumbered => 
              (Finalized(k, missing).state = Absent <=> row[WorkerOf(k)].state = Absent)
         /\ ~ Current(k) \/ Over(WorkerOf(k)) => Finalized(k, missing) = row[WorkerOf(k)]
<1> DEFINE w == WorkerOf(k)  c == Completed(k)  f == Finalized(k, missing)
           t == FinalTarget(k, missing) e == SetHealth(c, "exited")
<1>1. /\ c \in Row /\ c.attempt = row[w].attempt /\ w \in Workers
      /\ c.state = Absent <=> row[w].state = Absent
      /\ ~ Current(k) \/ Over(w) => c = row[w]
  BY CompletedRow, AttemptPair
<1>2. e \in Row /\ e.attempt = c.attempt /\ e.state = c.state
  BY <1>1, RowOperators DEF Health
<1>3. t \in States /\ t # Absent
  BY DEF FinalTarget, TargetOf, States, Terminal, Absent
<1>4. Move(e, t) \in Row /\ Move(e, t).attempt = e.attempt /\ Move(e, t).state = t
  BY <1>2, <1>3, RowOperators
<1>5. MustFinalize(k) /\ RowsAreNumbered => row[w].state # Absent
  BY <1>1, AttemptPair DEF MustFinalize, Current, RowsAreNumbered
<1>6. f = IF ~ MustFinalize(k) THEN c ELSE IF FinalizeRaises(k, missing) THEN e ELSE Move(e, t)
  BY DEF Finalized
<1>7. ~ Current(k) \/ Over(w) => ~ MustFinalize(k)
  BY DEF MustFinalize
<1> HIDE DEF w, c, f, t, e
<1> QED BY <1>1, <1>2, <1>3, <1>4, <1>5, <1>6, <1>7 DEF w, f

\* What a runner may hold has the type of the owner's variables.
LEMMA RunOperators ==
  ASSUME NEW k \in Attempts, run \in [Attempts -> Run]
  PROVE  /\ NoRun \in Run
         /\ \A kind \in {"adapter_failure", "missing", "eof", "cancelled"} :
              Holding(k, kind) \in Run
         /\ \A result \in SdkResult : HoldingResult(k, result) \in Run
         /\ [run[k] EXCEPT !.disconnected = TRUE] \in Run
         /\ [run[k] EXCEPT !.kind = IF @ \in SdkResults THEN "failed" ELSE @] \in Run
<1>1. run[k] \in Run
  OBVIOUS
<1>2. \A result \in SdkResult : HoldingResult(k, result) \in Run
  <2> TAKE result \in SdkResult
  <2>1. result.kind \in SdkResults /\ result.session \in BOOLEAN /\ result.safe \in BOOLEAN
    BY DEF SdkResult
  <2>2. (k \notin stopReq) \in BOOLEAN /\ run[k].disconnected \in BOOLEAN
    BY <1>1 DEF Run
  <2> QED BY <2>1, <2>2 DEF HoldingResult, Run, Results
<1> QED BY <1>1, <1>2 DEF Holding, NoRun, Run, Results, SdkResults, NoResult

\* Forgetting requests keeps rows and controls in agreement.
LEMMA ControlsKept ==
  ASSUME Controls, pending' \subseteq pending, UNCHANGED <<row, requested, resolution, live>>
  PROVE  Controls'
BY DEF Controls, RowsAreNumbered, LiveIsCurrent, PendingIsLive, RequestsAreUnresolved,
       Current, Registered, Over

\* Tasks agree with the rows as long as neither of them moves.
LEMMA TasksKept ==
  ASSUME TasksAgree, preflight' \subseteq preflight,
         UNCHANGED <<row, owner, run, phase, stopAt>>
  PROVE  TasksAgree'
BY DEF TasksAgree, NewcomersAreAbsent, StaleOwnersAreQuiet, ConnectingIsStarting,
       PhaseHasResult, FutureIsUnused, FinalStopHasNoOwner, Current, OwnerGone, Over

\* Completing an attempt keeps the types of what it changes.
LEMMA CompletionTyped ==
  ASSUME TypeOK, NEW k \in Attempts, CompleteLiveAttempt(k)
  PROVE  /\ pending' \subseteq pending /\ revoked' \subseteq pending'
         /\ resolution' \in [Requests -> {"none", "responded", "expired"}]
         /\ live' \in [Workers -> 0 .. MaxAttempts]
BY AttemptPair, MaxAttemptsAssumption DEF TypeOK, CompleteLiveAttempt, Gone, PendingOf

\* The end of attempt k leaves the row x of its worker and no control.
LEMMA CompletionKeepsControls ==
  ASSUME TypeOK, Controls, NEW k \in Attempts, NEW x \in Row,
         CompleteLiveAttempt(k), UNCHANGED requested,
         row' = [row EXCEPT ![WorkerOf(k)] = x],
         x.attempt = row[WorkerOf(k)].attempt,
         x.state = Absent <=> row[WorkerOf(k)].state = Absent,
         ~ Current(k) => x = row[WorkerOf(k)]
  PROVE  Controls'
<1> DEFINE w == WorkerOf(k)
<1>0. /\ w \in Workers /\ row \in [Workers -> Row] /\ live \in [Workers -> 0 .. MaxAttempts]
      /\ \A v \in Workers : v # w => row'[v] = row[v] /\ live'[v] = live[v]
      /\ row'[w] = x
      /\ live'[w] = IF Registered(k) THEN 0 ELSE live[w]
  BY AttemptPair DEF TypeOK, CompleteLiveAttempt
<1>1. RowsAreNumbered'
  BY <1>0 DEF Controls, RowsAreNumbered
<1>2. LiveIsCurrent'
  <2> SUFFICES ASSUME NEW v \in Workers, live'[v] # 0
               PROVE  live'[v] = row'[v].attempt /\ ~ (Over(v))'
    BY DEF LiveIsCurrent
  <2>1. CASE v # w
    BY <2>1, <1>0 DEF Controls, LiveIsCurrent, Over
  <2>2. CASE v = w
    <3>1. live[w] # 0 /\ ~ Registered(k)
      BY <2>2, <1>0
    <3>2. live[w] = row[w].attempt /\ ~ Over(w)
      BY <3>1, <1>0 DEF Controls, LiveIsCurrent
    <3>3. ~ Current(k)
      BY <3>1, <3>2 DEF Current, Registered
    <3> QED BY <2>2, <3>1, <3>2, <3>3, <1>0 DEF Over
  <2> QED BY <2>1, <2>2
<1>3. PendingIsLive'
  <2> SUFFICES ASSUME NEW r \in pending'
               PROVE  /\ requested[r] \in Attempts
                      /\ Current(requested[r])' /\ Registered(requested[r])'
                      /\ row'[WorkerOf(requested[r])].state = RequiresAction
    BY DEF PendingIsLive, Current, Registered
  <2> DEFINE j == requested[r]
  <2>1. r \in pending /\ r \notin Gone(k)
    BY DEF CompleteLiveAttempt
  <2>2. /\ j \in Attempts /\ Current(j) /\ Registered(j)
        /\ row[WorkerOf(j)].state = RequiresAction
    BY <2>1 DEF Controls, PendingIsLive
  <2>3. j # k
    BY <2>1, <2>2 DEF Gone, PendingOf
  <2>4. CASE WorkerOf(j) # w
    BY <2>4, <2>2, <1>0, AttemptPair DEF Current, Registered
  <2>5. CASE WorkerOf(j) = w
    <3>1. ~ Current(k) /\ ~ Registered(k)
      BY <2>5, <2>2, <2>3, AttemptPair DEF Current, Registered
    <3> QED BY <3>1, <2>5, <2>2, <1>0 DEF Current, Registered
  <2> QED BY <2>4, <2>5
<1>4. RequestsAreUnresolved'
  <2> SUFFICES ASSUME NEW r \in Requests, requested[r] = NoAttempt \/ r \in pending'
               PROVE  resolution'[r] = "none"
    BY DEF RequestsAreUnresolved
  <2>1. r \in Gone(k) => r \in pending /\ r \notin pending'
    BY DEF CompleteLiveAttempt, Gone, PendingOf
  <2>2. resolution[r] = "none"
    BY DEF Controls, RequestsAreUnresolved, CompleteLiveAttempt
  <2>3. r \in Gone(k) => requested[r] = k /\ requested[r] # NoAttempt
    <3>1. k # NoAttempt
      BY DEF NoAttempt, Attempts
    <3>2. r \in Gone(k) => requested[r] = k
      BY DEF Gone, PendingOf
    <3> QED BY <3>1, <3>2
  <2> QED BY <2>1, <2>2, <2>3 DEF CompleteLiveAttempt
<1> QED BY <1>1, <1>2, <1>3, <1>4 DEF Controls

\* Where an owner still works for its attempt.
Busy == {"created", "connecting", "running", "settling", "disconnecting"}

\* An owner at work is the only task that may still end its worker's attempt.
LEMMA OneActive ==
  ASSUME TasksAgree, NEW k \in Attempts, owner[k] \in Busy \/ phase[k] = "pending"
  PROVE  /\ Current(k) /\ ~ Over(WorkerOf(k))
         /\ owner[k] \in Busy => phase[k] # "pending"
         /\ \A j \in Attempts : 
              /\ j # k /\ WorkerOf(j) = WorkerOf(k)
              => owner[j] \notin Busy /\ phase[j] # "pending"
BY AttemptPair DEF TasksAgree, StaleOwnersAreQuiet, PhaseHasResult, Current, Busy

\* The end of attempt k leaves the row x, and k no longer at work.
LEMMA EndKeepsTasks ==
  ASSUME TypeOK, TasksAgree, NEW k \in Attempts, NEW x \in Row,
         row' = [row EXCEPT ![WorkerOf(k)] = x],
         x.attempt = row[WorkerOf(k)].attempt,
         x.state = Absent <=> row[WorkerOf(k)].state = Absent,
         ~ Current(k) => x = row[WorkerOf(k)],
         \A j \in Attempts : j # k =>
           owner'[j] = owner[j] /\ phase'[j] = phase[j] /\ run'[j] = run[j],
         owner'[k] \notin Busy, phase'[k] # "pending",
         NumberOf(k) > row[WorkerOf(k)].attempt => owner'[k] = "none" /\ phase'[k] = "none",
         OwnerGone(k) => OwnerGone(k)',
         \A j \in Attempts : stopAt'[j] \in {stopAt[j], "idle"},
         preflight' \subseteq preflight
  PROVE  TasksAgree'
<1> DEFINE w == WorkerOf(k)
<1>1. /\ w \in Workers /\ row'[w] = x
      /\ \A v \in Workers : v # w => row'[v] = row[v]
      /\ \A v \in Workers : row'[v].attempt = row[v].attempt
                           /\ (row'[v].state = Absent <=> row[v].state = Absent)
  BY AttemptPair DEF TypeOK
<1>2. \A j \in Attempts : j # k /\ (owner[j] \in Busy \/ phase[j] = "pending")
        => row'[WorkerOf(j)] = row[WorkerOf(j)]
  <2> SUFFICES ASSUME NEW j \in Attempts, j # k, owner[j] \in Busy \/ phase[j] = "pending",
                      WorkerOf(j) = w
               PROVE  row'[w] = row[w]
    BY <1>1, AttemptPair
  <2>1. Current(j)
    BY OneActive
  <2>2. ~ Current(k)
    BY <2>1, AttemptPair DEF Current
  <2> QED BY <2>2, <1>1
<1> HIDE DEF w
<1>3. NewcomersAreAbsent'
  BY <1>1 DEF TypeOK, TasksAgree, NewcomersAreAbsent
<1>4. StaleOwnersAreQuiet'
  BY <1>1, <1>2, AttemptPair DEF TasksAgree, StaleOwnersAreQuiet, Current, Over, Busy
<1>5. ConnectingIsStarting'
  BY <1>1, <1>2, AttemptPair DEF TasksAgree, ConnectingIsStarting, Busy
<1>6. PhaseHasResult'
  BY <1>1 DEF TasksAgree, PhaseHasResult
<1>7. FutureIsUnused'
  BY <1>1, AttemptPair DEF TasksAgree, FutureIsUnused, w
<1>8. FinalStopHasNoOwner'
  BY DEF TasksAgree, FinalStopHasNoOwner, OwnerGone
<1> QED BY <1>3, <1>4, <1>5, <1>6, <1>7, <1>8 DEF TasksAgree

\* The runner ended with h.
LEMMA AfterRunKeeps ==
  ASSUME IInv, NEW k \in Attempts, owner[k] \in Busy, NEW h \in Run,
         AfterRun(k, h), cancelling' \subseteq cancelling, RunFrame
  PROVE  IInv'
<1> DEFINE w == WorkerOf(k)
<1> USE DEF IInv
<1>1. /\ Current(k) /\ ~ Over(w) /\ phase[k] # "pending" /\ w \in Workers
      /\ \A j \in Attempts : j # k /\ WorkerOf(j) = w
           => owner[j] \notin Busy /\ phase[j] # "pending"
  BY OneActive, AttemptPair
<1>2. CASE h.kind \in Results
  <2>1. /\ owner' = [owner EXCEPT ![k] = "persisting"]
        /\ phase' = [phase EXCEPT ![k] = "pending"]
        /\ run' = [run EXCEPT ![k] = h]
        /\ UNCHANGED <<row, resolution, pending, revoked, live>>
    BY <1>2 DEF AfterRun
  <2>2. TypeOK'
    BY <2>1 DEF TypeOK, RunFrame, OwnerPlaces, stops, closing
  <2>3. Controls'
    BY <2>1, ControlsKept DEF RunFrame
  <2>4. PhaseHasResult'
    BY <2>1, <1>2 DEF TypeOK, TasksAgree, PhaseHasResult
  <2>5. TasksAgree'
    BY <2>1, <1>1, <2>4 DEF TypeOK, TasksAgree, NewcomersAreAbsent, StaleOwnersAreQuiet,
       ConnectingIsStarting, FutureIsUnused, FinalStopHasNoOwner, Current,
       OwnerGone, Over, RunFrame, stops, Busy
  <2> QED BY <2>2, <2>3, <2>5
<1>3. CASE h.kind \notin Results
  <2> DEFINE missing == MissingState(k)  x == Finalized(k, missing)
  <2>0. missing \in {"cancelled", "lost"}
    BY DEF MissingState
  <2>1. /\ owner' = [owner EXCEPT ![k] = "done"]
        /\ run' = [run EXCEPT ![k] = NoRun]
        /\ CompleteLiveAttempt(k)
        /\ row' = [row EXCEPT ![w] = x]
        /\ UNCHANGED phase
    BY <1>3 DEF AfterRun, OwnerEnds, FinalizeWithoutResult
  <2>2. /\ x \in Row /\ x.attempt = row[w].attempt
        /\ x.state = Absent <=> row[w].state = Absent
        /\ ~ Current(k) => x = row[w]
    BY <2>0, FinalizedRow DEF TypeOK, Controls
  <2> HIDE DEF x, missing
  <2>3. TypeOK'
    <3>1. NoRun \in Run
      BY RunOperators DEF TypeOK
    <3> QED BY <2>1, <2>2, <3>1, CompletionTyped DEF TypeOK, RunFrame, OwnerPlaces, stops, closing
  <2>4. Controls'
    BY <2>1, <2>2, CompletionKeepsControls DEF RunFrame
  <2>5. TasksAgree'
    <3>1. \A j \in Attempts : j # k => 
            owner'[j] = owner[j] /\ phase'[j] = phase[j] /\ run'[j] = run[j]
      BY <2>1 DEF TypeOK
    <3>2. owner'[k] = "done" /\ phase'[k] # "pending"
      BY <2>1, <1>1 DEF TypeOK
    <3>3. NumberOf(k) = row[w].attempt /\ row[w].attempt \in Nat
      BY <1>1 DEF Current, TypeOK, Row
    <3>4. ~ (NumberOf(k) > row[w].attempt)
      BY <3>3
    <3>5. owner'[k] \notin Busy /\ OwnerGone(k)'
      BY <3>2 DEF Busy, OwnerGone
    <3>6. UNCHANGED <<stopAt, preflight>>
      BY DEF RunFrame, stops
    <3> QED
      BY <2>1, <2>2, <3>1, <3>2, <3>4, <3>5, <3>6, EndKeepsTasks
  <2> QED BY <2>3, <2>4, <2>5
<1> QED BY <1>2, <1>3

\* The runner leaves its try block holding h.
LEMMA EnterDisconnectKeeps ==
  ASSUME IInv, NEW k \in Attempts, owner[k] \in Busy \ {"created"}, NEW h \in Run,
         EnterDisconnect(k, h), cancelling' \subseteq cancelling, RunFrame
  PROVE  IInv'
<1>1. CASE h.disconnected
  BY <1>1, AfterRunKeeps DEF EnterDisconnect
<1>2. CASE ~ h.disconnected
  <2>1. /\ owner' = [owner EXCEPT ![k] = "disconnecting"]
        /\ run' = [run EXCEPT ![k] = h]
        /\ UNCHANGED <<row, resolution, pending, revoked, live, phase>>
    BY <1>2 DEF EnterDisconnect
  <2>2. TypeOK'
    BY <2>1 DEF IInv, TypeOK, RunFrame, OwnerPlaces, stops, closing
  <2>3. Controls'
    BY <2>1, ControlsKept DEF RunFrame, IInv
  <2>4. TasksAgree'
    BY <2>1, OneActive DEF IInv, TypeOK, TasksAgree, NewcomersAreAbsent, StaleOwnersAreQuiet,
       ConnectingIsStarting, PhaseHasResult, FutureIsUnused, FinalStopHasNoOwner, Current,
       OwnerGone, Over, RunFrame, stops, Busy
  <2> QED BY <2>2, <2>3, <2>4 DEF IInv
<1> QED BY <1>1, <1>2

-----------------------------------------------------------------------------
(***************************************************************************)
(* The owner's steps.                                                      *)
(***************************************************************************)
\* Steps of the runner: results, failures, ends of the stream and disconnects.
LEMMA RunnerStepsKeep ==
  ASSUME IInv, NEW k \in Attempts,
         \/ OwnerFactoryFails(k) \/ OwnerAdapterFails(k)
         \/ \E result \in SdkResult, nested \in BOOLEAN : OwnerResult(k, result, nested)
         \/ \E kind \in {"missing", "eof"} : OwnerStreamEnds(k, kind)
         \/ OwnerSettled(k) \/ OwnerDisconnected(k) \/ OwnerDisconnectFails(k)
  PROVE  IInv'
<1>0. /\ run \in [Attempts -> Run] /\ run[k] \in Run /\ cancelling' \subseteq cancelling
  BY DEF IInv, TypeOK, OwnerFactoryFails, OwnerAdapterFails, OwnerResult, OwnerStreamEnds, OwnerSettled,
     OwnerDisconnected, OwnerDisconnectFails
<1>1. CASE OwnerFactoryFails(k)
  BY <1>0, <1>1, AfterRunKeeps, RunOperators DEF OwnerFactoryFails, OwnerAt, Busy
<1>2. CASE OwnerAdapterFails(k)
  BY <1>0, <1>2, EnterDisconnectKeeps, RunOperators DEF OwnerAdapterFails, OwnerAt, Busy
<1>3. ASSUME NEW result \in SdkResult, NEW nested \in BOOLEAN, OwnerResult(k, result, nested)
      PROVE  IInv'
  <2>1. owner[k] = "running" /\ RunFrame /\ HoldingResult(k, result) \in Run
    BY <1>0, <1>3, RunOperators DEF OwnerResult, OwnerAt
  <2>2. CASE nested
    <3>1. /\ owner' = [owner EXCEPT ![k] = "settling"]
          /\ run' = [run EXCEPT ![k] = HoldingResult(k, result)]
          /\ UNCHANGED <<row, resolution, pending, revoked, live, phase, cancelling>>
      BY <1>3, <2>2 DEF OwnerResult
    <3>2. TypeOK'
      BY <2>1, <3>1 DEF IInv, TypeOK, RunFrame, OwnerPlaces, stops, closing
    <3>3. Controls'
      BY <2>1, <3>1, ControlsKept DEF RunFrame, IInv
    <3>4. TasksAgree'
      BY <2>1, <3>1, OneActive DEF IInv, TypeOK, TasksAgree, NewcomersAreAbsent, StaleOwnersAreQuiet,
         ConnectingIsStarting, PhaseHasResult, FutureIsUnused, FinalStopHasNoOwner, Current,
         OwnerGone, Over, RunFrame, stops, Busy
    <3> QED BY <3>2, <3>3, <3>4 DEF IInv
  <2>3. CASE ~ nested
    BY <1>0, <1>3, <2>1, <2>3, EnterDisconnectKeeps DEF OwnerResult, Busy
  <2> QED BY <2>2, <2>3
<1>4. ASSUME NEW kind \in {"missing", "eof"}, OwnerStreamEnds(k, kind)
      PROVE  IInv'
  BY <1>0, <1>4, EnterDisconnectKeeps, RunOperators DEF OwnerStreamEnds, OwnerAt, Busy
<1>5. CASE OwnerSettled(k)
  BY <1>0, <1>5, EnterDisconnectKeeps DEF OwnerSettled, OwnerAt, Busy
<1>6. CASE OwnerDisconnected(k)
  BY <1>0, <1>6, AfterRunKeeps, RunOperators DEF OwnerDisconnected, OwnerAt, Busy
<1>7. CASE OwnerDisconnectFails(k)
  BY <1>0, <1>7, AfterRunKeeps, RunOperators DEF OwnerDisconnectFails, OwnerAt, Busy
<1> QED BY <1>1, <1>2, <1>3, <1>4, <1>5, <1>6, <1>7

\* The owner registers its transport, when nothing of its worker is pending.
LEMMA OwnerStartKeeps ==
  ASSUME IInv, NEW k \in Attempts, OwnerStart(k)
  PROVE  IInv'
<1> DEFINE w == WorkerOf(k)
<1>1. /\ owner[k] = "created" /\ Current(k) /\ ~ Over(w) /\ row[w].state = Starting
      /\ w \in Workers /\ NumberOf(k) \in 0 .. MaxAttempts
  BY OneActive, AttemptPair DEF OwnerStart, OwnerAt, IInv, TasksAgree, ConnectingIsStarting, Busy
<1>2. TypeOK'
  BY <1>1 DEF OwnerStart, IInv, TypeOK, OwnerPlaces, rows, stops, closing
<1>3. Controls'
  <2>1. /\ live' = [live EXCEPT ![w] = NumberOf(k)]
        /\ UNCHANGED <<row, requested, resolution, pending>>
    BY DEF OwnerStart, rows
  <2>2. LiveIsCurrent'
    BY <1>1, <2>1 DEF IInv, TypeOK, Controls, LiveIsCurrent, Over, Current
  <2>3. PendingIsLive'
    <3>1. RequiresAction # Starting
      BY DEF RequiresAction, Starting
    <3> QED BY <1>1, <2>1, <3>1, AttemptPair DEF IInv, TypeOK, Controls, PendingIsLive, Current, Registered
  <2> QED BY <2>1, <2>2, <2>3 DEF IInv, Controls, RowsAreNumbered, RequestsAreUnresolved
<1>4. TasksAgree'
  BY <1>1, OneActive DEF OwnerStart, IInv, TypeOK, TasksAgree, NewcomersAreAbsent, StaleOwnersAreQuiet,
     ConnectingIsStarting, PhaseHasResult, FutureIsUnused, FinalStopHasNoOwner, Current,
     OwnerGone, Over, rows, stops, Busy
<1> QED BY <1>2, <1>3, <1>4 DEF IInv

\* on_initialized moves the row of the only owner at work from starting.
LEMMA OwnerInitializedKeeps ==
  ASSUME IInv, NEW k \in Attempts, OwnerInitialized(k)
  PROVE  IInv'
<1> DEFINE w == WorkerOf(k)  x == SetHealth(Move(row[w], Running), "healthy")
<1>1. /\ owner[k] = "connecting" /\ Current(k) /\ ~ Over(w) /\ row[w].state = Starting
      /\ w \in Workers /\ row[w] \in Row
      /\ \A j \in Attempts : j # k /\ WorkerOf(j) = w
           => owner[j] \notin Busy /\ phase[j] # "pending"
  BY OneActive, AttemptPair DEF OwnerInitialized, OwnerAt, IInv, TypeOK, TasksAgree, ConnectingIsStarting, Busy
<1>2. x \in Row /\ x.attempt = row[w].attempt /\ x.state = Running
  BY <1>1, RowOperators DEF States, Health
<1>3. /\ owner' = [owner EXCEPT ![k] = "running"]
      /\ row' = [row EXCEPT ![w] = x]
      /\ UNCHANGED <<requested, resolution, preflight, run, cancelling, phase,
                 control, stops, closing>>
  BY DEF OwnerInitialized
<1> HIDE DEF x
<1>4. TypeOK'
  BY <1>1, <1>2, <1>3 DEF IInv, TypeOK, OwnerPlaces, control, stops, closing
<1>5. /\ \A v \in Workers : v # w => row'[v] = row[v]
      /\ row'[w] = x
      /\ Running \notin Terminal /\ Running # Absent /\ Starting # Absent /\ RequiresAction # Starting
  BY <1>1, <1>3 DEF IInv, TypeOK, Terminal, Running, Starting, RequiresAction, Absent
<1>6. Controls'
  <2>1. RowsAreNumbered'
    BY <1>1, <1>2, <1>5 DEF IInv, Controls, RowsAreNumbered
  <2>2. LiveIsCurrent'
    BY <1>1, <1>2, <1>3, <1>5 DEF IInv, Controls, LiveIsCurrent, Over, control
  <2>3. PendingIsLive'
    BY <1>1, <1>3, <1>5, AttemptPair DEF IInv, Controls, PendingIsLive, Current, Registered, control
  <2>4. RequestsAreUnresolved'
    BY <1>3 DEF IInv, Controls, RequestsAreUnresolved, control
  <2> QED BY <2>1, <2>2, <2>3, <2>4 DEF Controls
<1>7. TasksAgree'
  <2>1. \A j \in Attempts : j # k => owner'[j] = owner[j]
    BY <1>3 DEF IInv, TypeOK
  <2>2. owner'[k] = "running"
    BY <1>3 DEF IInv, TypeOK
  <2> HIDE DEF w
  <2>3. NewcomersAreAbsent'
    BY <1>1, <1>3, <1>5 DEF IInv, TypeOK, TasksAgree, NewcomersAreAbsent
  <2>4. StaleOwnersAreQuiet'
    BY <1>1, <1>2, <1>3, <1>5, <2>1, <2>2, AttemptPair
    DEF IInv, TasksAgree, StaleOwnersAreQuiet, Current, Over, Busy, w
  <2>5. ConnectingIsStarting'
    BY <1>1, <1>5, <2>1, <2>2, AttemptPair DEF IInv, TasksAgree, ConnectingIsStarting, Busy
  <2>6. PhaseHasResult'
    BY <1>1, <1>3, <2>1, <2>2 DEF IInv, TasksAgree, PhaseHasResult
  <2>7. FutureIsUnused'
    BY <1>1, <1>2, <1>3, <1>5, <2>1, <2>2, AttemptPair DEF IInv, TasksAgree, FutureIsUnused, stops, w
  <2>8. FinalStopHasNoOwner'
    BY <1>1, <1>3, <2>1, <2>2 DEF IInv, TasksAgree, FinalStopHasNoOwner, stops, OwnerGone
  <2> QED BY <2>3, <2>4, <2>5, <2>6, <2>7, <2>8 DEF TasksAgree
<1> QED BY <1>4, <1>6, <1>7 DEF IInv

\* A cancellation may reach the owner at any of its places.
LEMMA OwnerCancelledKeeps ==
  ASSUME IInv, NEW k \in Attempts, OwnerCancelled(k)
  PROVE  IInv'
<1>0. /\ run \in [Attempts -> Run] /\ run[k] \in Run /\ cancelling' \subseteq cancelling
      /\ cancelling' \subseteq Attempts /\ RunFrame
  BY DEF OwnerCancelled, IInv, TypeOK
<1>1. CASE owner[k] = "created" /\ OwnerEnds(k)
           /\ UNCHANGED <<row, resolution, pending, revoked, live, phase>>
  <2>1. NoRun \in Run
    BY <1>0, RunOperators
  <2>2. TypeOK'
    BY <1>0, <1>1, <2>1 DEF OwnerEnds, IInv, TypeOK, RunFrame, OwnerPlaces, stops, closing
  <2>3. Controls'
    BY <1>0, <1>1, ControlsKept DEF RunFrame, IInv
  <2>4. TasksAgree'
    BY <1>0, <1>1, OneActive DEF OwnerEnds, IInv, TypeOK, TasksAgree, NewcomersAreAbsent,
       StaleOwnersAreQuiet, ConnectingIsStarting, PhaseHasResult, FutureIsUnused,
       FinalStopHasNoOwner, Current, OwnerGone, Over, RunFrame, stops, Busy
  <2> QED BY <2>2, <2>3, <2>4 DEF IInv
<1>2. CASE owner[k] \in {"connecting", "running"} /\ EnterDisconnect(k, Holding(k, "cancelled"))
  BY <1>0, <1>2, EnterDisconnectKeeps, RunOperators DEF Busy
<1>3. CASE owner[k] = "settling" /\ EnterDisconnect(k, run[k])
  BY <1>0, <1>3, EnterDisconnectKeeps DEF Busy
<1>4. CASE owner[k] = "disconnecting" /\ AfterRun(k, Holding(k, "cancelled"))
  BY <1>0, <1>4, AfterRunKeeps, RunOperators DEF Busy
<1>5. CASE UNCHANGED <<row, resolution, pending, revoked, live, phase, run, owner>>
  <2>1. TypeOK'
    BY <1>0, <1>5 DEF IInv, TypeOK, RunFrame, stops, closing
  <2> QED BY <1>0, <1>5, <2>1, ControlsKept, TasksKept DEF RunFrame, IInv, stops
<1> QED BY <1>1, <1>2, <1>3, <1>4, <1>5 DEF OwnerCancelled

\* Recording a result keeps the attempt and the state.
LEMMA RecordedRow ==
  ASSUME NEW k \in Attempts, Completed(k) \in Row,
         run[k].kind \in Results, run[k].session \in BOOLEAN
  PROVE  /\ ResultRecorded(k) \in Row
         /\ ResultRecorded(k).attempt = Completed(k).attempt
         /\ ResultRecorded(k).state = Completed(k).state
<1> DEFINE rec == RecordResult(Completed(k), run[k].kind, run[k].session)
<1>1. rec \in Row /\ rec.attempt = Completed(k).attempt /\ rec.state = Completed(k).state
  BY RowOperators
<1> QED BY <1>1, RowOperators DEF ResultRecorded, Health

\* The result phase ends the attempt whose owner waits for it.
LEMMA PersistKeeps ==
  ASSUME IInv, NEW k \in Attempts, PersistAcceptedResult(k)
  PROVE  IInv'
<1> DEFINE w == WorkerOf(k)  c == Completed(k)  rec == ResultRecorded(k)  t == ResultTarget(k)
<1>1. /\ phase[k] = "pending" /\ owner[k] = "persisting" /\ w \in Workers
      /\ Current(k) /\ run[k].kind \in Results /\ run[k].session \in BOOLEAN
  BY AttemptPair, OneActive
  DEF PersistAcceptedResult, IInv, TypeOK, TasksAgree, PhaseHasResult, Run
<1>2. /\ CompleteLiveAttempt(k)
      /\ phase' = [phase EXCEPT ![k] = "done"]
      /\ UNCHANGED <<requested, preflight, owner, run, cancelling, tasks, stopAt,
                     stopLive, escalated, closing>>
  BY DEF PersistAcceptedResult
<1>3. /\ c \in Row /\ c.attempt = row[w].attempt
      /\ c.state = Absent <=> row[w].state = Absent
  BY CompletedRow DEF IInv, TypeOK
<1>4. rec \in Row /\ rec.attempt = c.attempt /\ rec.state = c.state
  BY <1>1, <1>3, RecordedRow
<1>5. CanMove(c.state, t) =>
        /\ Move(rec, t) \in Row /\ Move(rec, t).attempt = rec.attempt
        /\ Move(rec, t).state # Absent /\ c.state # Absent
  <2> SUFFICES ASSUME CanMove(c.state, t)
               PROVE  /\ Move(rec, t) \in Row /\ Move(rec, t).attempt = rec.attempt
                      /\ Move(rec, t).state # Absent /\ c.state # Absent
    OBVIOUS
  <2>1. c.state \in States \cup {Absent}
    BY <1>3 DEF Row
  <2>2. t \in States /\ c.state # Absent /\ Absent \notin States
    BY <2>1, TransitionTargets DEF States, Starting, Running, RequiresAction, Terminal, Absent
  <2> QED BY <1>4, <2>2, RowOperators
<1>6. PICK x \in Row :
        /\ row' = [row EXCEPT ![w] = x] /\ x.attempt = row[w].attempt
        /\ x.state = Absent <=> row[w].state = Absent
        /\ stopReq' \subseteq stopReq
  <2> HIDE DEF w, c, rec, t
  <2> QED BY <1>3, <1>4, <1>5 DEF PersistAcceptedResult, w, c, rec, t
<1> HIDE DEF w, c, rec, t
<1>7. TypeOK'
  BY <1>2, <1>6, CompletionTyped DEF IInv, TypeOK, closing, w
<1>8. Controls'
  BY <1>1, <1>2, <1>6, CompletionKeepsControls DEF IInv, w
<1>9. TasksAgree'
  <2>1. phase'[k] = "done" /\ \A j \in Attempts : j # k => phase'[j] = phase[j]
    BY <1>2 DEF IInv, TypeOK
  <2>2. NumberOf(k) = row[w].attempt /\ row[w].attempt \in Nat
    BY <1>1 DEF Current, IInv, TypeOK, Row, w
  <2>3. ~ (NumberOf(k) > row[w].attempt)
    BY <2>2
  <2>4. owner'[k] \notin Busy /\ (OwnerGone(k) => OwnerGone(k)')
    BY <1>1, <1>2 DEF Busy, OwnerGone
  <2> QED BY <1>1, <1>2, <1>6, <2>1, <2>3, <2>4, EndKeepsTasks DEF IInv, w
<1> QED BY <1>7, <1>8, <1>9 DEF IInv

\* The owner returns, and the done callbacks of owner and phase run.
LEMMA OwnerEndingsKeep ==
  ASSUME IInv, NEW k \in Attempts,
         OwnerReturns(k) \/ TaskFinished(k) \/ ResultPhaseFinished(k)
  PROVE  IInv'
<1>1. CASE OwnerReturns(k)
  <2>1. NoRun \in Run
    BY RunOperators DEF IInv, TypeOK
  <2>2. TypeOK'
    BY <1>1, <2>1 DEF OwnerReturns, OwnerEnds, IInv, TypeOK, OwnerPlaces, rows, control, stops, closing
  <2>3. Controls'
    BY <1>1, ControlsKept DEF OwnerReturns, IInv, rows, control
  <2>4. TasksAgree'
    BY <1>1 DEF OwnerReturns, OwnerAt, OwnerEnds, IInv, TypeOK, TasksAgree, NewcomersAreAbsent,
       StaleOwnersAreQuiet, ConnectingIsStarting, PhaseHasResult, FutureIsUnused,
       FinalStopHasNoOwner, Current, OwnerGone, Over, rows, stops
  <2> QED BY <2>2, <2>3, <2>4 DEF IInv
<1>2. CASE TaskFinished(k)
  <2>1. TypeOK'
    BY <1>2, MaxAttemptsAssumption, AttemptPair DEF TaskFinished, IInv, TypeOK, rows, owners, stops, closing
  <2> QED BY <1>2, <2>1, ControlsKept, TasksKept DEF TaskFinished, IInv, rows, owners, stops
<1>3. CASE ResultPhaseFinished(k)
  <2>1. TypeOK'
    BY <1>3 DEF ResultPhaseFinished, IInv, TypeOK, rows, control, stops, closing
  <2>2. Controls'
    BY <1>3, ControlsKept DEF ResultPhaseFinished, IInv, rows, control
  <2>3. TasksAgree'
    BY <1>3 DEF ResultPhaseFinished, IInv, TypeOK, TasksAgree, NewcomersAreAbsent,
       StaleOwnersAreQuiet, ConnectingIsStarting, PhaseHasResult, FutureIsUnused,
       FinalStopHasNoOwner, Current, OwnerGone, Over, rows, stops
  <2> QED BY <2>1, <2>2, <2>3 DEF IInv
<1> QED BY <1>1, <1>2, <1>3

-----------------------------------------------------------------------------
(***************************************************************************)
(* spawn and resume.                                                       *)
(***************************************************************************)

\* A new attempt k begins.
LEMMA FreshAttemptKeeps ==
  ASSUME IInv, NEW k \in Attempts,
         row[WorkerOf(k)].state = Absent \/ Over(WorkerOf(k)),
         NumberOf(k) = row[WorkerOf(k)].attempt + 1,
         row' = [row EXCEPT ![WorkerOf(k)] = FreshAttempt(NumberOf(k))],
         owner' = [owner EXCEPT ![k] = "created"],
         tasks' = [tasks EXCEPT ![WorkerOf(k)] = NumberOf(k)],
         preflight' \subseteq preflight \ {WorkerOf(k)} \/ row[WorkerOf(k)].state # Absent,
         preflight' \subseteq preflight,
         UNCHANGED <<requested, resolution, run, cancelling, phase, live, pending,
                     revoked, stops, closing>>
  PROVE  IInv'
<1> DEFINE w == WorkerOf(k)  n == NumberOf(k)  x == FreshAttempt(n)
<1>1. /\ w \in Workers /\ n \in Nat \ {0} /\ n \in 0 .. MaxAttempts
      /\ row[w] \in Row /\ row[w].attempt \in Nat
  BY AttemptPair DEF IInv, TypeOK, Row
<1>2. x \in Row /\ x.attempt = n /\ x.state = Starting /\ Starting # Absent
      /\ Starting \notin Terminal
  BY <1>1 DEF FreshAttempt, Row, States, Starting, Absent, Health, NoResult, Terminal
<1> HIDE DEF x
<1>3. /\ row' = [row EXCEPT ![w] = x]
      /\ row'[w] = x
      /\ \A v \in Workers : v # w => row'[v] = row[v]
      /\ owner'[k] = "created"
      /\ \A j \in Attempts : j # k => owner'[j] = owner[j]
  BY <1>1 DEF IInv, TypeOK, x
<1>4. TypeOK'
  BY <1>1, <1>2, <1>3 DEF IInv, TypeOK, OwnerPlaces, stops, closing
<1>5. live[w] = 0 /\ \A r \in pending : WorkerOf(requested[r]) # w
  <2>1. live[w] # 0 => row[w].attempt # 0 /\ ~ Over(w)
    BY <1>1 DEF IInv, Controls, LiveIsCurrent
  <2>2. row[w].state = Absent <=> row[w].attempt = 0
    BY <1>1 DEF IInv, Controls, RowsAreNumbered
  <2>3. RequiresAction \notin Terminal /\ RequiresAction # Absent
    BY DEF RequiresAction, Terminal, Absent
  <2>4. \A r \in pending : row[WorkerOf(requested[r])].state = RequiresAction
    BY DEF IInv, Controls, PendingIsLive
  <2> QED BY <2>1, <2>2, <2>3, <2>4 DEF Over
<1>6. Controls'
  <2>1. RowsAreNumbered'
    BY <1>1, <1>2, <1>3 DEF IInv, Controls, RowsAreNumbered
  <2>2. LiveIsCurrent'
    BY <1>3, <1>5 DEF IInv, Controls, LiveIsCurrent, Over
  <2>3. PendingIsLive'
    BY <1>3, <1>5, AttemptPair DEF IInv, Controls, PendingIsLive, Current, Registered
  <2>4. RequestsAreUnresolved'
    BY DEF IInv, Controls, RequestsAreUnresolved
  <2> QED BY <2>1, <2>2, <2>3, <2>4 DEF Controls
<1>7. /\ owner[k] = "none" /\ phase[k] = "none" /\ stopAt[k] = "idle"
  BY <1>1 DEF IInv, TasksAgree, FutureIsUnused
<1>8. \A j \in Attempts : owner[j] \in Busy \/ phase[j] = "pending" => WorkerOf(j) # w
  <2> SUFFICES ASSUME NEW j \in Attempts, owner[j] \in Busy \/ phase[j] = "pending",
                      WorkerOf(j) = w
               PROVE  FALSE
    OBVIOUS
  <2>1. Current(j) /\ ~ Over(w)
    BY OneActive DEF IInv
  <2>2. row[w].state = Absent /\ row[w].attempt # 0
    BY <2>1, AttemptPair DEF Current
  <2> QED BY <1>1, <2>2 DEF IInv, Controls, RowsAreNumbered
<1>9. TasksAgree'
  <2>1. NewcomersAreAbsent'
    BY <1>1, <1>3 DEF IInv, TypeOK, TasksAgree, NewcomersAreAbsent
  <2>2. StaleOwnersAreQuiet'
    BY <1>1, <1>2, <1>3, <1>7, <1>8, AttemptPair
    DEF IInv, TasksAgree, StaleOwnersAreQuiet, Current, Over, Busy
  <2>3. ConnectingIsStarting'
    BY <1>2, <1>3, <1>8, AttemptPair DEF IInv, TasksAgree, ConnectingIsStarting, Busy
  <2>4. PhaseHasResult'
    BY <1>3, <1>7 DEF IInv, TasksAgree, PhaseHasResult
  <2>5. FutureIsUnused'
    BY <1>1, <1>2, <1>3, AttemptPair DEF IInv, TasksAgree, FutureIsUnused, stops
  <2>6. FinalStopHasNoOwner'
    BY <1>3, <1>7 DEF IInv, TasksAgree, FinalStopHasNoOwner, stops, OwnerGone
  <2> QED BY <2>1, <2>2, <2>3, <2>4, <2>5, <2>6 DEF TasksAgree
<1> QED BY <1>4, <1>6, <1>9 DEF IInv

\* stop, from a client or from close, starts or joins the operation of k.
LEMMA RequestStopKeeps ==
  ASSUME IInv, NEW k \in Attempts, NEW force \in BOOLEAN,
         NumberOf(k) = row[WorkerOf(k)].attempt, RequestStop(k, force),
         UNCHANGED <<rows, preflight, owners, control>>,
         closeAt' \in ClosePlaces, closeTodo' \subseteq Workers,
         closeWait' \in Attempts \cup {NoAttempt}
  PROVE  IInv'
<1>1. Registered(k) \in BOOLEAN /\ (escalated[k] \/ (force /\ Graceful(k))) \in BOOLEAN
  BY DEF Registered
<1>2. /\ stopReq' \subseteq Attempts
      /\ stopAt' \in [Attempts -> StopPlaces]
      /\ stopLive' \in [Attempts -> BOOLEAN]
      /\ escalated' \in [Attempts -> BOOLEAN]
  BY <1>1 DEF RequestStop, IInv, TypeOK, StopPlaces
<1>3. TypeOK'
  BY <1>2 DEF IInv, TypeOK, rows, owners, control
<1>4. Controls'
  BY ControlsKept DEF IInv, rows, control
<1>5. /\ \A j \in Attempts : j # k => stopAt'[j] = stopAt[j]
      /\ stopAt'[k] \in {stopAt[k], "begin"}
  BY DEF RequestStop, IInv, TypeOK
<1>6. ~ (NumberOf(k) > row[WorkerOf(k)].attempt)
  BY AttemptPair
<1>7. TasksAgree'
  BY <1>5, <1>6 DEF IInv, TasksAgree, NewcomersAreAbsent, StaleOwnersAreQuiet,
     ConnectingIsStarting, PhaseHasResult, FutureIsUnused, FinalStopHasNoOwner, Current,
     OwnerGone, Over, rows, owners
<1> QED BY <1>3, <1>4, <1>7 DEF IInv

\* Steps of clients: spawn, resume and stop.
LEMMA ClientStepsKeep ==
  ASSUME IInv, NEW w \in Workers, ClientStep(w)
  PROVE  IInv'
<1>1. CASE SpawnBegin(w)
  <2>1. TypeOK'
    BY <1>1 DEF SpawnBegin, IInv, TypeOK, rows, owners, control, stops, closing
  <2>2. Controls'
    BY <1>1, ControlsKept DEF SpawnBegin, IInv, rows, control
  <2>3. TasksAgree'
    BY <1>1 DEF SpawnBegin, IInv, TasksAgree, NewcomersAreAbsent, StaleOwnersAreQuiet,
       ConnectingIsStarting, PhaseHasResult, FutureIsUnused, FinalStopHasNoOwner, Current,
       OwnerGone, Over, rows, owners, stops
  <2> QED BY <2>1, <2>2, <2>3 DEF IInv
<1>2. CASE SpawnCommit(w)
  <2> DEFINE k == <<w, 1>>
  <2>1. k \in Attempts /\ WorkerOf(k) = w /\ NumberOf(k) = 1
    BY MaxAttemptsAssumption DEF Attempts, WorkerOf, NumberOf
  <2>2. row[w].state = Absent
    BY <1>2 DEF SpawnCommit, PreflightPassed, IInv, TasksAgree, NewcomersAreAbsent
  <2>3. row[w].attempt = 0
    BY <2>2 DEF IInv, Controls, RowsAreNumbered
  <2>4. /\ row' = [row EXCEPT ![w] = FreshAttempt(1)]
        /\ owner' = [owner EXCEPT ![k] = "created"]
        /\ tasks' = [tasks EXCEPT ![w] = 1]
        /\ preflight' = preflight \ {w}
        /\ UNCHANGED <<requested, resolution, run, cancelling, phase, live, pending,
                       revoked, stops, closing>>
    BY <1>2 DEF SpawnCommit
  <2>5. NumberOf(k) = row[WorkerOf(k)].attempt + 1
    BY <2>1, <2>3
  <2> HIDE DEF k
  <2> QED BY <2>1, <2>2, <2>4, <2>5, FreshAttemptKeeps
<1>3. CASE SpawnRefused(w)
  <2>1. TypeOK'
    BY <1>3 DEF SpawnRefused, IInv, TypeOK, rows, owners, control, stops, closing
  <2> QED BY <1>3, <2>1, ControlsKept, TasksKept DEF SpawnRefused, IInv, rows, owners, control, stops
<1>4. CASE Resume(w)
  <2> DEFINE n == row[w].attempt + 1  k == <<w, n>>
  <2>1. row[w].attempt \in Nat
    BY DEF IInv, TypeOK, Row
  <2>2. k \in Attempts /\ WorkerOf(k) = w /\ NumberOf(k) = n
    BY <1>4, <2>1, MaxAttemptsAssumption DEF Resume, Attempts, WorkerOf, NumberOf
  <2>3. Over(w) /\ row[w].state # Absent
    BY <1>4 DEF Resume, MayResume, Over, Resumable, Terminal, Absent
  <2>4. /\ row' = [row EXCEPT ![w] = FreshAttempt(n)]
        /\ owner' = [owner EXCEPT ![k] = "created"]
        /\ tasks' = [tasks EXCEPT ![w] = n]
        /\ UNCHANGED <<requested, resolution, preflight, run, cancelling, phase, live,
                       pending, revoked, stops, closing>>
    BY <1>4 DEF Resume
  <2> HIDE DEF k
  <2> QED BY <2>2, <2>3, <2>4, FreshAttemptKeeps
<1>5. ASSUME NEW force \in BOOLEAN, Stop(w, force)
      PROVE  IInv'
  <2> DEFINE k == <<w, row[w].attempt>>
  <2>1. k \in Attempts /\ NumberOf(k) = row[WorkerOf(k)].attempt
    BY <1>5 DEF Stop, CanStop, IInv, TypeOK, Row, Controls, RowsAreNumbered, Attempts, WorkerOf, NumberOf
  <2>2. /\ RequestStop(k, force)
        /\ UNCHANGED <<rows, preflight, owners, control, closing>>
    BY <1>5 DEF Stop
  <2>3. /\ closeAt' \in ClosePlaces /\ closeTodo' \subseteq Workers
        /\ closeWait' \in Attempts \cup {NoAttempt}
    BY <2>2 DEF IInv, TypeOK, closing
  <2> HIDE DEF k
  <2> QED BY <2>1, <2>2, <2>3, RequestStopKeeps
<1> QED BY <1>1, <1>2, <1>3, <1>4, <1>5 DEF ClientStep

-----------------------------------------------------------------------------
(***************************************************************************)
(* Approvals.                                                              *)
(***************************************************************************)

\* Only the row of k's worker changes, to another working state.
LEMMA WorkingRowKeepsTasks ==
  ASSUME TypeOK, TasksAgree, NEW k \in Attempts, NEW to \in {Running, RequiresAction},
         row[WorkerOf(k)].state \in {Running, RequiresAction},
         row' = [row EXCEPT ![WorkerOf(k)] = Move(@, to)],
         UNCHANGED <<preflight, owner, run, phase, stopAt>>
  PROVE  /\ row' \in [Workers -> Row]
         /\ \A v \in Workers :
              /\ row'[v].attempt = row[v].attempt
              /\ Over(v)' = Over(v)
              /\ row'[v].state = Absent <=> row[v].state = Absent
              /\ v # WorkerOf(k) => row'[v] = row[v]
         /\ row'[WorkerOf(k)].state = to
         /\ TasksAgree'
<1> DEFINE w == WorkerOf(k)
<1>0. to \in States /\ {Running, RequiresAction} \cap Terminal = {}
      /\ Absent \notin {Running, RequiresAction} /\ Starting \notin {Running, RequiresAction}
  BY DEF States, Running, RequiresAction, Terminal, Absent, Starting
<1>1. /\ w \in Workers /\ Move(row[w], to) \in Row
      /\ Move(row[w], to).attempt = row[w].attempt /\ Move(row[w], to).state = to
  BY <1>0, AttemptPair, RowOperators DEF TypeOK
<1>2. /\ row' \in [Workers -> Row]
      /\ row'[w] = Move(row[w], to)
      /\ \A v \in Workers : v # w => row'[v] = row[v]
  BY <1>1 DEF TypeOK
<1>3. \A v \in Workers :
        /\ row'[v].attempt = row[v].attempt
        /\ Over(v)' = Over(v)
        /\ row'[v].state = Absent <=> row[v].state = Absent
        /\ row[v].state = Starting => row'[v] = row[v]
  BY <1>0, <1>1, <1>2 DEF Over
<1>4. TasksAgree'
  BY <1>3, AttemptPair DEF TypeOK, TasksAgree, NewcomersAreAbsent, StaleOwnersAreQuiet,
     ConnectingIsStarting, PhaseHasResult, FutureIsUnused, FinalStopHasNoOwner, Current, OwnerGone
<1> QED BY <1>1, <1>2, <1>3, <1>4

\* Steps of approvals: a request, its answer, and a cancelled callback.
LEMMA ApprovalStepsKeep ==
  ASSUME IInv, NEW r \in Requests, ApprovalStep(r)
  PROVE  IInv'
<1>1. ASSUME NEW k \in Attempts, RequestApproval(k, r)
      PROVE  IInv'
  <2> DEFINE w == WorkerOf(k)
  <2>1. /\ row' \in [Workers -> Row]
        /\ \A v \in Workers :
             /\ row'[v].attempt = row[v].attempt
             /\ Over(v)' = Over(v)
             /\ row'[v].state = Absent <=> row[v].state = Absent
             /\ v # w => row'[v] = row[v]
        /\ row'[w].state = RequiresAction
        /\ TasksAgree'
    BY <1>1, WorkingRowKeepsTasks DEF RequestApproval, IInv, owners, stops
  <2>2. /\ requested[r] = NoAttempt /\ requested' = [requested EXCEPT ![r] = k]
        /\ pending' = pending \cup {r}
        /\ Current(k) /\ Registered(k)
        /\ UNCHANGED <<resolution, preflight, owners, live, tasks, revoked, stops, closing>>
    BY <1>1 DEF RequestApproval
  <2>3. TypeOK'
    BY <2>1, <2>2 DEF IInv, TypeOK, owners, stops, closing
  <2>4. Controls'
    <3>1. RowsAreNumbered'
      BY <2>1 DEF IInv, Controls, RowsAreNumbered
    <3>2. LiveIsCurrent'
      BY <2>1, <2>2 DEF IInv, Controls, LiveIsCurrent
    <3>3. PendingIsLive'
      <4> SUFFICES ASSUME NEW q \in pending'
                   PROVE  /\ requested'[q] \in Attempts
                          /\ row'[WorkerOf(requested'[q])].attempt = NumberOf(requested'[q])
                          /\ live'[WorkerOf(requested'[q])] = NumberOf(requested'[q])
                          /\ row'[WorkerOf(requested'[q])].state = RequiresAction
        BY DEF PendingIsLive, Current, Registered
      <4>1. CASE q = r
        <5>1. requested'[q] = k
          BY <4>1, <2>2 DEF IInv, TypeOK
        <5> QED BY <5>1, <2>1, <2>2, AttemptPair DEF Current, Registered
      <4>2. CASE q # r
        <5>1. q \in pending /\ requested'[q] = requested[q]
          BY <4>2, <2>2 DEF IInv, TypeOK
        <5> QED BY <5>1, <2>1, <2>2, AttemptPair DEF IInv, Controls, PendingIsLive, Current, Registered
      <4> QED BY <4>1, <4>2
    <3>4. RequestsAreUnresolved'
      BY <2>2 DEF IInv, TypeOK, Controls, RequestsAreUnresolved
    <3> QED BY <3>1, <3>2, <3>3, <3>4 DEF Controls
  <2> QED BY <2>1, <2>3, <2>4 DEF IInv
<1>2. CASE Respond(r)
  <2> DEFINE k == requested[r]  w == WorkerOf(k)
             to == IF LastPending(r) THEN Running ELSE RequiresAction
  <2>1. /\ k \in Attempts /\ r \in pending /\ Current(k) /\ Registered(k)
        /\ row[w].state = RequiresAction
    BY <1>2 DEF Respond, MayAnswer, IInv, Controls, PendingIsLive
  <2>2. row' = [row EXCEPT ![w] = Move(@, to)]
    <3>1. Move(row[w], RequiresAction) = row[w]
      BY <2>1, AttemptPair DEF Move, IInv, TypeOK, Row
    <3> QED BY <1>2, <3>1 DEF Respond
  <2>3. /\ resolution' = [resolution EXCEPT ![r] = "responded"]
        /\ pending' = pending \ {r}
        /\ revoked' = revoked \ {r}
        /\ UNCHANGED <<requested, preflight, owners, live, tasks, stops, closing>>
    BY <1>2 DEF Respond
  <2>4. /\ row' \in [Workers -> Row]
        /\ \A v \in Workers :
             /\ row'[v].attempt = row[v].attempt
             /\ Over(v)' = Over(v)
             /\ row'[v].state = Absent <=> row[v].state = Absent
             /\ v # w => row'[v] = row[v]
        /\ row'[w].state = to
        /\ TasksAgree'
    BY <2>1, <2>2, <2>3, WorkingRowKeepsTasks DEF IInv, owners, stops
  <2>5. TypeOK'
    BY <2>3, <2>4 DEF IInv, TypeOK, owners, stops, closing
  <2>6. Controls'
    <3>1. RowsAreNumbered'
      BY <2>4 DEF IInv, Controls, RowsAreNumbered
    <3>2. LiveIsCurrent'
      BY <2>3, <2>4 DEF IInv, Controls, LiveIsCurrent
    <3>3. PendingIsLive'
      <4> SUFFICES ASSUME NEW q \in pending'
                   PROVE  /\ requested[q] \in Attempts
                          /\ row'[WorkerOf(requested[q])].attempt = NumberOf(requested[q])
                          /\ live'[WorkerOf(requested[q])] = NumberOf(requested[q])
                          /\ row'[WorkerOf(requested[q])].state = RequiresAction
        BY <2>3 DEF PendingIsLive, Current, Registered
      <4> DEFINE j == requested[q]
      <4>1. /\ q \in pending /\ q # r /\ j \in Attempts /\ Current(j) /\ Registered(j)
            /\ row[WorkerOf(j)].state = RequiresAction
        BY <2>3 DEF IInv, Controls, PendingIsLive
      <4>2. WorkerOf(j) = w => j = k
        BY <2>1, <4>1, AttemptPair DEF Current
      <4>3. WorkerOf(j) = w => ~ LastPending(r)
        BY <4>1, <4>2 DEF LastPending, PendingOf
      <4> QED BY <2>3, <2>4, <4>1, <4>3, AttemptPair DEF Current, Registered
    <3>4. RequestsAreUnresolved'
      <4>1. k # NoAttempt
        BY <2>1 DEF NoAttempt, Attempts
      <4> QED BY <2>3, <4>1 DEF IInv, TypeOK, Controls, RequestsAreUnresolved
    <3> QED BY <3>1, <3>2, <3>3, <3>4 DEF Controls
  <2> QED BY <2>4, <2>5, <2>6 DEF IInv
<1>3. CASE CallbackCancelled(r)
  <2>1. TypeOK'
    BY <1>3 DEF CallbackCancelled, IInv, TypeOK, rows, owners, stops, closing
  <2> QED BY <1>3, <2>1, ControlsKept, TasksKept DEF CallbackCancelled, IInv, rows, owners, stops
<1>4. CASE CallbackCleanup(r)
  <2>1. TypeOK'
    BY <1>4 DEF CallbackCleanup, IInv, TypeOK, rows, owners, stops, closing
  <2> QED BY <1>4, <2>1, ControlsKept, TasksKept DEF CallbackCleanup, IInv, rows, owners, stops
<1> QED BY <1>1, <1>2, <1>3, <1>4 DEF ApprovalStep

-----------------------------------------------------------------------------
(***************************************************************************)
(* stop and close.                                                         *)
(***************************************************************************)
\* A stop operation moves on; it reaches its last place without an owner.
LEMMA StopMovesKeeps ==
  ASSUME IInv, NEW k \in Attempts, NEW from \in StopPlaces \ {"idle"}, NEW to \in StopPlaces,
         StopMoves(k, from, to), to = "final" => OwnerGone(k),
         cancelling' \subseteq Attempts, run' \in [Attempts -> Run],
         \A j \in Attempts : run'[j].kind = run[j].kind,
         StopFrame
  PROVE  IInv'
<1>1. /\ stopAt[k] # "idle" /\ stopAt' = [stopAt EXCEPT ![k] = to]
      /\ stopLive' = [stopLive EXCEPT ![k] = FALSE]
      /\ escalated' = [escalated EXCEPT ![k] = @ /\ to \in {"yield", "grace"}]
  BY DEF StopMoves
<1>2. TypeOK'
  <2>1. (escalated[k] /\ to \in {"yield", "grace"}) \in BOOLEAN
    BY DEF IInv, TypeOK
  <2>2. stopLive' \in [Attempts -> BOOLEAN] /\ escalated' \in [Attempts -> BOOLEAN]
    BY <1>1, <2>1 DEF IInv, TypeOK
  <2> QED BY <1>1, <2>2 DEF IInv, TypeOK, StopFrame, rows, control, closing
<1>3. Controls'
  BY ControlsKept DEF StopFrame, IInv, rows, control
<1>4. TasksAgree'
  BY <1>1 DEF StopFrame, IInv, TypeOK, TasksAgree, NewcomersAreAbsent, StaleOwnersAreQuiet,
     ConnectingIsStarting, PhaseHasResult, FutureIsUnused, FinalStopHasNoOwner, Current,
     OwnerGone, Over, rows
<1> QED BY <1>2, <1>3, <1>4 DEF IInv

\* ... and so it does where it joins the result phase or cancels the owner.
LEMMA JoinOrCancelKeeps ==
  ASSUME IInv, NEW k \in Attempts, NEW from \in StopPlaces \ {"idle"},
         JoinOrCancel(k, from), run' \in [Attempts -> Run],
         \A j \in Attempts : run'[j].kind = run[j].kind, StopFrame
  PROVE  IInv'
<1>1. cancelling \subseteq Attempts /\ cancelling \cup {k} \subseteq Attempts
  BY DEF IInv, TypeOK
<1> QED BY <1>1, StopMovesKeeps DEF JoinOrCancel, CancelOwner, StopPlaces

\* Steps of a stop operation, of which the last finalises the attempt.
LEMMA StopStepsKeep ==
  ASSUME IInv, NEW k \in Attempts, StopStep(k)
  PROVE  IInv'
<1>0. /\ cancelling \subseteq Attempts /\ cancelling \cup {k} \subseteq Attempts
      /\ run \in [Attempts -> Run]
  BY DEF IInv, TypeOK
<1>a. ASSUME NEW from \in StopPlaces \ {"idle"}, NEW known, StopChoose(k, from, known),
             UNCHANGED run, StopFrame
      PROVE  IInv'
  BY <1>0, <1>a, StopMovesKeeps, JoinOrCancelKeeps DEF StopChoose, StopPlaces
<1>1. CASE StopBegin(k)
  BY <1>0, <1>1, <1>a, StopMovesKeeps DEF StopBegin, StopPlaces
<1>2. CASE StopYield(k)
  BY <1>2, <1>a DEF StopYield, StopPlaces
<1>3. CASE StopGrace(k)
  BY <1>0, <1>3, StopMovesKeeps DEF StopGrace, StopPlaces, OwnerGone
<1>4. CASE StopDisconnect(k)
  <2>1. run' \in [Attempts -> Run] /\ \A j \in Attempts : run'[j].kind = run[j].kind
    <3>1. CASE UNCHANGED run
      BY <1>0, <3>1
    <3>2. CASE run' = [run EXCEPT ![k].disconnected = TRUE]
      <4>1. run' = [run EXCEPT ![k] = [run[k] EXCEPT !.disconnected = TRUE]]
        BY <3>2
      <4>2. [run[k] EXCEPT !.disconnected = TRUE].kind = run[k].kind
        BY <1>0 DEF Run
      <4> QED BY <1>0, <4>1, <4>2, RunOperators
    <3> QED BY <1>4, <3>1, <3>2 DEF StopDisconnect
  <2> QED BY <1>4, <2>1, JoinOrCancelKeeps DEF StopDisconnect, StopPlaces
<1>5. CASE StopCancelOwner(k)
  BY <1>0, <1>5, StopMovesKeeps DEF StopCancelOwner, CancelOwner, StopPlaces
<1>6. CASE StopGather(k)
  BY <1>0, <1>6, StopMovesKeeps DEF StopGather, StopPlaces
<1>7. CASE StopJoin(k)
  BY <1>0, <1>7, StopMovesKeeps DEF StopJoin, StopPlaces
<1>8. CASE StopFinal(k)
  <2> DEFINE w == WorkerOf(k)  x == Finalized(k, "cancelled")
  <2>1. /\ CompleteLiveAttempt(k)
        /\ row' = [row EXCEPT ![w] = x]
        /\ stopAt[k] = "final" /\ stopAt' = [stopAt EXCEPT ![k] = "idle"]
        /\ stopLive' = [stopLive EXCEPT ![k] = FALSE]
        /\ escalated' = [escalated EXCEPT ![k] = @ /\ "idle" \in {"yield", "grace"}]
        /\ UNCHANGED <<requested, preflight, owners, tasks, closeTodo, closeWait>>
        /\ stopReq' \subseteq stopReq
        /\ closeAt' \in {closeAt, "aborted"}
    BY <1>8 DEF StopFinal, StopMoves, FinalizeWithoutResult
  <2>2. /\ x \in Row /\ x.attempt = row[w].attempt
        /\ x.state = Absent <=> row[w].state = Absent
        /\ ~ Current(k) => x = row[w]
    BY FinalizedRow DEF IInv, TypeOK, Controls
  <2> HIDE DEF x
  <2>3. TypeOK'
    <3>1. stopLive' \in [Attempts -> BOOLEAN] /\ escalated' \in [Attempts -> BOOLEAN]
          /\ stopAt' \in [Attempts -> StopPlaces] /\ closeAt' \in ClosePlaces
      BY <2>1 DEF IInv, TypeOK, StopPlaces, ClosePlaces
    <3>2. row' \in [Workers -> Row]
      BY <2>1, <2>2 DEF IInv, TypeOK
    <3> QED BY <2>1, <3>1, <3>2, CompletionTyped DEF IInv, TypeOK, owners
  <2>4. Controls'
    BY <2>1, <2>2, CompletionKeepsControls DEF IInv
  <2>5. TasksAgree'
    <3>1. OwnerGone(k) /\ owner[k] \notin Busy /\ phase[k] # "pending"
      BY <2>1 DEF IInv, TasksAgree, FinalStopHasNoOwner, PhaseHasResult, OwnerGone, Busy
    <3>2. \A j \in Attempts : stopAt'[j] \in {stopAt[j], "idle"}
      BY <2>1 DEF IInv, TypeOK
    <3>3. NumberOf(k) > row[w].attempt => owner[k] = "none" /\ phase[k] = "none"
      BY DEF IInv, TasksAgree, FutureIsUnused
    <3>4. UNCHANGED <<owner, phase, run>> /\ (OwnerGone(k) => OwnerGone(k)')
      BY <2>1 DEF owners, OwnerGone
    <3> QED BY <2>1, <2>2, <3>1, <3>2, <3>3, <3>4, EndKeepsTasks DEF IInv
  <2> QED BY <2>3, <2>4, <2>5 DEF IInv
<1> QED BY <1>1, <1>2, <1>3, <1>4, <1>5, <1>6, <1>7, <1>8 DEF StopStep

\* Steps of close, which only stop and cancel.
LEMMA CloseStepsKeep ==
  ASSUME IInv, CloseStep
  PROVE  IInv'
<1>1. CASE CloseBegin \/ CloseStopReturns \/ CloseDrain \/ CloseEnd
  <2>1. TypeOK'
    <3>1. CASE CloseBegin
      BY <3>1 DEF CloseBegin, IInv, TypeOK, ClosePlaces, rows, owners, control, stops
    <3>2. CASE CloseStopReturns
      BY <3>2 DEF CloseStopReturns, IInv, TypeOK, rows, owners, control, stops
    <3>3. CASE CloseDrain
      BY <3>3 DEF CloseDrain, IInv, TypeOK, ClosePlaces, rows, control, stops
    <3>4. CASE CloseEnd
      BY <3>4, MaxAttemptsAssumption DEF CloseEnd, IInv, TypeOK, ClosePlaces, rows, owners, stops
    <3> QED BY <1>1, <3>1, <3>2, <3>3, <3>4
  <2>2. UNCHANGED <<row, requested, resolution, live, pending, preflight, owner, run, phase, stopAt>>
    BY <1>1 DEF CloseBegin, CloseStopReturns, CloseDrain, CloseEnd, rows, owners, control, stops
  <2> QED BY <2>1, <2>2, ControlsKept, TasksKept DEF IInv
<1>2. ASSUME NEW w \in Workers, CloseStop(w)
      PROVE  IInv'
  <2>1. CASE CanStop(w)
    <3> DEFINE k == <<w, row[w].attempt>>
    <3>1. k \in Attempts /\ NumberOf(k) = row[WorkerOf(k)].attempt
      BY <2>1 DEF CanStop, IInv, TypeOK, Row, Controls, RowsAreNumbered, Attempts, WorkerOf, NumberOf
    <3>2. /\ RequestStop(k, TRUE) /\ closeWait' = k
          /\ UNCHANGED <<rows, preflight, owners, control, closeAt, closeTodo>>
      BY <1>2, <2>1 DEF CloseStop
    <3>3. /\ closeAt' \in ClosePlaces /\ closeTodo' \subseteq Workers
          /\ closeWait' \in Attempts \cup {NoAttempt}
      BY <3>1, <3>2 DEF IInv, TypeOK
    <3> HIDE DEF k
    <3> QED BY <3>1, <3>2, <3>3, RequestStopKeeps
  <2>2. CASE ~ CanStop(w)
    <3>1. TypeOK'
      BY <1>2, <2>2 DEF CloseStop, IInv, TypeOK, rows, owners, control, stops
    <3> QED
      BY <1>2, <2>2, <3>1, ControlsKept, TasksKept
      DEF CloseStop, IInv, rows, owners, control, stops
  <2> QED BY <2>1, <2>2
<1> QED BY <1>1, <1>2 DEF CloseStep

\* A new process finds the rows and nothing else.
LEMMA FreshProcessKeeps ==
  ASSUME IInv, FreshProcess
  PROVE  IInv'
<1>1. TypeOK'
  BY MaxAttemptsAssumption
  DEF FreshProcess, IInv, TypeOK, rows, OwnerPlaces, StopPlaces, ClosePlaces, Run, NoRun, Results, NoResult
<1>2. Controls'
  BY DEF FreshProcess, IInv, Controls, RowsAreNumbered, LiveIsCurrent, PendingIsLive,
     RequestsAreUnresolved, rows
<1>3. TasksAgree'
  BY DEF FreshProcess, IInv, TasksAgree, NewcomersAreAbsent, StaleOwnersAreQuiet,
     ConnectingIsStarting, PhaseHasResult, FutureIsUnused, FinalStopHasNoOwner, rows
<1> QED BY <1>1, <1>2, <1>3 DEF IInv

-----------------------------------------------------------------------------
(***************************************************************************)
(* The inductive invariant.                                                *)
(***************************************************************************)
\* The invariant holds initially.
LEMMA InitIInv == Init => IInv
<1> SUFFICES ASSUME Init PROVE IInv
  OBVIOUS
<1>0. NoRow \in Row /\ NoRow.attempt = 0 /\ NoRow.state = Absent /\ Absent \notin Terminal
  BY DEF NoRow, Row, Absent, Health, NoResult, Terminal
<1>1. TypeOK
  BY <1>0, MaxAttemptsAssumption
  DEF Init, TypeOK, OwnerPlaces, StopPlaces, ClosePlaces, Run, NoRun, Results, NoResult
<1>2. Controls
  BY <1>0, MaxAttemptsAssumption
  DEF Init, Controls, RowsAreNumbered, LiveIsCurrent, PendingIsLive, RequestsAreUnresolved
<1>3. TasksAgree
  BY <1>0
  DEF Init, TasksAgree, NewcomersAreAbsent, StaleOwnersAreQuiet, ConnectingIsStarting,
      PhaseHasResult, FutureIsUnused, FinalStopHasNoOwner
<1> QED BY <1>1, <1>2, <1>3 DEF IInv

\* Every step keeps the invariant.
LEMMA NextIInv == IInv /\ [Next]_vars => IInv'
<1> SUFFICES ASSUME IInv, [Next]_vars PROVE IInv'
  OBVIOUS
<1>1. ASSUME NEW k \in Attempts, OwnerStep(k) PROVE IInv'
  BY <1>1, RunnerStepsKeep, OwnerStartKeeps, OwnerInitializedKeeps, OwnerCancelledKeeps,
     PersistKeeps, OwnerEndingsKeep DEF OwnerStep
<1>2. CASE UNCHANGED vars
  <2>1. TypeOK'
    BY <1>2 DEF IInv, TypeOK, vars, rows, owners, control, stops, closing
  <2> QED
    BY <1>2, <2>1, ControlsKept, TasksKept DEF IInv, vars, rows, owners, control, stops
<1> QED
  BY <1>1, <1>2, ClientStepsKeep, StopStepsKeep, ApprovalStepsKeep, CloseStepsKeep,
     FreshProcessKeeps DEF Next, Restart, Crash

\* The invariant holds in every state of every behaviour.
THEOREM Invariant == Spec => []IInv
BY InitIInv, NextIInv, PTL DEF Spec

-----------------------------------------------------------------------------
(***************************************************************************)
(* What follows from it.                                                   *)
(***************************************************************************)

\* Every variable keeps its type.
THEOREM TypeCorrect == Spec => []TypeOK
BY Invariant, PTL DEF IInv

\* A request that can be answered belongs to the live, waiting attempt.
THEOREM PendingRequestsAreLive == Spec => []PendingIsLive
BY Invariant, PTL DEF IInv, Controls

\* Nothing of an earlier or ended attempt can still write to its worker's row.
THEOREM StaleOwnersStayQuiet == Spec => []StaleOwnersAreQuiet
BY Invariant, PTL DEF IInv, TasksAgree

\* A terminal row leaves no transport and no request behind.
THEOREM TerminalIsClean == Spec => []TerminalReleasesControls
<1>1. IInv => TerminalReleasesControls
  <2>1. RequiresAction \notin Terminal
    BY DEF RequiresAction, Terminal
  <2> QED
    BY <2>1 DEF IInv, TypeOK, Controls, LiveIsCurrent, PendingIsLive,
       TerminalReleasesControls, Over
<1> QED BY <1>1, Invariant, PTL

-----------------------------------------------------------------------------
(***************************************************************************)
(* What a step may do to answers.                                          *)
(***************************************************************************)
\* Only a pending request is resolved.
LEMMA OnlyPendingResolved ==
  ASSUME IInv, [Next]_vars, NEW r \in Requests, resolution'[r] # resolution[r]
  PROVE  r \in pending
<1>a. ASSUME NEW k \in Attempts, CompleteLiveAttempt(k)
      PROVE  r \in pending
  <2>1. r \in Gone(k)
    BY <1>a DEF CompleteLiveAttempt
  <2> QED BY <2>1 DEF Gone, PendingOf
<1>b. ASSUME NEW k \in Attempts, NEW h, AfterRun(k, h)
      PROVE  r \in pending
  BY <1>a, <1>b DEF AfterRun, FinalizeWithoutResult
<1>c. ASSUME NEW k \in Attempts, NEW h, EnterDisconnect(k, h)
      PROVE  r \in pending
  BY <1>b, <1>c DEF EnterDisconnect
<1>1. ASSUME NEW w \in Workers, ClientStep(w) PROVE FALSE
  BY <1>1 DEF ClientStep, SpawnBegin, SpawnCommit, SpawnRefused, Resume, Stop, rows
<1>2. ASSUME NEW k \in Attempts, OwnerStep(k) PROVE r \in pending
  <2>1. CASE OwnerStart(k) \/ OwnerInitialized(k) \/ OwnerReturns(k) \/ TaskFinished(k)
             \/ ResultPhaseFinished(k)
    BY <2>1 DEF OwnerStart, OwnerInitialized, OwnerReturns, TaskFinished, ResultPhaseFinished, rows
  <2>2. CASE OwnerFactoryFails(k) \/ OwnerDisconnected(k) \/ OwnerDisconnectFails(k)
    BY <1>b, <2>2 DEF OwnerFactoryFails, OwnerDisconnected, OwnerDisconnectFails
  <2>3. CASE OwnerAdapterFails(k) \/ OwnerSettled(k)
             \/ \E kind \in {"missing", "eof"} : OwnerStreamEnds(k, kind)
    BY <1>c, <2>3 DEF OwnerAdapterFails, OwnerSettled, OwnerStreamEnds
  <2>4. ASSUME NEW result \in SdkResult, NEW nested \in BOOLEAN, OwnerResult(k, result, nested)
        PROVE  r \in pending
    BY <1>c, <2>4 DEF OwnerResult
  <2>5. CASE OwnerCancelled(k)
    BY <1>b, <1>c, <2>5 DEF OwnerCancelled
  <2>6. CASE PersistAcceptedResult(k)
    BY <1>a, <2>6 DEF PersistAcceptedResult
  <2> QED BY <1>2, <2>1, <2>2, <2>3, <2>4, <2>5, <2>6 DEF OwnerStep
<1>3. ASSUME NEW k \in Attempts, StopStep(k) PROVE r \in pending
  <2>1. CASE StopFinal(k)
    BY <1>a, <2>1 DEF StopFinal, FinalizeWithoutResult
  <2>2. CASE ~ StopFinal(k)
    BY <1>3, <2>2 DEF StopStep, StopBegin, StopYield, StopGrace, StopDisconnect, StopCancelOwner,
       StopGather, StopJoin, StopFrame, rows
  <2> QED BY <2>1, <2>2
<1>4. ASSUME NEW q \in Requests, ApprovalStep(q) PROVE r \in pending
  <2>1. CASE Respond(q)
    <3>1. q = r
      BY <2>1 DEF Respond, IInv, TypeOK
    <3> QED BY <2>1, <3>1 DEF Respond, MayAnswer
  <2>2. CASE ~ Respond(q)
    BY <1>4, <2>2 DEF ApprovalStep, RequestApproval, CallbackCancelled, CallbackCleanup, rows
  <2> QED BY <2>1, <2>2
<1>5. ASSUME CloseStep \/ Restart \/ Crash \/ UNCHANGED vars PROVE FALSE
  BY <1>5 DEF CloseStep, CloseBegin, CloseStopReturns, CloseDrain, CloseEnd, CloseStop, Restart,
     Crash, FreshProcess, vars, rows
<1> QED BY <1>1, <1>2, <1>3, <1>4, <1>5 DEF Next

\* An approval is resolved at most once, while its attempt waits for it.
THEOREM AnswersStayLive == Spec => AnswersAreLive
<1>1. IInv /\ [Next]_vars =>
        \A r \in Requests :
          resolution'[r] # resolution[r] =>
            LET k == requested[r] IN
            /\ resolution[r] = "none" /\ r \in pending
            /\ Current(k) /\ row[WorkerOf(k)].state = RequiresAction
  BY OnlyPendingResolved DEF IInv, Controls, PendingIsLive, RequestsAreUnresolved
<1> QED BY <1>1, Invariant, PTL DEF Spec, AnswersAreLive

-----------------------------------------------------------------------------
(***************************************************************************)
(* What a step may do to a row.                                            *)
(***************************************************************************)

\* The rows that persisting the result of attempt k may leave.
Persisted(k) ==
  {Completed(k)} \cup
  (IF CanMove(Completed(k).state, ResultTarget(k))
   THEN {Move(ResultRecorded(k), ResultTarget(k))} ELSE {ResultRecorded(k)})

\* How the row of w may change in a step.
RowChanges(w) ==
  \/ row'[w] = row[w]
  \/ row[w].state = Absent /\ row'[w] = FreshAttempt(1)
  \/ MayResume(w) /\ row'[w] = FreshAttempt(row[w].attempt + 1)
  \/ row[w].state = Starting /\ row'[w] = SetHealth(Move(row[w], Running), "healthy")
  \/ /\ row[w].state \in {Running, RequiresAction}
     /\ row'[w] = Move(row[w], RequiresAction)
  \/ row[w].state = RequiresAction /\ row'[w] = Move(row[w], Running)
  \/ \E k \in Attempts, missing \in {"cancelled", "lost"} :
       /\ WorkerOf(k) = w /\ row'[w] = Finalized(k, missing)
       /\ missing = "lost" => owner[k] \in Busy /\ k \notin stopReq
  \/ \E k \in Attempts :
       WorkerOf(k) = w /\ phase[k] = "pending" /\ row'[w] \in Persisted(k)

\* Every step changes a row in one of these ways.
LEMMA RowStep ==
  ASSUME IInv, [Next]_vars, NEW w \in Workers
  PROVE  RowChanges(w)
<1>0. row \in [Workers -> Row]
  BY DEF IInv, TypeOK
<1>a. ASSUME NEW k \in Attempts, NEW missing \in {"cancelled", "lost"},
             FinalizeWithoutResult(k, missing),
             missing = "lost" => owner[k] \in Busy /\ k \notin stopReq
      PROVE  RowChanges(w)
  <2>1. row' = [row EXCEPT ![WorkerOf(k)] = Finalized(k, missing)]
    BY <1>a DEF FinalizeWithoutResult
  <2>2. CASE WorkerOf(k) = w
    BY <1>0, <1>a, <2>1, <2>2 DEF RowChanges
  <2>3. CASE WorkerOf(k) # w
    BY <1>0, <2>1, <2>3 DEF RowChanges
  <2> QED BY <2>2, <2>3
<1>b. ASSUME NEW k \in Attempts, NEW h, owner[k] \in Busy, AfterRun(k, h)
      PROVE  RowChanges(w)
  <2>1. /\ MissingState(k) \in {"cancelled", "lost"}
        /\ MissingState(k) = "lost" => owner[k] \in Busy /\ k \notin stopReq
    BY <1>b DEF MissingState
  <2>2. CASE UNCHANGED row
    BY <2>2 DEF RowChanges
  <2>3. CASE FinalizeWithoutResult(k, MissingState(k))
    BY <1>a, <2>1, <2>3
  <2> QED BY <1>b, <2>2, <2>3 DEF AfterRun
<1>c. ASSUME NEW k \in Attempts, NEW h, owner[k] \in Busy, EnterDisconnect(k, h)
      PROVE  RowChanges(w)
  <2>1. CASE UNCHANGED row
    BY <2>1 DEF RowChanges
  <2> QED BY <1>b, <1>c, <2>1 DEF EnterDisconnect
<1>d. CASE UNCHANGED row
  BY <1>d DEF RowChanges
<1>1. ASSUME NEW v \in Workers, ClientStep(v) PROVE RowChanges(w)
  <2>1. CASE SpawnCommit(v)
    <3>1. row' = [row EXCEPT ![v] = FreshAttempt(1)] /\ row[v].state = Absent
      BY <2>1 DEF SpawnCommit, PreflightPassed, IInv, TasksAgree, NewcomersAreAbsent
    <3> QED BY <1>0, <3>1 DEF RowChanges
  <2>2. CASE Resume(v)
    <3>1. row' = [row EXCEPT ![v] = FreshAttempt(row[v].attempt + 1)] /\ MayResume(v)
      BY <2>2 DEF Resume
    <3> QED BY <1>0, <3>1 DEF RowChanges
  <2>3. CASE SpawnBegin(v) \/ SpawnRefused(v) \/ \E force \in BOOLEAN : Stop(v, force)
    BY <1>d, <2>3 DEF SpawnBegin, SpawnRefused, Stop, rows
  <2> QED BY <1>1, <2>1, <2>2, <2>3 DEF ClientStep
<1>2. ASSUME NEW k \in Attempts, OwnerStep(k) PROVE RowChanges(w)
  <2>1. CASE OwnerStart(k) \/ OwnerReturns(k) \/ TaskFinished(k) \/ ResultPhaseFinished(k)
    BY <1>d, <2>1 DEF OwnerStart, OwnerReturns, TaskFinished, ResultPhaseFinished, rows
  <2>2. CASE OwnerFactoryFails(k) \/ OwnerDisconnected(k) \/ OwnerDisconnectFails(k)
    BY <1>b, <2>2 DEF OwnerFactoryFails, OwnerDisconnected, OwnerDisconnectFails, OwnerAt, Busy
  <2>3. CASE OwnerAdapterFails(k) \/ OwnerSettled(k)
             \/ \E kind \in {"missing", "eof"} : OwnerStreamEnds(k, kind)
    BY <1>c, <2>3 DEF OwnerAdapterFails, OwnerSettled, OwnerStreamEnds, OwnerAt, Busy
  <2>4. ASSUME NEW result \in SdkResult, NEW nested \in BOOLEAN, OwnerResult(k, result, nested)
        PROVE  RowChanges(w)
    BY <1>c, <1>d, <2>4 DEF OwnerResult, OwnerAt, Busy
  <2>5. CASE OwnerCancelled(k)
    BY <1>b, <1>c, <1>d, <2>5 DEF OwnerCancelled, Busy
  <2>6. CASE PersistAcceptedResult(k)
    <3>1. phase[k] = "pending" /\ \E x \in Persisted(k) : row' = [row EXCEPT ![WorkerOf(k)] = x]
      BY <2>6 DEF PersistAcceptedResult, Persisted
    <3> QED BY <1>0, <3>1, AttemptPair DEF RowChanges
  <2>7. CASE OwnerInitialized(k)
    <3>1. row' = [row EXCEPT ![WorkerOf(k)] = SetHealth(Move(row[WorkerOf(k)], Running), "healthy")]
      BY <2>7 DEF OwnerInitialized
    <3>2. row[WorkerOf(k)].state = Starting
      BY <2>7 DEF OwnerInitialized, OwnerAt, IInv, TasksAgree, ConnectingIsStarting
    <3> QED BY <1>0, <3>1, <3>2, AttemptPair DEF RowChanges
  <2> QED BY <1>2, <2>1, <2>2, <2>3, <2>4, <2>5, <2>6, <2>7 DEF OwnerStep
<1>3. ASSUME NEW k \in Attempts, StopStep(k) PROVE RowChanges(w)
  <2>1. CASE StopFinal(k)
    BY <1>a, <2>1 DEF StopFinal
  <2>2. CASE ~ StopFinal(k)
    BY <1>3, <1>d, <2>2 DEF StopStep, StopBegin, StopYield, StopGrace, StopDisconnect,
       StopCancelOwner, StopGather, StopJoin, StopFrame, rows
  <2> QED BY <2>1, <2>2
<1>4. ASSUME NEW r \in Requests, ApprovalStep(r) PROVE RowChanges(w)
  <2>1. ASSUME NEW k \in Attempts, RequestApproval(k, r) PROVE RowChanges(w)
    <3>1. /\ row' = [row EXCEPT ![WorkerOf(k)] = Move(row[WorkerOf(k)], RequiresAction)]
          /\ row[WorkerOf(k)].state \in {Running, RequiresAction}
      BY <2>1 DEF RequestApproval
    <3> QED BY <1>0, <3>1, AttemptPair DEF RowChanges
  <2>2. CASE Respond(r)
    <3> DEFINE v == WorkerOf(requested[r])
    <3>1. /\ row' = [row EXCEPT ![v] = IF LastPending(r) THEN Move(row[v], Running) ELSE row[v]]
          /\ row[v].state = RequiresAction
      BY <2>2 DEF Respond, MayAnswer
    <3> QED BY <1>0, <3>1 DEF RowChanges
  <2>3. CASE CallbackCancelled(r) \/ CallbackCleanup(r)
    BY <1>d, <2>3 DEF CallbackCancelled, CallbackCleanup, rows
  <2> QED BY <1>4, <2>1, <2>2, <2>3 DEF ApprovalStep
<1>5. ASSUME CloseStep \/ Restart \/ Crash \/ UNCHANGED vars PROVE RowChanges(w)
  BY <1>d, <1>5 DEF CloseStep, CloseBegin, CloseStopReturns, CloseDrain, CloseEnd, CloseStop,
     Restart, Crash, FreshProcess, vars, rows
<1> QED BY <1>1, <1>2, <1>3, <1>4, <1>5 DEF Next

\* A finalisation moves to cancelled only what has no result.
LEMMA CancelledHasNoResult ==
  ASSUME IInv, NEW k \in Attempts, NEW missing \in {"cancelled", "lost"},
         ~ Over(WorkerOf(k)), Finalized(k, missing).state = "cancelled"
  PROVE  Finalized(k, missing).result = NoResult
<1> DEFINE c == Completed(k)  e == SetHealth(c, "exited")  t == FinalTarget(k, missing)
<1>1. c \in Row /\ c.state # "cancelled"
  <2>1. row[WorkerOf(k)].state # "cancelled" /\ Running # "cancelled" /\ row[WorkerOf(k)] \in Row
        /\ Running \in States
    BY AttemptPair DEF Over, Terminal, Running, States, IInv, TypeOK
  <2> QED BY <2>1, RowOperators DEF Completed
<1>2. e \in Row /\ e.state = c.state /\ e.result = c.result
  BY <1>1, RowOperators DEF Health
<1>3. Finalized(k, missing) = Move(e, t)
  <2> HIDE DEF c, e, t
  <2> QED BY <1>1, <1>2 DEF Finalized, c, e, t
<1>4. t \in States /\ (t = "cancelled" => c.result = NoResult)
  BY DEF FinalTarget, TargetOf, States, Terminal
<1>5. Move(e, t).state = t /\ Move(e, t).result = e.result
  BY <1>2 DEF Move, Row
<1> HIDE DEF c, e, t
<1> QED BY <1>2, <1>3, <1>4, <1>5

\* Persisting a result that preceded every stop never cancels its attempt.
LEMMA PersistedIsNotCancelled ==
  ASSUME IInv, NEW k \in Attempts, phase[k] = "pending", run[k].preceded,
         NEW x \in Persisted(k)
  PROVE  x.state # "cancelled"
<1> DEFINE c == Completed(k)  rec == ResultRecorded(k)  t == ResultTarget(k)
<1>1. /\ ~ Over(WorkerOf(k)) /\ row[WorkerOf(k)] \in Row
      /\ run[k].kind \in Results /\ run[k].session \in BOOLEAN
  BY OneActive, AttemptPair DEF IInv, TypeOK, TasksAgree, PhaseHasResult, Run
<1>2. c \in Row /\ c.state # "cancelled"
  BY <1>1, RowOperators DEF Completed, Over, Terminal, Running, States
<1>3. rec \in Row /\ rec.state = c.state
  BY <1>1, <1>2, RecordedRow
<1>4. t # "cancelled" /\ t \in States
  BY DEF ResultTarget, TargetOf, States, Terminal
<1>5. Move(rec, t).state = t
  BY <1>3, <1>4, RowOperators
<1> HIDE DEF c, rec, t
<1> QED BY <1>2, <1>3, <1>4, <1>5 DEF Persisted, c, rec, t

\* A result that arrived before any stop is never recorded under cancelled.
THEOREM AcceptedResultStays == Spec => AcceptedResultNotCancelled
<1>1. ASSUME IInv, [Next]_vars, NEW k \in Attempts, run[k].preceded, Current(k),
             ~ Over(WorkerOf(k)), row'[WorkerOf(k)].state = "cancelled"
      PROVE  row'[WorkerOf(k)].result = NoResult
  <2> DEFINE w == WorkerOf(k)
  <2>1. w \in Workers /\ row[w] \in Row /\ RowChanges(w)
    BY <1>1, AttemptPair, RowStep DEF IInv, TypeOK
  <2>2. /\ Running # "cancelled" /\ RequiresAction # "cancelled" /\ Starting # "cancelled"
        /\ Running \in States /\ RequiresAction \in States
    BY DEF Running, RequiresAction, Starting, States
  <2>3. row'[w] # row[w]
    BY <1>1 DEF Over, Terminal
  <2>4. \A n : row'[w] # FreshAttempt(n)
    BY <1>1, <2>2 DEF FreshAttempt
  <2>5. row'[w] \notin {SetHealth(Move(row[w], Running), "healthy"), Move(row[w], RequiresAction),
                        Move(row[w], Running)}
    <3>1. \A to \in {Running, RequiresAction} :
            Move(row[w], to) \in Row /\ Move(row[w], to).state # "cancelled"
      BY <2>1, <2>2, RowOperators
    <3>2. SetHealth(Move(row[w], Running), "healthy").state # "cancelled"
      BY <3>1, RowOperators DEF Health
    <3> QED BY <1>1, <3>1, <3>2
  <2>6. CASE \E j \in Attempts, missing \in {"cancelled", "lost"} :
               WorkerOf(j) = w /\ row'[w] = Finalized(j, missing)
    BY <1>1, <2>6, CancelledHasNoResult
  <2>7. ASSUME NEW j \in Attempts, WorkerOf(j) = w, phase[j] = "pending", row'[w] \in Persisted(j)
        PROVE  FALSE
    <3>1. j = k
      BY <1>1, <2>7, OneActive, AttemptPair DEF IInv, Current
    <3> QED BY <1>1, <2>7, <3>1, PersistedIsNotCancelled
  <2> QED BY <2>1, <2>3, <2>4, <2>5, <2>6, <2>7 DEF RowChanges
<1>2. IInv /\ [Next]_vars =>
        \A k \in Attempts :
          LET w == WorkerOf(k) IN
          run[k].preceded /\ Current(k) /\ ~ Over(w) /\ row'[w].state = "cancelled"
          => row'[w].result = NoResult
  BY <1>1
<1> QED BY <1>2, Invariant, PTL DEF Spec, AcceptedResultNotCancelled
=============================================================================
