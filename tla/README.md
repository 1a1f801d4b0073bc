# TLA+ models of qworker

qworker runs Qoder agents ("workers") as background tasks of one local
supervisor process. This directory holds TLA+ models of its core, the TLC
configurations that check them, and TLAPS proofs. Paths such as
`supervisor.py:620` are below `src/qworker/`; "the design" is
`docs/superpowers/specs/2026-08-24-qoder-worker-design.md`.

## 1. The system

| Component | State it keeps | Operations | Modelled in |
|---|---|---|---|
| Supervisor (`supervisor.py`) | maps of live attempts, tasks, result phases, pending approvals and stop requests; the closed flag | spawn, resume, status, watch, steer, cancel_message, stop, respond, close; the owner task `_run_worker`; the callbacks of the SDK | `Supervisor`, `EventStream`, `Teardown`, `Admission` |
| Worker lifecycle (`lifecycle.py`) | none: a transition table and a reducer | `transition` | `WorkerRow` |
| Store (`store.py`) | SQLite tables `workers`, `attempts`, `events` | create_worker, start_attempt, append_event, the three approval transactions, record_result | `WorkerStore`, `WorkerRow` |
| Foreground runners (`auditor.py`, `coder.py`) | the transport, the reducer, the local result | `run`, `_consume_result` | `ForegroundRun`, `Supervisor`, `Teardown` |
| Nested-task reducers (`reducer.py`, `coder.py`) | the ledger of active nested tasks, the result, what the assistant said | `apply`, `finish` | `ForegroundRun` |
| SDK transport (`qoder_sdk.py`) | the SDK client, the disconnect lock and flag, the CLI process and its credential payload, the captured report | connect, select_model, the permission callbacks, send, messages, interrupt, steer, cancel_message, disconnect, abort | `Teardown`, `Admission`, its stream in `ForegroundRun` |
| RPC (`rpc.py`) | the socket and its identity, one handler per connection | request/response, watch, start and close of the service | `Service`, watch in `EventStream` |
| Command line (`cli.py`) | none | one request with the start of a service and retries; watch | `Service`, `RemoteCall` |
| Preflight (`preflight.py`) | the control connection of one spawn | `run` | `Admission`; its suspension and verdict in `Supervisor` |
| Configuration and policies (`config.py`, `model_policy.py`, `auditor_policy.py`) | none: two files, a catalog | load_config, select_auth, resolve_model, decide | `Policy`, `Admission` |
| Workspace overlap (`workspace.py`) | none | classify_workspace_overlap | `Policy`, `Admission` |
| Approval schemas (`control.py`) | none | snapshot of a schema, parse_approval_response | `Policy`, `Admission` |

### How the parts interact

A client connects to the socket; a handler task calls the supervisor. `spawn`
and `resume` write the row and start an *owner* task, which runs a foreground
runner; the runner drives one SDK transport. While it runs, the SDK calls back
into the supervisor for approvals, which wait on a future until `respond`, the
end of the attempt or the SDK itself ends the wait. When the runner returns a
result, the owner starts a *result phase*, a separate task that records the
result and the terminal state and that no cancellation of the owner reaches.
`stop` is one shared operation per attempt: it interrupts, waits, disconnects,
cancels the owner and joins the result phase. `close` stops every worker and
gathers the tasks. Each change is an event in the store, and followers of
`watch` are woken by a condition after it.

Everything shares one asyncio loop. The store's coroutines never suspend, and
the control lock is never held across a suspension, so what happens between two
awaits of something external is atomic, and nothing else is.

### What is hard, and what would make it correct

| Component | Hard behaviour | Correctness |
|---|---|---|
| Supervisor | a result, a stop, a forced stop, a close, the end of the stream and cancelled callbacks race for one attempt; tasks of an attempt outlive it and meet the next one; the SDK may hang anywhere; the process may die | what controls a worker agrees with its row; an attempt ends once; results are neither lost nor recorded under the wrong state; a stop and a close return; requests are resolved once |
| Store | transactions of an attempt that is over; several tables and columns for one fact | the tables agree, the log is legal and replays to the status |
| Event stream | broken connections, handlers of clients that are gone, wake-ups between a read and a wait, the end of the service | no event is missed, none twice, streams end |
| Foreground run | missing, repeated or late nested events; five ways out of the settlement window; a failing disconnect | the answer is honest and carries the announced result |
| RPC server, command line | two services that start at once, stale sockets, crashes, connections that end at any point, retries | one service serves and is found; a request is executed at most once, and its caller is told nothing untrue about that; commands and signalled services end |
| SDK transport | the runner's disconnect, a stop's disconnect with its deadline, abort; steering that is under way while attempts change | the process and its credentials are gone when the transport says so; one disconnect at a time; messages stay with their attempt |
| Preflight, configuration, policies, overlap | files, runtimes and other workers that change between a check and its use; failures on the control connection | rights only narrow; what was checked is used; conflicts are known to one of the two; nothing is granted before policy and person agree |

`PROJECT.json` lists each hazard at its line with the properties about it.

## 2. The modules

A definition named `X_Something` that stands before a definition `X` is a
plausible mistake in the code of `X`. No specification uses it; substituting it
for `X` must make TLC report the property listed with it.

* **`WorkerRow`** – the durable row of a worker, the lifecycle table and the
  updates of the store's transactions as operators. Shared by all others.
  `Transitions` is the code's table; `DesignEdges` is that of the design's
  section 8.1, which only properties use.
* **`Supervisor`** – the supervisor with its owners, result phases, stop
  operations, approvals, close and crash. An attempt is a pair
  `<<worker, number>>`. `row`, `requested` and `resolution` are durable; the
  other variables are the process's maps (`live`, `tasks`, `phase`, `pending`,
  `stopReq`) and the program counters of its tasks:
  * `owner[k]`: *created* (task started, no factory call yet), *connecting*
    (connect to send), *running* (first loop), *settling* (after the main
    result), *disconnecting* (the finally clause), *persisting* (waits for its
    result phase), *done*. Actions `Owner…`, `TaskFinished`.
  * `stopAt[k]`: *begin*, *yield* (`sleep(0)`), *grace* (the waits for the
    interrupt and for the grace period, which have the same ways out), then
    *disconnect*, *cancel*, *gather*, *join*, *final*. Actions `Stop…`.
  * `closeAt`: *open*, *stopping* (one stop after the other), *draining*,
    *closed*; *aborted* when a stop's finalisation raises ValueError, which
    close does not suppress. Actions `Close…`.
  * `RequestApproval`, `Respond`, `CallbackCancelled`, `CallbackCleanup` are
    `_request_approval` and `respond`.
* **`WorkerContract`** – the abstract specification: what a client may rely on
  from `status` and `result`. `Supervisor!ImplementsContract` is the refinement.
* **`WorkerStore`** – all tables for one worker: row, warnings, time stamps (as
  set or not set), attempt records and the event log, under arbitrary calls of
  the store's transactions, also from attempts that are over.
* **`EventStream`** – one worker's log, the handler of each connection
  (`_stream_watch` over `Supervisor.watch`), one logical client that reconnects
  with its last sequence, and the end of the service by close or by a signal.
  `at[k] = "idle"` is a handler that has ended its stream and reads on.
* **`ForegroundRun`** – one run of an auditor or coder in detail: set-up, the
  two loops, the ledger, `finish`, and the finally clause. `Supervisor` uses a
  coarser version of the same control flow: `owner` places *connecting* to
  *disconnecting*.
* **`Service`** – the processes that share one socket path, step by step between
  two calls on the path (`at[s]`: *lstat*, *probe*, *unlink*, *replace*, *bind*,
  *listen*, *identify*, *serving*, and on the way out *draining*, *compare*,
  *remove*, *closing*, *gone*), with crashes; the handler of a connection
  (`stage[c]`); the command behind it (`call[c]`: *connect*, *send*, *receive*,
  *launch*, *pause*). `races` says whether another service may step between a
  check of the path and what rests on it.
* **`RemoteCall`** – the abstract specification of a command's request: the
  supervisor is called for it at most once (`executed` counts the calls), a result
  or a named error means that it was called, `supervisor_unavailable` and a
  traceback that it was not. `invalid_request`, `sdk_protocol_error` and
  `frame_too_large` leave it open: the handler answers all errors of one kind by
  one code, whether they come before, in or after the supervisor's call
  (`Service!Respond`). `Service!ImplementsRemoteCall` is the refinement.
* **`Teardown`** – one worker's CLI processes: the runner, the stop operation
  and its escalation, the disconnect lock, abort, and calls of steer and
  cancel_message that hold a transport while attempts come and go. Its stop has
  the same places as that of `Supervisor`; the waits for the lock and inside the
  client are added, the store and the approvals left out.
* **`Policy`** – the pure decisions: configuration, credentials, model, tools of
  an auditor, overlap of workspaces, answers to approvals.
* **`Admission`** – uses them along the way of one worker: preflight, creation
  beside another coder, construction of the transport, choice of the model,
  permission callbacks. `stage` is how far it is; files and runtimes may be
  edited in between.
* **`Supervisor_proofs`**, **`SupervisorNominal_proofs`**,
  **`WorkerStore_proofs`**, **`ForegroundRun_proofs`**, **`Admission_proofs`**,
  **`EventStream_proofs`**, **`Teardown_proofs`**, **`Service_proofs`** – the
  theorems.
* `MCSupervisor`, `MCWorkerStore`, `MCEventStream` – symmetry sets for TLC;
  `MCAdmission` – the files and directories of its instance.

### Where the models abstract

* Outcomes: `completed` stands for completed, partial and blocked, which the
  code treats alike when it chooses the state. Reports are values that are or
  are not valid; prompts, summaries, models and time stamps are left out.
* Health has no `quiet` or `stalled`: no code produces them.
* `Supervisor.settling` has one main result; a later one, which replaces it
  unannounced, is in `ForegroundRun`.
* The production transport turns every error of an SDK call into an
  `AdapterDiagnostic`; only the message stream raises `EOFError`.
* An owner with a cancellation to receive takes it at its next step. Tasks that
  close cancels are drained in any order.
* A crash happens between two steps of the loop. A process that ends after an
  aborted close is treated like one that died.
* In `EventStream`, a handler notices a client that is gone only when it
  writes; the wire has no back-pressure; `owned = FALSE` is a worker that an
  earlier process left behind, whose followers only a close wakes. The death of
  the service process is in `Service` only. `Server.wait_closed` waits for open
  connections as in Python 3.12, the version `uv.lock` pins; it is external.
* External in `Service`: `start_unix_server` removes a socket at its path, binds
  and listens in three steps; a listener that closes resets the connections in
  its backlog; a process that ends resets the connections whose request it did
  not read and closes the others. A response is one write.
* External in `Teardown`: the SDK's connect, disconnect and turn may hang; a
  disconnect that returns has ended the process its client started and removed
  its payload; one that raises or is cancelled may or may not have.
* External in `Admission`: what the runtime's control connection, its catalog
  and its CLI answer. Names in a catalog are distinct. The environment of the
  service does not change. A policy is the permission mode and the denied tools:
  the three flags are narrowed by the same code, but nothing reads them.

## 3. The runs

Passing runs:

| Run | Instance | Shows |
|---|---|---|
| `SupervisorControl` | 1 worker, 2 attempts, 1 request; stops, cancelled callbacks, refused results, crashes; ~2 M states | the inductive invariant and the safety properties that hold whatever happens |
| `SupervisorNominal` | 1 worker, 2 attempts, 1 request; stops; ~0.9 M states | a worker is always controlled or over, its health follows its state, and the supervisor implements `WorkerContract` |
| `SupervisorApprovals` | 1 worker, 2 requests; stops, close; fairness; ~50 K states | requests are resolved once and always, whichever way their attempt ends; a stop wins over a later result and returns; an accepted result ends its attempt; a close ends and leaves nothing running |
| `WorkerStore` | 2 attempts, 2 requests, 7 events; ~2.2 M states | the tables agree, also when calls come from attempts that are over; the log follows the design's lifecycle, with one edge named as an exception |
| `EventStream` | 2 connections, 4 events, both endings; fairness; ~0.3 M states | no event is missed, no wake-up is lost, a follow stream ends with the whole attempt; events reach followers, watches end with their worker and with a close, a signalled service ends once its workers are over |
| `ForegroundRun` | both roles, 3 tasks, 2 reports, 3 results | what a run returns is honest about nested tasks, reports and its transport |
| `Service` | 2 processes, 1 command with 2 further tries, 2 crashes, with and without races; fairness; ~0.2 M states | `RemoteCall` is implemented, commands and signalled services end; without races (it says nothing of the interleavings) the serving process is the one that is found, and no socket is left |
| `Teardown` | 2 attempts, 1 message; fairness; ~0.46 M states | disconnected means gone, one disconnect at a time, a stop ends and leaves nothing, messages and their events stay true |
| `Admission` | 3 directories, 4 user files, 5 project files, 1 edit; ~0.64 M states | rights only narrow, the preflight vouches for the construction, its connection is closed, conflicts are known, models and grants obey the policies |

Several checked properties are conjunctions of named parts, with a mutant for
each part: `RowsAreTrue`, `NothingIsLeft` and `StopsEnd` of `Supervisor`,
`TablesAgree` of `WorkerStore`, `StreamsAreComplete` and `WatchesEnd` of
`EventStream`, `SocketIsRight` and `EveryoneEnds` of `Service`,
`TeardownIsComplete` and `SteeringIsTrue` of `Teardown`, `ChoicesAreAllowed`,
`PreflightIsSound` and `AnswersAreAllowed` of `Admission`.

Runs that TLC refutes, each a statement of the repository that the code does
not keep (section 6): `StopDropsResult`, `CallbackStrandsResult`,
`SecondServiceHidesWorkers`.

### Bounds

* Workers share nothing but the control lock, the close and the approval table,
  so one worker shows every race of an attempt, and of an attempt with a close,
  which stops workers one after the other. Two attempts are enough for "an
  earlier attempt meets a later one", since every check in the code compares
  with the current number only.
* Two requests are enough for the last-request rule (`respond` restores running
  only when no other is pending); one elsewhere.
* `Incidents` selects what may happen, so that each run has the incidents its
  question needs. A property that some incident breaks is checked without that
  incident; what the incident does to it is said in section 6. Approvals,
  stops and the close of `SupervisorApprovals` meet in one attempt, without the
  incidents that leave a worker behind.
* `WorkerStore.MaxEvents = 7` lets a worker start, wait for two requests, end,
  resume and be written to by its earlier attempt. `EventStream.MaxEvents = 4`
  holds an ended attempt and the beginning of a second; `Room` keeps a place for
  the terminal event, so the bound cuts no attempt short. Two connections are a
  live one and one that lingers; more of the latter do not touch each other.
* `ForegroundRun` needs two tasks for "one ended, one did not" and two results
  for "replaced"; the run has one more of each.
* `Service`: two processes have every race for the path, and a command may meet
  a third only as it would meet the second; one further try after the first
  shows the retries, which are counted only. Other commands are present through
  the services they start (`Init`). Two crashes may kill both processes.
* `Teardown`: a message sent in the first attempt meets the second; messages do
  not touch each other.
* `Admission`: one edit separates any two readings of the files. The user files
  differ in what the code looks at: usable or not, expansion allowed or not,
  each runtime, each choice of credentials, each rank; the project files widen
  or narrow each field. The three directories are a parent, its child and a
  stranger. One other coder is enough, since warnings are made pair by pair.

Deadlock is checked where the process goes on for ever. It is off where the
system may stop: a crash-free worker that is over and cannot be resumed, a
service whose close was aborted or that waits for clients, a full log, a run
that has returned, commands and processes that are done, a worker that is over
and asks for nothing.

### Fairness

`Supervisor!Fairness`: the loop eventually runs whatever is ready (started
tasks, delivered cancellations, done futures, each step of stop, close and the
result phase) and deadlines expire (the settlement window and each wait of a
stop are `asyncio.timeout` or `wait` with a timeout). Nothing is assumed of the
SDK's calls, of clients or of approvals: they may never answer.
`EventStream!Fairness`: handlers run, the client reads what was written, and a
close that has begun stops its workers and ends. Nothing makes workers end or
clients connect. `Service!FairSpec`: event loops and commands go on; no signal,
no crash and no start of a process has to come. `Teardown!FairSpec`: the stop's
steps (its waits have deadlines) and delivered cancellations are fair; the SDK
is not. `Admission` has no liveness: its waits are the SDK's.

## 4. The proofs

Every invariant and every action property of the passing runs, and both
refinements, are theorems.

`Supervisor_proofs` holds for any set of workers and requests, any
`MaxAttempts \in Nat \ {0}` and any `Incidents \subseteq AllIncidents`; these two
assumptions are all it uses. Theorems: `Invariant` (`Spec => []IInv`),
`TypeCorrect`, `PendingRequestsAreLive`, `StaleOwnersStayQuiet`,
`TerminalIsClean` and the action properties `AnswersStayLive` and
`AcceptedResultStays`.

The inductive invariant is `IInv == TypeOK /\ Controls /\ TasksAgree`.

* *Controls*: a live attempt is the row's own and not over; a pending request
  belongs to a live, waiting attempt; an unresolved one has no resolution.
  `TerminalReleasesControls` follows, but is not inductive by itself: that a
  terminal write finds nothing registered needs to know that what is registered
  is the current attempt.
* *TasksAgree*: an owner or result phase that may still write belongs to the
  row's own unfinished attempt; a connecting owner's row is starting; a pending
  phase has a result; a stop at its final step has no owner. It is needed
  because a resume is possible as soon as the row is terminal, while tasks of
  the old attempt are still there: `FinalStopHasNoOwner` and
  `StaleOwnersAreQuiet` together say that these tasks cannot touch the row.

The proof has lemmas for the shared pieces (`CompleteLiveAttempt`,
`FinalizeWithoutResult`, the end of an owner), one step per action, and under
it one per conjunct that the action may disturb. `RowStep` bounds what any step
does to a row; the action properties use it.

`SupervisorNominal_proofs` is about behaviours without some incident, which each
theorem names as an assumption on `Incidents`; workers, requests and attempts are
arbitrary again. Its first and third part only exclude `"callback_cancelled"`:
stops, closes, refused results and crashes may happen. Its second part has stops
and closes only (`OnlyStops`): each other incident does leave a worker or a
request behind (section 6).

* `ContractImplemented` is the refinement of `WorkerContract`. What a client
  observes is the row, so the proof has two halves: `OneRowMoves` says that a
  step changes one row at most, and `RowChangesAreContractChanges` that each way
  a row changes is an action of the contract. The second needs that a result
  which is recorded ends its attempt in the same step, which the invariant
  `Promise` provides (`PromiseIsKept`): an attempt at work that waits has a
  request left to expire (`WaitingHasRequests`), so the row is running again when
  the result comes; an attempt that was never initialised has no result of Qoder
  (`StartersHadNoTurn`); a registered transport has an owner
  (`RegisteredIsOwned`). A cancelled callback breaks the first of these, and with
  it the contract: that is the run `CallbackStrandsResult`.
* `RowsStayTrue` and `NothingStaysBehind` rest on the invariant `Order`
  (`OrderIsKept`): an attempt that is not over is at work or a stop is about to
  end it (`Attended`), an owner is cancelled only for a stop that was requested
  (`StopsAreRequested`), the task that a worker has registered is the owner of
  its current attempt (`Tracked`), and a close has stopped every attempt that was
  at work when it drains (`ClosesInOrder`).
* `StopHasTheLastWord` is `StopWins`, a formula about the whole future of an
  attempt. `Doomed(k)` says what is true from the moment a stop finds `k`
  without a result: its number is not ahead of the row's, it is over as cancelled
  or not at all, and while it is at work it stays stopped and without an earlier
  result. Every step keeps it (`DoomStays`, with `WorkIsOrdered`: no result gets
  ahead of a stop) and every such moment begins it (`StopDooms`).

`WorkerStore_proofs` holds for any codes, any finite set of requests, any bounds
on attempts and on the log (`StoreBounds`): `StoreTypes`,
`TablesStayInAgreement`, `LogStaysLegal` and the action property `HistoryIsKept`.
Its invariant `StoreInv` adds to them that the attempts in the log never go back
(`EventsInOrder`), that the last state in the log is the row's
(`RowIsLastState`, without which the log's next state need not follow from its
last), that the code's edges are the design's and one more
(`EdgesAreLegal`), and that there is nothing before the first attempt (`NothingBefore`). A
transaction has one of three shapes: it begins an attempt (`Begins`), changes the
state of the current one after any events of approvals (`Moves`), or adds to what
is known of it (`Notes`). `StepsHaveShape` says so of every transaction, and there
is one lemma per shape. `StatusIsReplay` is about the fold of a log of any
length. `ReplayContinues` unfolds it by one event, from the uniqueness and
existence of a log's trace (`TraceIsUnique`, `TraceExists`); both go by the least
counterexample (`LeastNumber`), since the library's induction theorems cannot be
used.

`ForegroundRun_proofs` holds for any tasks, any reports and any `MaxResults`,
from `RunAssumption` alone: `NestedStateHonest`, `AnnouncedAnswered`,
`ReportWins`, `LeaksAreReported`, `RunTypes`. Its invariant `RunInv` adds to the checked
properties that the ledger is what was observed, that the first loop has no
result and the settlement window has one and something to settle
(`PlacesAgree`), and that a due report is the text of the result. `FinishAnswers`
says what `finish` returns, `LeavingIsHonest` that an answer made of it is
honest if the ledger is, `Leaves` and `ReadsOn` that this is all a step of the
loops can do; then there is one lemma per group of actions.

`Admission_proofs` holds for any files, directories, tools, requests and
responses that are of the shape `FilesAssumption` and `EditsAssumption` name,
and any number of edits. `AdmissionTypes` combines their invariants; each of the
others has one of its own:

* `AnswersStayAllowed`: what waits for an answer was put before a person, so it
  had passed the policy then (`WaitingIsPermitted` in `AskInv`), and roles and
  policies do not change while an attempt lives.
* `ChoicesStayAllowed`: `LoadConfigNarrows` says that a project's file never
  widens the user's, `ResolveModelIsAllowed` that a model is the one that was
  asked for and the catalog has; `ChoiceInv` carries them to the attempt.
* `PreflightStaysSound`: as long as nobody edits, the configuration that the
  preflight read is still that of the files (`ConfigIsCurrent`) and what it
  checked still works (`RuntimeIsChecked`), whichever check it has reached.
* `ConflictsStayKnown`: two paths have a directory in common exactly if one is
  above the other (`RelatedIfShared`), which is what the code compares; it needs
  that directories are sequences of names (`PathsAssumption`) and nothing of
  their number or depth. `ConflictInv` says that the comparison of the later of
  two coders, made where no other creation can come between, is still what both
  know when they live.

`EventStream_proofs` holds for any connections, of which `NoConnection` is none
(`ConnectionsAssumption`), and any bound that leaves room for an attempt
(`MaxEventsAssumption`): `StreamTypes`, `StreamsStayComplete`, `NoWakeupIsLost`.
Its invariant `StreamInv` adds to the checked properties that a waiting handler
follows (`WaitersFollow`), that no cursor is ahead of the log
(`CursorsAreInLog`), that what is on the wire continues what the client holds
(`WireIsNext`), and that a log at its bound is over (`RoomForTheEnd`), without
which a worker could not end. `OverAfter` looks at a prefix of the log, so
`LogGrows` shows that an append does not change what earlier cursors saw.

`Teardown_proofs` holds for any `MaxAttempts \in Nat \ {0}` and any messages.
`ProcessInv` is about the processes: whoever is inside the client is at the
place of that name (`InsideIsPlaced`), nothing exists before its attempt and
nothing is started after a tear-down, `DisconnectedMeansGone` and
`TeardownLeavesNothing`. It gives `TeardownStaysComplete`, `DisconnectsAreSingle`
and `TeardownTypes`. `SteerInv` is about the calls of steer and cancel_message:
the events of a message follow the order of its calls (`CallsAreOrdered`), a
withdrawn message had been sent (`WithdrawnWasReached`), and the log is what the
calls did (`LogIsTrue`). It gives `SteeringStaysTrue`.

`Service_proofs` holds for any processes (other than the marks for nothing and
for a file, `ServicesAssumption`) and commands, any number of crashes, and at
least one try (`TriesAssumption`). `CallInv` says what the stage of a connection
tells about its request while its command goes on; with it every step is a step
of `RemoteCall` or leaves its variables alone (`RefinesNext`), so
`CallsAreHonest` is the refinement itself. `SocketInv`, for behaviours without
races, says that one service at a time is between a check and its use, that
whoever has bound has the path and knows its socket (`BoundIsFound`,
`KnowsItsSocket`), that the path is cleared only while no service serves
(`ClearsWhenIdle`), and that before its bind and after its close no service has
it (`NothingIsLeftOver`). It gives `SocketStaysRight`.

Only model-checked: liveness, since the prover has no reasoning about fairness
and ENABLED (`StopsEnd`, `ResultEndsAttempt`, `EventsReachFollowers`,
`WatchesEnd`, `EveryoneEnds`, `StopEnds`), and the three refuted properties of
section 6.

## 5. Not modelled

Functions of data: the fields of requests, responses and events, the result
sanitiser, the mapping and redaction of SDK messages, JSON schemas beyond "does
the content match", the syntax of configuration files, the parsing of reports,
argument parsing and output of the command line. The bounded list of event kinds
in the reducer, which nothing reads. The 5 minutes' cache of the catalog and the
configured aliases of the design are not in the code.

## 6. Where the code and its documents disagree

Refuted runs:

* `StopDropsResult` – `_cancel_owner` (`supervisor.py:620`) cancels an owner
  that already holds an accepted result but is still in the runner's
  disconnect; the result phase does not exist yet, and the result is dropped.
* `CallbackStrandsResult` – a callback that the SDK cancels leaves the row in
  `requires_action` (`supervisor.py:1075-1079`); the result that follows is
  recorded, its transition is refused, and the worker stays there.
* `SecondServiceHidesWorkers` – two services that start at once both find nothing
  at the path (`lstat`, `rpc.py:63-66`). The first binds and serves; then
  `start_unix_server` of the second (`rpc.py:73`) removes the socket that it now
  finds there and binds its own. Both serve, and the workers of the first answer
  to no later command. Neither probes nor unlinks anything in this behaviour; two
  services that both found the same stale socket may end the same way.

Seen while modelling, and stated by how a checked property is restricted:

* `lifecycle.py:82` says that the reducer moves "only when section 8.1 permits
  that edge". Section 8.1 of the design (lines 293-309) has `starting -> running`
  and `starting -> failed` only, the code's table (`lifecycle.py:57`) also
  `starting -> cancelled`, and a stop of a worker that has not run takes it, by
  the result phase (`supervisor.py:948`) or by the stop's own finalisation.
  `tests/test_stop_and_loss.py:1150` wants the edge. `LogIsLegal` compares the log
  with section 8.1 and names this edge as its one exception (`CancelledAtStart`);
  without the exception TLC refutes it.
* A result whose metadata the store refuses ends the result phase
  (`supervisor.py:931`) and leaves the row running without a task, so
  `ResultEndsAttempt` is checked without the incident `unsafe_result`.
* An `AdapterDiagnostic` in the settlement window replaces the announced result
  by a failure without session (`auditor.py:65`): the exception "sdk_error" of
  `AnnouncedIsAnswered`.
* The session is stored with a result only, so a lost attempt never has one
  (`WorkerContract!Finish`). A resumed attempt that ends without a result
  forgets the session it was resumed from as well: `start_attempt` clears it.
* The requests that were pending at a crash are never resolved, so
  `EveryRequestIsResolved` is checked without the incident `crash`.
* A new process does not look at the rows that a dead one left, so the loss of
  their workers is never reported, unlike `README.md:44` and the design's
  criterion 12. `owned = FALSE` in `EventStream` is such a worker.
* The end frame of a replay names a cursor read after its events
  (`rpc.py:308`); a client that continues from there misses what came between.
  `NothingIsMissed` holds for a client that continues from the last event.
* On a signal the server's close waits for connections, and only the
  supervisor's close, which comes after it, would wake a follower of a live
  worker; `SignalEndsService` therefore starts from a worker that is over.
* A command whose connection dies before it has sent its request ends with a
  traceback (`rpc.py:355`); the design (line 147) has errors in JSON. It is an
  outcome of `RemoteCall`, and an honest one.
* `frame_too_large` and `invalid_request` do not tell whether the supervisor was
  called; `RemoteCall` lets them end either way. A TypeError or ValueError raised
  inside the supervisor is answered like refused parameters (`rpc.py:140-144`):
  a spawn whose directory is gone, a comparison of workspaces that fails after
  the preflight, a stop whose finalisation is refused after it interrupted and
  disconnected the worker. The command then exits with 2 (`cli.py:194`), as after
  a command line that it did not understand.
* If the socket disappears between `lstat` and `unlink` in close, the process
  ends without `supervisor.close` (`Service!Remove`).
* A graceful stop whose runner raises in its disconnect takes the attempt for
  over and does not abort: the CLI process may live on, against the design's
  criterion 11. `TeardownLeavesNothing` is about stops that tore the transport
  down.
* The event of a delivered or cancelled message is stamped with the attempt that
  is current by then (`supervisor.py:396`, `:420`).
* A coder's transport has no policy callback, so its permission questions are
  denied before any person sees them (`Admission!CanUseTool`).
* `proactive_auditor`, `proactive_coder` and `auditor_web_access` are parsed and
  narrowed, and read by nothing (the design, lines 568-578).
* A resume runs no preflight and warns of no write conflict; `PreflightVouches`
  and `ConflictsAreKnown` are about spawned workers.
* The comparison with a live coder whose directory is gone raises, and the spawn
  is refused (`Admission!Create`), though the design (line 385) has warnings
  that do not block.
* The preflight checks the runtime before the credentials, the construction the
  credentials first; the verdicts agree, their codes may not.

## 7. Plan

Written: `WorkerRow`, `WorkerContract`, `Supervisor`, `WorkerStore`,
`EventStream`, `ForegroundRun`, `Service` with `RemoteCall`, `Teardown`, `Policy`
and `Admission`, and the proofs of all safety properties that the runs check.

Next, in this order:

1. A contract of one foreground run: the places of the owner from *created* to
   *disconnecting* and the kind of what the run returns. `ForegroundRun` is to
   implement it with all its detail, and `Supervisor` for every attempt, so that
   the coarse owner is tied to the detailed run by a proof.
2. Which parts of `Order` in `SupervisorNominal_proofs` survive a crash or a
   refused result.
3. A `Log` that followers read in order, implemented by `EventStream`.
