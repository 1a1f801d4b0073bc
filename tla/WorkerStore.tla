---------------------------- MODULE WorkerStore -----------------------------
(***************************************************************************)
(* The durable store (store.py) of one worker: its row in the workers      *)
(* table, its rows in the attempts table, and its rows in the events       *)
(* table.  An action is one committed SQLite transaction; a refused call   *)
(* rolls back and leaves no trace, so a refusal is a guard here.  Callers  *)
(* may come in any order the API admits, and a caller of the approval      *)
(* transactions may believe in an attempt that is over.                    *)
(***************************************************************************)
EXTENDS WorkerRow, SequencesExt

CONSTANTS
  Codes,        \* warning codes
  Requests,     \* identities of approval requests
  MaxAttempts,  \* bound on the worker's attempts
  MaxEvents     \* bound on the length of the log

ASSUME StoreBounds ==
  MaxAttempts \in Nat \ {0} /\ MaxEvents \in Nat /\ IsFiniteSet(Requests)

VARIABLES
  row,       \* the columns that WorkerRow describes
  warnings,  \* the warnings column
  stamps,    \* whether started_at and ended_at are set
  attempts,  \* the attempts table, by number
  events     \* the events table, by sequence

vars == <<row, warnings, stamps, attempts, events>>

Stamps == [started : BOOLEAN, ended : BOOLEAN]
NoStamps == [started |-> FALSE, ended |-> FALSE]

\* An event is its attempt, its type and the part of its payload that is
\* projected or compared.
Event(n, type, arg) == [attempt |-> n, type |-> type, arg |-> arg]
StateChanged(n, to) == Event(n, "worker.state_changed", to)

Room(n) == Len(events) + n <= MaxEvents
Exists == row.state # Absent

-----------------------------------------------------------------------------
(***************************************************************************)
(* The projections (_project_event).                                       *)
(***************************************************************************)
Stamped_Overwrites(s, to) ==
  [started |-> to = Running, ended |-> to \in Terminal]

\* COALESCE keeps the stamp that an earlier event set.
Stamped(s, to) ==
  [started |-> s.started \/ to = Running, ended |-> s.ended \/ to \in Terminal]

Permitted_Any(to) == to \in States

Permitted(to) == CanMove(row.state, to)

Projected_All(n) == DOMAIN attempts

\* The attempts whose record follows an event of attempt n.
Projected(n) == {n}

\* A worker.state_changed event of attempt n, in the tables workers and attempts.
ProjectState(n, to) ==
  /\ Permitted(to)
  /\ row' = Move(row, to)
  /\ stamps' = Stamped(stamps, to)
  /\ attempts' = [m \in DOMAIN attempts |->
                    IF m \in Projected(n)
                    THEN [state |-> to, stamps |-> Stamped(attempts[m].stamps, to)]
                    ELSE attempts[m]]

NoProjection == UNCHANGED <<row, stamps, attempts>>

-----------------------------------------------------------------------------
(***************************************************************************)
(* The transactions.                                                       *)
(***************************************************************************)
NewAttempt == [state |-> Starting, stamps |-> NoStamps]

CreateWorker ==
  /\ ~ Exists /\ Room(1)
  /\ row' = FreshAttempt(1)
  /\ stamps' = NoStamps /\ warnings' = {}
  /\ attempts' = <<NewAttempt>>
  /\ events' = <<Event(1, "worker.created", 1)>>

FreshRow_KeepsHealth(n) == [FreshAttempt(n) EXCEPT !.health = row.health]

FreshRow(n) == FreshAttempt(n)

StartAttempt ==
  /\ Permitted(Starting) /\ Room(1)
  /\ row.attempt < MaxAttempts
  /\ row' = FreshRow(row.attempt + 1)
  /\ stamps' = NoStamps /\ warnings' = {}
  /\ attempts' = Append(attempts, NewAttempt)
  /\ events' = Append(events, StateChanged(row.attempt + 1, Starting))

\* append_event, for each kind of event it accepts: a state ...
AppendState(to) ==
  /\ Exists /\ Room(1) /\ to # Starting
  /\ ProjectState(row.attempt, to)
  /\ events' = Append(events, StateChanged(row.attempt, to))
  /\ UNCHANGED warnings

\* ... a health ...
AppendHealth(health) ==
  /\ Exists /\ Room(1)
  /\ row' = SetHealth(row, health)
  /\ events' = Append(events, Event(row.attempt, "worker.health_changed", health))
  /\ UNCHANGED <<warnings, stamps, attempts>>

\* ... a warning ...
AppendWarning(code) ==
  /\ Exists /\ Room(1)
  /\ warnings' = warnings \cup {code}
  /\ events' = Append(events, Event(row.attempt, "worker.warning", code))
  /\ NoProjection

\* ... or an event that is only logged, as those of steering are.
AppendOther ==
  /\ Exists /\ Room(1)
  /\ events' = Append(events, Event(row.attempt, "steer.delivered", "none"))
  /\ NoProjection /\ UNCHANGED warnings

StillLive_AnyAttempt(expected, states) == row.state \in states

\* What AttemptChangedError checks.
StillLive(expected, states) == row.attempt = expected /\ row.state \in states

RecordApprovalRequest(expected, r) ==
  /\ StillLive(expected, {Running, RequiresAction}) /\ Room(2)
  /\ UNCHANGED warnings
  /\ \/ /\ row.state = Running
        /\ ProjectState(expected, RequiresAction)
        /\ events' = events \o <<Event(expected, "approval.requested", r),
                                 StateChanged(expected, RequiresAction)>>
     \/ /\ row.state = RequiresAction
        /\ NoProjection
        /\ events' = Append(events, Event(expected, "approval.requested", r))

RecordApprovalResolution(expected, r, restore) ==
  /\ StillLive(expected, {RequiresAction}) /\ Room(2)
  /\ UNCHANGED warnings
  /\ \/ /\ restore
        /\ ProjectState(expected, Running)
        /\ events' = events \o <<Event(expected, "approval.resolved", r),
                                 StateChanged(expected, Running)>>
     \/ /\ ~ restore
        /\ NoProjection
        /\ events' = Append(events, Event(expected, "approval.resolved", r))

\* Every request of the batch, then the return to running.
ExpireApprovalRequests(expected, batch) ==
  /\ batch # <<>> /\ StillLive(expected, {RequiresAction}) /\ Room(Len(batch) + 1)
  /\ ProjectState(expected, Running)
  /\ events' = events \o [i \in DOMAIN batch |-> Event(expected, "approval.resolved", batch[i])]
                     \o <<StateChanged(expected, Running)>>
  /\ UNCHANGED warnings

RecordedWarnings_OnlyNew(codes) == codes

\* The caller passes the warnings that the row has, and those of the result.
RecordedWarnings(codes) == warnings \cup codes

\* record_result, as _persist_accepted_result calls it.
RecordTheResult(result, session, codes) ==
  /\ Exists /\ Room(1)
  /\ row' = RecordResult(row, result, session)
  /\ warnings' = RecordedWarnings(codes)
  /\ events' = Append(events, Event(row.attempt, "result.received", TargetOf(result)))
  /\ UNCHANGED <<stamps, attempts>>

-----------------------------------------------------------------------------
Init ==
  /\ row = NoRow /\ warnings = {} /\ stamps = NoStamps
  /\ attempts = <<>> /\ events = <<>>

Next ==
  \/ CreateWorker \/ StartAttempt \/ AppendOther
  \/ \E to \in States : AppendState(to)
  \/ \E health \in Health : AppendHealth(health)
  \/ \E code \in Codes : AppendWarning(code)
  \/ \E expected \in 1 .. MaxAttempts :
       \/ \E r \in Requests :
            \/ RecordApprovalRequest(expected, r)
            \/ \E restore \in BOOLEAN : RecordApprovalResolution(expected, r, restore)
       \/ \E rs \in SUBSET Requests : \E batch \in SetToSeqs(rs) :
            ExpireApprovalRequests(expected, batch)
  \/ \E result \in SdkResults, session \in BOOLEAN, codes \in SUBSET Codes :
       RecordTheResult(result, session, codes)

Spec == Init /\ [][Next]_vars

-----------------------------------------------------------------------------
(***************************************************************************)
(* The three tables tell one story.                                        *)
(***************************************************************************)
TypeOK ==
  /\ row \in Row /\ row.attempt <= MaxAttempts
  /\ warnings \subseteq Codes
  /\ stamps \in Stamps
  /\ attempts \in Seq([state : States, stamps : Stamps])
  /\ Len(attempts) = row.attempt
  /\ Len(events) <= MaxEvents
  /\ \A i \in DOMAIN events : events[i].attempt \in 1 .. row.attempt

Logged(n, type, arg) ==
  \E i \in DOMAIN events : events[i] = [attempt |-> n, type |-> type, arg |-> arg]

\* What one event says about the row.
ReplayEvent(r, e) ==
  CASE e.type = "worker.created"                               -> FreshAttempt(e.attempt)
    [] e.type = "worker.state_changed" /\ e.arg = Starting     -> FreshAttempt(e.attempt)
    [] e.type = "worker.state_changed" /\ e.arg # Starting     -> Move(r, e.arg)
    [] e.type = "worker.health_changed"                        -> SetHealth(r, e.arg)
    [] e.type = "result.received"                              -> [r EXCEPT !.result = e.arg]
    [] OTHER                                                   -> r

\* The row that a log describes: each event adds to what those before it say.
Replay(log) ==
  LET after[n \in 0 .. Len(log)] ==
        IF n = 0 THEN NoRow ELSE ReplayEvent(after[n - 1], log[n])
  IN after[Len(log)]

\* A watcher that replays the log from its start computes the status that a
\* status call returns, whatever transactions wrote it: the log leaves nothing
\* out but the session.
StatusIsReplay ==
  row = [Replay(events) EXCEPT !.session = row.session]

\* The record of the current attempt agrees with the row, and every earlier
\* attempt has ended in a state that a resume accepts.
AttemptsAgree ==
  \A n \in DOMAIN attempts :
    IF n = row.attempt THEN attempts[n] = [state |-> row.state, stamps |-> stamps]
    ELSE attempts[n].state \in Resumable /\ attempts[n].stamps.ended

\* started_at is set once the attempt has run, and not lost when it runs again
\* after an approval; ended_at is set exactly when the attempt is over.
StampsAreHistory ==
  Exists =>
    /\ stamps.started <=> Logged(row.attempt, "worker.state_changed", Running)
    /\ stamps.ended <=> row.state \in Terminal

\* A warning that was shown during the attempt stays in its status.
WarningsAreKept ==
  \A c \in Codes : Logged(row.attempt, "worker.warning", c) => c \in warnings

\* The row, the attempt records and the log state the same facts, each of which
\* the store keeps in two or three places.
TablesAgree == StatusIsReplay /\ AttemptsAgree /\ StampsAreHistory /\ WarningsAreKept

\* Where the log shows a state.
StateEvents == {i \in DOMAIN events : events[i].type = "worker.state_changed"}

\* An edge of the design's lifecycle, or the one edge that the code adds to it.
LegalEdge(from, to) == <<from, to>> \in DesignEdges \cup {CancelledAtStart}

\* The states that the log shows form a path of the design's lifecycle, with the
\* one exception of a worker that is cancelled while it starts, and also across
\* the transactions that log several events: each is entered from the one before
\* it, and the first from starting (WorkerStateReducer.transition, called by
\* each of the store's transactions).
LogIsLegal ==
  \A j \in StateEvents :
    \/ /\ \A i \in StateEvents : j <= i
       /\ LegalEdge(Starting, events[j].arg)
    \/ \E i \in StateEvents :
         /\ i < j /\ \A m \in StateEvents : m <= i \/ j <= m
         /\ LegalEdge(events[i].arg, events[j].arg)

\* The log is only appended to, its attempts never go back, and what an
\* earlier attempt recorded is never touched again.
HistoryStays ==
  [][/\ IsPrefix(events, events')
     /\ \A i \in 1 .. Len(events') - 1 : events'[i].attempt <= events'[i + 1].attempt
     /\ \A n \in 1 .. row.attempt - 1 : attempts'[n] = attempts[n]]_vars
=============================================================================
