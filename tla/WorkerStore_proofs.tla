------------------------- MODULE WorkerStore_proofs -------------------------
(***************************************************************************)
(* The store's tables agree after every sequence of transactions, for      *)
(* every set of warning codes, every finite set of requests and every      *)
(* bound on attempts and on the log.                                       *)
(***************************************************************************)
EXTENDS WorkerStore, FiniteSetTheorems, SequenceTheorems, TLAPS

(***************************************************************************)
(* Replaying a log.                                                        *)
(***************************************************************************)

\* A set of numbers that is not empty has a least one.
LEMMA LeastNumber ==
  ASSUME NEW T, T \subseteq Nat, T # {}
  PROVE  \E n \in T : \A m \in T : n <= m
<1>1. PICK n \in T : \A m \in T : ~ (<<m, n>> \in OpToRel(<, Nat))
  BY NatLessThanWellFounded, WFMin
<1>2. \A m \in T : m \in Nat /\ n \in Nat
  OBVIOUS
<1>3. \A m \in T : <<m, n>> \in OpToRel(<, Nat) <=> m < n
  BY <1>2 DEF OpToRel
<1>4. \A m \in T : ~ (m < n)
  BY <1>1, <1>3
<1>5. \A m \in T : n <= m
  BY <1>2, <1>4
<1> QED BY <1>5

\* f shows the rows that the first n events of a log go through.
IsTrace(f, log, n) ==
  /\ f[0] = NoRow
  /\ \A i \in 1 .. n : f[i] = ReplayEvent(f[i - 1], log[i])

\* A log has one trace.
LEMMA TraceIsUnique ==
  ASSUME NEW log, NEW n \in Nat, NEW f, NEW g, IsTrace(f, log, n), IsTrace(g, log, n)
  PROVE  f[n] = g[n]
<1> DEFINE T == {i \in 0 .. n : f[i] # g[i]}
<1>1. SUFFICES ASSUME T # {} PROVE FALSE
  OBVIOUS
<1>2. PICK i \in T : \A m \in T : i <= m
  <2>1. T \subseteq Nat
    OBVIOUS
  <2> HIDE DEF T
  <2> QED BY <1>1, <2>1, LeastNumber
<1>3. i # 0 /\ i \in 1 .. n /\ i - 1 \in 0 .. n /\ ~ (i <= i - 1)
  BY DEF IsTrace
<1>4. i - 1 \notin T
  <2> HIDE DEF T
  <2> QED BY <1>2, <1>3
<1>5. f[i - 1] = g[i - 1] /\ f[i] # g[i]
  BY <1>3, <1>4
<1> QED BY <1>3, <1>5 DEF IsTrace

\* Every log has a trace.
LEMMA TraceExists ==
  ASSUME NEW log, NEW n \in Nat
  PROVE  \E f : IsTrace(f, log, n)
<1> DEFINE T == {i \in 0 .. n : ~ \E f : IsTrace(f, log, i)}
<1>1. SUFFICES ASSUME T # {} PROVE FALSE
  OBVIOUS
<1>2. PICK i \in T : \A m \in T : i <= m
  <2>1. T \subseteq Nat
    OBVIOUS
  <2> HIDE DEF T
  <2> QED BY <1>1, <2>1, LeastNumber
<1>3. i \in Nat /\ ~ \E f : IsTrace(f, log, i)
  OBVIOUS
<1>4. i # 0
  <2>1. IsTrace([j \in {0} |-> NoRow], log, 0)
    BY DEF IsTrace
  <2> QED BY <1>3, <2>1
<1>5. PICK f : IsTrace(f, log, i - 1)
  <2>1. i - 1 \in 0 .. n /\ ~ (i <= i - 1)
    BY <1>2, <1>4
  <2>2. i - 1 \notin T
    <3> HIDE DEF T
    <3> QED BY <1>2, <2>1
  <2> QED BY <2>1, <2>2
<1> DEFINE g == [j \in 0 .. i |-> IF j < i THEN f[j] ELSE ReplayEvent(f[i - 1], log[i])]
<1>6. g[0] = NoRow
  BY <1>3, <1>4, <1>5 DEF IsTrace
<1>7. ASSUME NEW j \in 1 .. i PROVE g[j] = ReplayEvent(g[j - 1], log[j])
  <2>1. g[j - 1] = f[j - 1]
    BY <1>3
  <2>2. CASE j < i
    <3>1. g[j] = f[j] /\ j \in 1 .. i - 1
      BY <1>3, <2>2
    <3> HIDE DEF g
    <3> QED BY <1>5, <2>1, <3>1 DEF IsTrace
  <2>3. CASE j = i
    <3>1. g[j] = ReplayEvent(f[i - 1], log[i])
      BY <1>3, <2>3
    <3> HIDE DEF g
    <3> QED BY <2>1, <2>3, <3>1
  <2> QED BY <1>3, <2>2, <2>3
<1> HIDE DEF g
<1>8. IsTrace(g, log, i)
  BY <1>6, <1>7 DEF IsTrace
<1> QED BY <1>3, <1>8

\* The row that a log describes is where its trace ends.
LEMMA ReplayIsTrace ==
  ASSUME NEW S, NEW log \in Seq(S), NEW f, IsTrace(f, log, Len(log))
  PROVE  Replay(log) = f[Len(log)]
<1> DEFINE L == Len(log)
           D(h) == [n \in 0 .. L |-> IF n = 0 THEN NoRow ELSE ReplayEvent(h[n - 1], log[n])]
           g == [n \in 0 .. L |-> f[n]]
           after == CHOOSE h : h = D(h)
<1>1. L \in Nat
  OBVIOUS
<1>2. g = D(g)
  <2>1. ASSUME NEW n \in 0 .. L
        PROVE  g[n] = IF n = 0 THEN NoRow ELSE ReplayEvent(g[n - 1], log[n])
    BY <1>1 DEF IsTrace
  <2> QED BY <2>1
<1>3. after = D(after)
  <2> HIDE DEF D, g
  <2> QED BY <1>2
<1>4. IsTrace(after, log, L)
  <2> HIDE DEF after
  <2>1. after = [n \in 0 .. L |-> IF n = 0 THEN NoRow ELSE ReplayEvent(after[n - 1], log[n])]
    BY <1>3
  <2> QED BY <1>1, <2>1 DEF IsTrace
<1>5. Replay(log) = after[L]
  BY DEF Replay
<1> HIDE DEF after, L
<1> QED BY <1>1, <1>4, <1>5, TraceIsUnique DEF L

\* What a log says once it was continued by events that leave rows alone, and by
\* a last one.
LEMMA ReplayContinues ==
  ASSUME NEW S, NEW log \in Seq(S), NEW longer \in Seq(S), Len(log) < Len(longer),
         \A i \in 1 .. Len(log) : longer[i] = log[i],
         \A i \in Len(log) + 1 .. Len(longer) - 1 :
           \A r : ReplayEvent(r, longer[i]) = r
  PROVE  Replay(longer) = ReplayEvent(Replay(log), longer[Len(longer)])
<1> DEFINE L == Len(log)  N == Len(longer)
<1>1. L \in Nat /\ N \in Nat /\ L < N
  OBVIOUS
<1>2. PICK f : IsTrace(f, log, L)
  <2> HIDE DEF L
  <2> QED BY <1>1, TraceExists
<1>3. Replay(log) = f[L]
  BY <1>2, ReplayIsTrace
<1> DEFINE g == [n \in 0 .. N |-> IF n <= L THEN f[n] ELSE IF n < N THEN f[L]
                                  ELSE ReplayEvent(f[L], longer[N])]
<1>4. g[0] = NoRow /\ g[N] = ReplayEvent(f[L], longer[N])
  BY <1>1, <1>2 DEF IsTrace
<1>5. ASSUME NEW i \in 1 .. N PROVE g[i] = ReplayEvent(g[i - 1], longer[i])
  <2>1. CASE i <= L
    <3>1. g[i] = f[i] /\ g[i - 1] = f[i - 1] /\ i \in 1 .. L
      BY <1>1, <2>1
    <3> HIDE DEF g
    <3>2. longer[i] = log[i]
      BY <3>1
    <3> QED BY <1>2, <3>1, <3>2 DEF IsTrace
  <2>2. CASE L < i /\ i < N
    <3>1. g[i] = f[L] /\ g[i - 1] = f[L] /\ i \in L + 1 .. N - 1
      BY <1>1, <2>2
    <3> HIDE DEF g
    <3> QED BY <3>1
  <2>3. CASE i = N
    <3>1. g[i] = ReplayEvent(f[L], longer[N]) /\ g[i - 1] = f[L]
      BY <1>1, <2>3
    <3> HIDE DEF g
    <3> QED BY <2>3, <3>1
  <2> QED BY <1>1, <2>1, <2>2, <2>3
<1> HIDE DEF g
<1>6. IsTrace(g, longer, N)
  BY <1>4, <1>5 DEF IsTrace
<1>7. Replay(longer) = g[N]
  BY <1>6, ReplayIsTrace
<1> QED BY <1>3, <1>4, <1>7

\* An empty log describes no row.
LEMMA ReplayOfNothing == Replay(<<>>) = NoRow
<1>1. <<>> \in Seq({}) /\ Len(<<>>) = 0
  OBVIOUS
<1>2. IsTrace([j \in {0} |-> NoRow], <<>>, 0)
  BY DEF IsTrace
<1>3. Replay(<<>>) = [j \in {0} |-> NoRow][0]
  BY <1>1, <1>2, ReplayIsTrace
<1> QED BY <1>3

-----------------------------------------------------------------------------
(***************************************************************************)
(* The inductive invariant.                                                *)
(***************************************************************************)
Args == {1, "none"} \cup States \cup Health \cup Codes \cup Requests \cup SdkResults
EventTypes ==
  {"worker.created", "worker.state_changed", "worker.health_changed", "worker.warning",
   "steer.delivered", "approval.requested", "approval.resolved", "result.received"}
EventRecord == [attempt : Nat, type : EventTypes, arg : Args]

\* The attempts of the log never go back.
EventsInOrder == \A i \in 1 .. Len(events) - 1 : events[i].attempt <= events[i + 1].attempt

\* The state of the row is the last one that the log shows.
RowIsLastState ==
  \/ StateEvents = {} /\ row.state \in {Absent, Starting}
  \/ \E i \in StateEvents : /\ \A m \in StateEvents : m <= i
                            /\ row.state = events[i].arg

\* Before the worker is created there is nothing.
NothingBefore ==
  /\ Exists <=> row.attempt > 0
  /\ ~ Exists => row = NoRow /\ attempts = <<>> /\ events = <<>>

Typed ==
  TypeOK /\ events \in Seq(EventRecord) /\ Replay(events) \in Row /\ NothingBefore

StoreInv == Typed /\ EventsInOrder /\ RowIsLastState /\ TablesAgree /\ LogIsLegal

-----------------------------------------------------------------------------
(***************************************************************************)
(* What a transaction may do.                                              *)
(***************************************************************************)
LogGrows(n) ==
  /\ events' \in Seq(EventRecord) /\ Len(events') = Len(events) + n /\ Len(events') <= MaxEvents
  /\ \A i \in 1 .. Len(events) : events'[i] = events[i]

NewEvent == events'[Len(events')]

\* It begins an attempt ...
Begins ==
  /\ LogGrows(1) /\ row.attempt < MaxAttempts
  /\ row' = FreshAttempt(row.attempt + 1) /\ stamps' = NoStamps /\ warnings' = {}
  /\ attempts' = Append(attempts, NewAttempt)
  /\ \/ ~ Exists /\ NewEvent = Event(1, "worker.created", 1)
     \/ row.state \in Resumable /\ NewEvent = StateChanged(row.attempt + 1, Starting)

\* ... moves the current one, possibly after answers to its requests ...
Moves(to, n) ==
  /\ Exists /\ LogGrows(n) /\ ProjectState(row.attempt, to) /\ UNCHANGED warnings
  /\ NewEvent = StateChanged(row.attempt, to)
  /\ \A i \in Len(events) + 1 .. Len(events') - 1 :
       /\ events'[i].attempt = row.attempt
       /\ events'[i].type \in {"approval.requested", "approval.resolved"}

\* ... or adds to what is known of it.
Notes ==
  /\ Exists /\ LogGrows(1) /\ UNCHANGED <<stamps, attempts>>
  /\ row' \in Row /\ row'.attempt = row.attempt /\ row'.state = row.state
  /\ NewEvent.attempt = row.attempt
  /\ NewEvent.type \notin {"worker.created", "worker.state_changed"}
  /\ warnings \subseteq warnings' /\ warnings' \subseteq Codes
  /\ NewEvent.type = "worker.warning" => NewEvent.arg \in warnings'
  /\ \A q \in Row :
       row = [q EXCEPT !.session = row.session] =>
         /\ ReplayEvent(q, NewEvent) \in Row
         /\ row' = [ReplayEvent(q, NewEvent) EXCEPT !.session = row'.session]

Shapes ==
  Begins \/ Notes \/ \E to \in States \ {Starting}, n \in Nat \ {0} : Moves(to, n)

\* Appending one event.
LEMMA AppendGrows ==
  ASSUME Typed, NEW e \in EventRecord, Room(1), events' = Append(events, e)
  PROVE  LogGrows(1) /\ NewEvent = e
BY StoreBounds DEF Typed, LogGrows, NewEvent, Room

\* The names of states and of kinds of events.
LEMMA Names ==
  /\ States \subseteq Args /\ Health \subseteq Args /\ Codes \subseteq Args
  /\ Requests \subseteq Args /\ SdkResults \subseteq Args /\ 1 \in Args /\ "none" \in Args
  /\ Starting \in States /\ Running \in States /\ RequiresAction \in States
  /\ Starting # Running /\ Running # RequiresAction /\ Starting # RequiresAction
  /\ Terminal \subseteq States /\ Resumable \subseteq Terminal
  /\ {Starting, Running, RequiresAction, Absent} \cap Terminal = {}
  /\ Absent \notin States
BY DEF Args, States, Starting, Running, RequiresAction, Terminal, Resumable, Absent

\* The first attempt, or the next one.
LEMMA BeginningsHaveShape ==
  ASSUME Typed, CreateWorker \/ StartAttempt
  PROVE  Begins
<1>0. row \in Row /\ row.attempt \in Nat
  BY DEF Typed, TypeOK, Row
<1>1. CASE CreateWorker
  <2>1. row = NoRow /\ attempts = <<>> /\ events = <<>>
    BY <1>1 DEF CreateWorker, Typed, NothingBefore
  <2>2. Event(1, "worker.created", 1) \in EventRecord
    BY Names DEF Event, EventRecord, EventTypes
  <2>3. events' = Append(events, Event(1, "worker.created", 1))
    BY <1>1, <2>1 DEF CreateWorker
  <2>4. LogGrows(1) /\ NewEvent = Event(1, "worker.created", 1)
    BY <1>1, <2>2, <2>3, AppendGrows DEF CreateWorker
  <2>5. row.attempt = 0 /\ 0 < MaxAttempts
    BY <2>1, StoreBounds DEF NoRow
  <2>6. attempts' = Append(attempts, NewAttempt)
    BY <1>1, <2>1 DEF CreateWorker
  <2> QED BY <1>1, <2>4, <2>5, <2>6 DEF CreateWorker, Begins
<1>2. CASE StartAttempt
  <2>1. StateChanged(row.attempt + 1, Starting) \in EventRecord
    BY <1>0, Names DEF StateChanged, Event, EventRecord, EventTypes
  <2>2. LogGrows(1) /\ NewEvent = StateChanged(row.attempt + 1, Starting)
    BY <1>2, <2>1, AppendGrows DEF StartAttempt
  <2>3. row.state \in Resumable
    BY <1>0, <1>2 DEF StartAttempt, Permitted, CanMove, Transitions, Row, States, Starting,
       Running, RequiresAction, Terminal, Resumable, Absent
  <2> QED BY <1>2, <2>2, <2>3 DEF StartAttempt, Begins, FreshRow
<1> QED BY <1>1, <1>2

\* What events say of a row.
LEMMA Replayed ==
  ASSUME NEW q \in Row, NEW n \in Nat, NEW arg
  PROVE  /\ ReplayEvent(q, Event(n, "worker.created", arg)) = FreshAttempt(n)
         /\ ReplayEvent(q, StateChanged(n, Starting)) = FreshAttempt(n)
         /\ arg # Starting => ReplayEvent(q, StateChanged(n, arg)) = Move(q, arg)
         /\ ReplayEvent(q, Event(n, "worker.health_changed", arg)) = SetHealth(q, arg)
         /\ ReplayEvent(q, Event(n, "result.received", arg)) = [q EXCEPT !.result = arg]
         /\ \A type \in {"worker.warning", "steer.delivered", "approval.requested",
                         "approval.resolved"} :
              ReplayEvent(q, Event(n, type, arg)) = q
BY DEF ReplayEvent, Event, StateChanged

\* An event that tells nothing of the row.
LEMMA PlainNote ==
  ASSUME Typed, Exists, NEW e \in EventRecord, Room(1), events' = Append(events, e),
         UNCHANGED <<row, stamps, attempts>>, e.attempt = row.attempt,
         e.type \in {"worker.warning", "steer.delivered", "approval.requested",
                     "approval.resolved"},
         warnings \subseteq warnings', warnings' \subseteq Codes,
         e.type = "worker.warning" => e.arg \in warnings'
  PROVE  Notes
<1>1. LogGrows(1) /\ NewEvent = e
  BY AppendGrows
<1>2. row \in Row
  BY DEF Typed, TypeOK
<1>3. \A q : ReplayEvent(q, e) = q
  BY DEF ReplayEvent
<1> QED BY <1>1, <1>2, <1>3 DEF Notes

\* An event of the health.
LEMMA HealthNote ==
  ASSUME Typed, NEW health \in {"unknown", "healthy", "exited"}, AppendHealth(health)
  PROVE  Notes
<1> DEFINE e == Event(row.attempt, "worker.health_changed", health)
<1>0. row \in Row /\ row.attempt \in Nat /\ health \in Health /\ warnings \subseteq Codes
  BY DEF Typed, TypeOK, Row, Health
<1>1. e \in EventRecord
  BY <1>0, Names DEF Event, EventRecord, EventTypes
<1>2. /\ Exists /\ Room(1) /\ row' = SetHealth(row, health) /\ events' = Append(events, e)
      /\ UNCHANGED <<warnings, stamps, attempts>>
  BY DEF AppendHealth
<1>3. /\ e.attempt = row.attempt /\ e.type = "worker.health_changed" /\ e.arg = health
      /\ \A q \in Row : ReplayEvent(q, e) = SetHealth(q, health)
  <2>1. e.attempt = row.attempt /\ e.type = "worker.health_changed" /\ e.arg = health
    BY DEF Event
  <2> QED BY <1>0, <2>1, Replayed
<1>4. /\ SetHealth(row, health) \in Row /\ SetHealth(row, health).attempt = row.attempt
      /\ SetHealth(row, health).state = row.state
      /\ SetHealth(row, health).session = row.session
  BY <1>0 DEF SetHealth, Row
<1>5. ASSUME NEW q \in Row, row = [q EXCEPT !.session = row.session]
      PROVE  /\ SetHealth(q, health) \in Row
             /\ SetHealth(row, health) = [SetHealth(q, health) EXCEPT !.session = row.session]
  BY <1>0, <1>5 DEF SetHealth, Row
<1> HIDE DEF e
<1>6. LogGrows(1) /\ NewEvent = e
  BY <1>1, <1>2, AppendGrows
<1> QED BY <1>0, <1>2, <1>3, <1>4, <1>5, <1>6 DEF Notes

\* The event of a result.
LEMMA ResultNote ==
  ASSUME Typed, NEW result \in SdkResults, NEW session \in BOOLEAN, NEW codes \in SUBSET Codes,
         RecordTheResult(result, session, codes)
  PROVE  Notes
<1> DEFINE e == Event(row.attempt, "result.received", TargetOf(result))
           r == RecordResult(row, result, session)
<1>0. row \in Row /\ row.attempt \in Nat /\ warnings \subseteq Codes /\ result \in Results
  BY DEF Typed, TypeOK, Row, Results
<1>a. TargetOf(result) = result
  BY DEF TargetOf, SdkResults
<1>1. e \in EventRecord
  BY <1>0, <1>a, Names DEF Event, EventRecord, EventTypes
<1>2. /\ Exists /\ Room(1) /\ row' = r /\ events' = Append(events, e)
      /\ UNCHANGED <<stamps, attempts>> /\ warnings' = warnings \cup codes
  BY DEF RecordTheResult, RecordedWarnings
<1>3. /\ e.attempt = row.attempt /\ e.type = "result.received"
      /\ \A q \in Row : ReplayEvent(q, e) = [q EXCEPT !.result = result]
  <2>1. e.attempt = row.attempt /\ e.type = "result.received"
    BY DEF Event
  <2> QED BY <1>0, <1>a, <2>1, Replayed
<1>4. r \in Row /\ r.attempt = row.attempt /\ r.state = row.state /\ r.session = session
  BY <1>0 DEF RecordResult, Row
<1>5. ASSUME NEW q \in Row, row = [q EXCEPT !.session = row.session]
      PROVE  /\ [q EXCEPT !.result = result] \in Row
             /\ r = [[q EXCEPT !.result = result] EXCEPT !.session = session]
  BY <1>0, <1>5 DEF RecordResult, Row
<1> HIDE DEF e, r
<1>6. LogGrows(1) /\ NewEvent = e
  BY <1>1, <1>2, AppendGrows
<1> QED BY <1>0, <1>2, <1>3, <1>4, <1>5, <1>6 DEF Notes

\* The transactions that log an event that is not a state, or only a request.
LEMMA NotesHaveShape ==
  ASSUME Typed,
         \/ AppendOther \/ \E code \in Codes : AppendWarning(code)
         \/ \E health \in Health : AppendHealth(health)
         \/ \E result \in SdkResults, session \in BOOLEAN, codes \in SUBSET Codes :
              RecordTheResult(result, session, codes)
  PROVE  Notes
<1>0. row.attempt \in Nat /\ warnings \subseteq Codes
  BY DEF Typed, TypeOK, Row
<1>1. CASE AppendOther
  <2> DEFINE e == Event(row.attempt, "steer.delivered", "none")
  <2>1. e \in EventRecord /\ e.attempt = row.attempt /\ e.type = "steer.delivered"
    BY <1>0, Names DEF Event, EventRecord, EventTypes
  <2>2. /\ Exists /\ Room(1) /\ events' = Append(events, e)
        /\ UNCHANGED <<row, stamps, attempts, warnings>>
    BY <1>1 DEF AppendOther, NoProjection
  <2> HIDE DEF e
  <2> QED BY <1>0, <2>1, <2>2, PlainNote
<1>2. ASSUME NEW code \in Codes, AppendWarning(code) PROVE Notes
  <2> DEFINE e == Event(row.attempt, "worker.warning", code)
  <2>1. e \in EventRecord /\ e.attempt = row.attempt /\ e.type = "worker.warning" /\ e.arg = code
    BY <1>0, Names DEF Event, EventRecord, EventTypes
  <2>2. /\ Exists /\ Room(1) /\ events' = Append(events, e)
        /\ UNCHANGED <<row, stamps, attempts>> /\ warnings' = warnings \cup {code}
    BY <1>2 DEF AppendWarning, NoProjection
  <2> HIDE DEF e
  <2> QED BY <1>0, <2>1, <2>2, PlainNote
<1> QED BY <1>1, <1>2, HealthNote, ResultNote DEF Health

\* A change of state that follows events of approvals.
LEMMA MoveAfter ==
  ASSUME Typed, Exists, NEW to \in States \ {Starting}, NEW answers \in Seq(EventRecord),
         \A i \in 1 .. Len(answers) :
           /\ answers[i].attempt = row.attempt
           /\ answers[i].type \in {"approval.requested", "approval.resolved"},
         Room(Len(answers) + 1), ProjectState(row.attempt, to), UNCHANGED warnings,
         events' = (events \o answers) \o <<StateChanged(row.attempt, to)>>
  PROVE  Moves(to, Len(answers) + 1)
<1> DEFINE e == StateChanged(row.attempt, to)  N == Len(events)  M == Len(answers)
<1>0. events \in Seq(EventRecord) /\ N \in Nat /\ M \in Nat /\ row.attempt \in Nat
  BY DEF Typed, TypeOK, Row
<1>1. e \in EventRecord
  BY <1>0, Names DEF StateChanged, Event, EventRecord, EventTypes
<1>2. /\ events \o answers \in Seq(EventRecord) /\ Len(events \o answers) = N + M
      /\ \A i \in 1 .. N : (events \o answers)[i] = events[i]
      /\ \A i \in N + 1 .. N + M : (events \o answers)[i] = answers[i - N]
  <2> HIDE DEF e
  <2> QED BY <1>0
<1>3. /\ events' \in Seq(EventRecord) /\ Len(events') = N + M + 1
      /\ \A i \in 1 .. N + M : events'[i] = (events \o answers)[i]
      /\ events'[N + M + 1] = e
  <2> DEFINE mid == events \o answers
  <2>1. events' = mid \o <<e>> /\ mid \in Seq(EventRecord) /\ Len(mid) = N + M
    BY <1>2
  <2> HIDE DEF e, mid, N, M
  <2>2. events' = Append(mid, e)
    BY <1>1, <2>1, AppendIsConcat
  <2>3. /\ Append(mid, e) \in Seq(EventRecord) /\ Len(Append(mid, e)) = Len(mid) + 1
        /\ \A i \in 1 .. Len(mid) : Append(mid, e)[i] = mid[i]
        /\ Append(mid, e)[Len(mid) + 1] = e
    BY <1>1, <2>1, AppendProperties
  <2> QED BY <2>1, <2>2, <2>3 DEF mid
<1>4. \A i \in 1 .. N : events'[i] = events[i]
  BY <1>0, <1>2, <1>3
<1>5. ASSUME NEW i \in N + 1 .. N + M
      PROVE  /\ events'[i].attempt = row.attempt
             /\ events'[i].type \in {"approval.requested", "approval.resolved"}
  <2>1. events'[i] = answers[i - N] /\ i - N \in 1 .. M
    BY <1>0, <1>2, <1>3
  <2> QED BY <2>1
<1>6. N + (M + 1) <= MaxEvents /\ N + (M + 1) = N + M + 1 /\ (N + M + 1) - 1 = N + M
  BY <1>0 DEF Room
<1> HIDE DEF e, N, M
<1>7. LogGrows(M + 1) /\ NewEvent = e
  BY <1>3, <1>4, <1>6 DEF LogGrows, NewEvent, N
<1>8. \A i \in N + 1 .. Len(events') - 1 :
        /\ events'[i].attempt = row.attempt
        /\ events'[i].type \in {"approval.requested", "approval.resolved"}
  BY <1>3, <1>5, <1>6
<1> QED BY <1>7, <1>8 DEF Moves, e, N, M

\* A batch of requests, without repetition.
LEMMA BatchIsSequence ==
  ASSUME NEW rs \in SUBSET Requests, NEW batch \in SetToSeqs(rs)
  PROVE  batch \in Seq(Requests) /\ DOMAIN batch = 1 .. Len(batch)
<1>1. IsFiniteSet(rs)
  BY FS_Subset, StoreBounds
<1>2. Cardinality(rs) \in Nat
  BY <1>1, FS_CardinalityType
<1>3. batch \in [1 .. Cardinality(rs) -> rs]
  BY DEF SetToSeqs
<1>4. batch \in Seq(rs)
  BY <1>2, <1>3
<1> QED BY <1>4

\* The transactions that change a state.
LEMMA MovesHaveShape ==
  ASSUME Typed,
         \/ \E to \in States : AppendState(to)
         \/ \E expected \in 1 .. MaxAttempts, r \in Requests :
              \/ RecordApprovalRequest(expected, r)
              \/ \E restore \in BOOLEAN : RecordApprovalResolution(expected, r, restore)
         \/ \E expected \in 1 .. MaxAttempts, rs \in SUBSET Requests :
              \E batch \in SetToSeqs(rs) : ExpireApprovalRequests(expected, batch)
  PROVE  Shapes
<1> DEFINE a == row.attempt
<1>0. /\ a \in Nat /\ events \in Seq(EventRecord) /\ Len(events) \in Nat
      /\ warnings \subseteq Codes
  BY DEF Typed, TypeOK, Row
<1>a. row.state \in {Running, RequiresAction} => Exists
  BY Names DEF Exists
<1>b. /\ Running \in States \ {Starting} /\ RequiresAction \in States \ {Starting}
  BY Names
<1>1. ASSUME NEW to \in States, AppendState(to) PROVE Shapes
  <2>1. /\ <<>> \in Seq(EventRecord) /\ Len(<<>>) = 0
        /\ Exists /\ Room(1) /\ to # Starting /\ ProjectState(a, to) /\ UNCHANGED warnings
        /\ events' = Append(events, StateChanged(a, to))
    BY <1>1 DEF AppendState
  <2>2. StateChanged(a, to) \in EventRecord
    BY <1>0, Names DEF StateChanged, Event, EventRecord, EventTypes
  <2>3. LogGrows(1) /\ NewEvent = StateChanged(a, to)
    BY <2>1, <2>2, AppendGrows
  <2>4. \A i \in Len(events) + 1 .. Len(events') - 1 : FALSE
    BY <1>0, <2>3 DEF LogGrows
  <2>5. Moves(to, 1)
    BY <2>1, <2>3, <2>4 DEF Moves
  <2> QED BY <2>1, <2>5 DEF Shapes
<1>2. ASSUME NEW r \in Requests, NEW type \in {"approval.requested", "approval.resolved"},
             NEW to \in {Running, RequiresAction}, Room(2), Exists,
             ProjectState(a, to), UNCHANGED warnings,
             events' = events \o <<Event(a, type, r), StateChanged(a, to)>>
      PROVE  Shapes
  <2> DEFINE x == Event(a, type, r)  e == StateChanged(a, to)
  <2>1. x \in EventRecord /\ x.attempt = a /\ x.type = type /\ e \in EventRecord
    BY <1>0, <1>b, Names DEF StateChanged, Event, EventRecord, EventTypes
  <2> HIDE DEF x, e
  <2>2. /\ <<x>> \in Seq(EventRecord) /\ Len(<<x>>) = 1 /\ <<x>>[1] = x
        /\ events \o <<x, e>> = (events \o <<x>>) \o <<e>>
    <3>1. <<x>> \in Seq(EventRecord) /\ Len(<<x>>) = 1 /\ <<x>>[1] = x
      BY <2>1
    <3>2. <<e>> \in Seq(EventRecord)
      BY <2>1
    <3>3. <<x>> \o <<e>> = <<x, e>>
      <4>1. <<x>> \o <<e>> = Append(<<x>>, e)
        BY <2>1, <3>1, AppendIsConcat
      <4>2. /\ <<x, e>> \in Seq(EventRecord) /\ Len(<<x, e>>) = 2
            /\ <<x, e>>[1] = x /\ <<x, e>>[2] = e
        BY <2>1
      <4>3. /\ Append(<<x>>, e) \in Seq(EventRecord) /\ Len(Append(<<x>>, e)) = 2
            /\ Append(<<x>>, e)[1] = x /\ Append(<<x>>, e)[2] = e
        BY <2>1, <3>1
      <4>4. \A i \in 1 .. 2 : Append(<<x>>, e)[i] = <<x, e>>[i]
        BY <4>2, <4>3
      <4> QED BY <4>1, <4>2, <4>3, <4>4, SeqEqual
    <3>4. (events \o <<x>>) \o <<e>> = events \o (<<x>> \o <<e>>)
      BY <1>0, <3>1, <3>2, ConcatAssociative
    <3> QED BY <3>1, <3>3, <3>4
  <2>3. \A i \in 1 .. Len(<<x>>) : <<x>>[i] = x
    BY <2>2
  <2>4. Moves(to, 2)
    <3>1. /\ \A i \in 1 .. Len(<<x>>) :
               /\ <<x>>[i].attempt = row.attempt
               /\ <<x>>[i].type \in {"approval.requested", "approval.resolved"}
          /\ Room(Len(<<x>>) + 1) /\ Len(<<x>>) + 1 = 2
          /\ events' = (events \o <<x>>) \o <<StateChanged(row.attempt, to)>>
      BY <1>2, <2>1, <2>2, <2>3 DEF e, x
    <3> QED BY <1>2, <1>b, <2>2, <3>1, MoveAfter
  <2> QED BY <1>b, <2>4 DEF Shapes
<1>3. ASSUME NEW r \in Requests, NEW type \in {"approval.requested", "approval.resolved"},
             Room(2), Exists, NoProjection, UNCHANGED warnings,
             events' = Append(events, Event(a, type, r))
      PROVE  Shapes
  <2> DEFINE x == Event(a, type, r)
  <2>1. x \in EventRecord /\ x.attempt = a /\ x.type = type
    BY <1>0, Names DEF Event, EventRecord, EventTypes
  <2>2. Room(1)
    BY <1>0, <1>3, StoreBounds DEF Room
  <2> HIDE DEF x
  <2>3. Notes
    BY <1>0, <1>3, <2>1, <2>2, PlainNote DEF NoProjection, x
  <2> QED BY <2>3 DEF Shapes
<1>4. ASSUME NEW expected \in 1 .. MaxAttempts, NEW r \in Requests,
             RecordApprovalRequest(expected, r)
      PROVE  Shapes
  <2>1. expected = a /\ Exists /\ Room(2) /\ UNCHANGED warnings
    BY <1>4, <1>a DEF RecordApprovalRequest, StillLive
  <2> QED BY <1>2, <1>3, <1>4, <2>1 DEF RecordApprovalRequest
<1>5. ASSUME NEW expected \in 1 .. MaxAttempts, NEW r \in Requests, NEW restore \in BOOLEAN,
             RecordApprovalResolution(expected, r, restore)
      PROVE  Shapes
  <2>1. expected = a /\ Exists /\ Room(2) /\ UNCHANGED warnings
    BY <1>5, <1>a DEF RecordApprovalResolution, StillLive
  <2> QED BY <1>2, <1>3, <1>5, <2>1 DEF RecordApprovalResolution
<1>6. ASSUME NEW expected \in 1 .. MaxAttempts, NEW rs \in SUBSET Requests,
             NEW batch \in SetToSeqs(rs), ExpireApprovalRequests(expected, batch)
      PROVE  Shapes
  <2> DEFINE answers == [i \in DOMAIN batch |-> Event(a, "approval.resolved", batch[i])]
  <2>1. /\ expected = a /\ Exists /\ Room(Len(batch) + 1) /\ UNCHANGED warnings
        /\ ProjectState(a, Running)
        /\ events' = (events \o answers) \o <<StateChanged(a, Running)>>
    BY <1>6, <1>a DEF ExpireApprovalRequests, StillLive
  <2>2. batch \in Seq(Requests) /\ DOMAIN batch = 1 .. Len(batch) /\ Len(batch) \in Nat
    BY BatchIsSequence
  <2>3. \A i \in 1 .. Len(batch) :
          /\ answers[i] \in EventRecord /\ answers[i].attempt = a
          /\ answers[i].type = "approval.resolved"
    BY <1>0, <2>2, Names DEF Event, EventRecord, EventTypes
  <2>4. answers \in Seq(EventRecord) /\ Len(answers) = Len(batch)
    <3>1. answers = [i \in 1 .. Len(batch) |-> answers[i]]
      BY <2>2
    <3> HIDE DEF answers
    <3>2. answers \in [1 .. Len(batch) -> EventRecord]
      BY <2>3, <3>1
    <3> QED BY <2>2, <3>2
  <2> HIDE DEF answers
  <2>5. Moves(Running, Len(answers) + 1)
    BY <1>b, <2>1, <2>3, <2>4, MoveAfter
  <2> QED BY <1>b, <2>2, <2>4, <2>5 DEF Shapes
<1> HIDE DEF a
<1> QED BY <1>1, <1>4, <1>5, <1>6

\* Every transaction has one of the three shapes.
LEMMA StepsHaveShape ==
  ASSUME Typed, Next
  PROVE  Shapes
BY BeginningsHaveShape, NotesHaveShape, MovesHaveShape DEF Next, Shapes

-----------------------------------------------------------------------------
(***************************************************************************)
(* Each shape keeps the invariant.                                         *)
(***************************************************************************)

\* The log remains typed and ordered, when its new events are of the attempt that
\* the row then has.
LEMMA LogStaysInOrder ==
  ASSUME Typed, EventsInOrder, NEW n \in Nat \ {0}, LogGrows(n),
         row'.attempt \in Nat, row.attempt <= row'.attempt, row'.attempt > 0,
         \A i \in Len(events) + 1 .. Len(events') : events'[i].attempt = row'.attempt
  PROVE  /\ \A i \in DOMAIN events' : events'[i].attempt \in 1 .. row'.attempt
         /\ EventsInOrder'
<1>0. /\ events \in Seq(EventRecord) /\ Len(events) \in Nat /\ row.attempt \in Nat
      /\ DOMAIN events = 1 .. Len(events)
      /\ \A i \in 1 .. Len(events) : events[i].attempt \in 1 .. row.attempt
  BY DEF Typed, TypeOK, Row
<1>1. /\ events' \in Seq(EventRecord) /\ Len(events') = Len(events) + n
      /\ DOMAIN events' = 1 .. Len(events')
      /\ \A i \in 1 .. Len(events) : events'[i] = events[i]
  BY DEF LogGrows
<1>2. ASSUME NEW i \in 1 .. Len(events') PROVE events'[i].attempt \in 1 .. row'.attempt
  <2>1. CASE i <= Len(events)
    <3>1. i \in 1 .. Len(events)
      BY <1>0, <1>1, <2>1
    <3>2. events'[i].attempt \in 1 .. row.attempt
      BY <1>0, <1>1, <3>1
    <3> QED BY <1>0, <3>2
  <2>2. CASE i > Len(events)
    <3>1. i \in Len(events) + 1 .. Len(events')
      BY <1>0, <1>1, <2>2
    <3> QED BY <3>1
  <2> QED BY <1>0, <1>1, <2>1, <2>2
<1>3. ASSUME NEW i \in 1 .. Len(events') - 1
      PROVE  events'[i].attempt <= events'[i + 1].attempt
  <2>1. CASE i + 1 <= Len(events)
    <3>1. i \in 1 .. Len(events) - 1 /\ i \in 1 .. Len(events) /\ i + 1 \in 1 .. Len(events)
      BY <1>0, <1>1, <2>1
    <3> QED BY <1>1, <3>1 DEF EventsInOrder
  <2>2. CASE i + 1 > Len(events)
    <3>1. i + 1 \in Len(events) + 1 .. Len(events') /\ i \in 1 .. Len(events')
      BY <1>0, <1>1, <2>2
    <3>2. events'[i + 1].attempt = row'.attempt /\ events'[i].attempt \in 1 .. row'.attempt
      BY <1>2, <3>1
    <3> QED BY <3>2
  <2> QED BY <1>0, <1>1, <2>1, <2>2
<1> QED BY <1>1, <1>2, <1>3 DEF EventsInOrder

\* A log shows an event.
Shows(log, n, type, arg) ==
  \E i \in DOMAIN log : log[i] = [attempt |-> n, type |-> type, arg |-> arg]

\* Facts of the log that stay, and those that are new.
LEMMA LoggedGrows ==
  ASSUME Typed, NEW n \in Nat \ {0}, LogGrows(n)
  PROVE  \A a, type, arg :
           Shows(events', a, type, arg) <=>
             \/ Shows(events, a, type, arg)
             \/ \E i \in Len(events) + 1 .. Len(events') : 
                  events'[i] = [attempt |-> a, type |-> type, arg |-> arg]
<1>1. /\ events \in Seq(EventRecord) /\ Len(events) \in Nat
      /\ DOMAIN events = 1 .. Len(events)
  BY DEF Typed
<1>2. /\ Len(events') = Len(events) + n /\ DOMAIN events' = 1 .. Len(events')
      /\ \A i \in 1 .. Len(events) : events'[i] = events[i]
  BY DEF LogGrows
<1>3. \A i : i \in DOMAIN events' <=> i \in DOMAIN events \/ i \in Len(events) + 1 .. Len(events')
  BY <1>1, <1>2
<1> QED BY <1>1, <1>2, <1>3 DEF Shows

\* A log that shows no new state shows a path as before.
LEMMA NoNewState ==
  ASSUME Typed, RowIsLastState, LogIsLegal, NEW n \in Nat \ {0}, LogGrows(n),
         \A i \in Len(events) + 1 .. Len(events') : events'[i].type # "worker.state_changed",
         row'.state = row.state
  PROVE  RowIsLastState' /\ LogIsLegal'
<1>1. /\ events \in Seq(EventRecord) /\ Len(events) \in Nat /\ DOMAIN events = 1 .. Len(events)
      /\ Len(events') = Len(events) + n /\ DOMAIN events' = 1 .. Len(events')
      /\ \A i \in 1 .. Len(events) : events'[i] = events[i]
  BY DEF Typed, LogGrows
<1>2. \A i : i \in DOMAIN events' <=> i \in DOMAIN events \/ i \in Len(events) + 1 .. Len(events')
  BY <1>1
<1>3. StateEvents' = StateEvents
  BY <1>1, <1>2 DEF StateEvents
<1>4. \A i \in StateEvents : events'[i] = events[i]
  BY <1>1 DEF StateEvents
<1> QED BY <1>3, <1>4 DEF RowIsLastState, LogIsLegal

\* A log that shows one more state, which the last one allows.
\* The code's table has the edges of the design and the one that it adds.
LEMMA EdgesAreLegal ==
  ASSUME NEW from \in States, NEW to, CanMove(from, to)
  PROVE  LegalEdge(from, to)
BY DEF CanMove, Transitions, LegalEdge, DesignEdges, CancelledAtStart, States, Starting,
       Running, RequiresAction, Terminal, Resumable

LEMMA OneNewState ==
  ASSUME Typed, RowIsLastState, LogIsLegal, NEW n \in Nat \ {0}, LogGrows(n),
         \A i \in Len(events) + 1 .. Len(events') - 1 :
           events'[i].type # "worker.state_changed",
         NewEvent.type = "worker.state_changed", row'.state = NewEvent.arg,
         CanMove(row.state, NewEvent.arg)
  PROVE  RowIsLastState' /\ LogIsLegal'
<1> DEFINE N == Len(events')
<1>1. /\ events \in Seq(EventRecord) /\ Len(events) \in Nat /\ DOMAIN events = 1 .. Len(events)
      /\ N = Len(events) + n /\ N \in Nat /\ DOMAIN events' = 1 .. N
      /\ \A i \in 1 .. Len(events) : events'[i] = events[i]
  BY DEF Typed, LogGrows
<1>2. \A i : i \in DOMAIN events' <=>
               i \in DOMAIN events \/ i \in Len(events) + 1 .. N - 1 \/ i = N
  BY <1>1
<1>3. N \notin DOMAIN events /\ \A i \in DOMAIN events : i < N /\ i \in Nat
  BY <1>1
<1>4. events'[N] = NewEvent
  BY DEF NewEvent
<1> HIDE DEF N
<1>5. StateEvents' = StateEvents \cup {N}
  BY <1>1, <1>2, <1>3, <1>4 DEF StateEvents, N
<1>6. /\ \A i \in StateEvents : events'[i] = events[i] /\ i < N /\ i \in Nat /\ i <= N
      /\ N \notin StateEvents /\ N <= N
  BY <1>1, <1>3 DEF StateEvents
<1>7. RowIsLastState'
  BY <1>4, <1>5, <1>6 DEF RowIsLastState
<1>8. row.state # Absent /\ LegalEdge(row.state, NewEvent.arg)
  <2>1. row.state # Absent
    BY Names DEF CanMove, Transitions, Absent, States, Starting, Running, RequiresAction,
       Terminal, Resumable
  <2>2. row.state \in States
    BY <2>1 DEF Typed, TypeOK, Row
  <2> QED BY <2>1, <2>2, EdgesAreLegal
<1>9. \/ /\ \A i \in StateEvents' : N <= i
         /\ LegalEdge(Starting, events'[N].arg)
      \/ \E i \in StateEvents' :
           /\ i < N /\ \A m \in StateEvents' : m <= i \/ N <= m
           /\ LegalEdge(events'[i].arg, events'[N].arg)
  <2>1. CASE StateEvents = {} /\ row.state = Starting
    BY <1>4, <1>5, <1>6, <1>8, <2>1
  <2>2. ASSUME NEW i \in StateEvents, \A m \in StateEvents : m <= i, row.state = events[i].arg
        PROVE  /\ i \in StateEvents' /\ i < N /\ \A m \in StateEvents' : m <= i \/ N <= m
               /\ LegalEdge(events'[i].arg, events'[N].arg)
    BY <1>4, <1>5, <1>6, <1>8, <2>2
  <2> QED BY <1>8, <2>1, <2>2 DEF RowIsLastState
<1>10. ASSUME NEW j \in StateEvents
       PROVE  \/ /\ \A i \in StateEvents' : j <= i
                 /\ LegalEdge(Starting, events'[j].arg)
              \/ \E i \in StateEvents' :
                   /\ i < j /\ \A m \in StateEvents' : m <= i \/ j <= m
                   /\ LegalEdge(events'[i].arg, events'[j].arg)
  <2>1. events'[j] = events[j] /\ j <= N
    BY <1>6
  <2>2. CASE (\A i \in StateEvents : j <= i) /\ LegalEdge(Starting, events[j].arg)
    BY <1>5, <2>1, <2>2
  <2>3. ASSUME NEW i \in StateEvents, i < j, \A m \in StateEvents : m <= i \/ j <= m,
               LegalEdge(events[i].arg, events[j].arg)
        PROVE  /\ i \in StateEvents' /\ \A m \in StateEvents' : m <= i \/ j <= m
               /\ LegalEdge(events'[i].arg, events'[j].arg)
    BY <1>5, <1>6, <2>1, <2>3
  <2> QED BY <2>2, <2>3 DEF LogIsLegal
<1>11. LogIsLegal'
  BY <1>5, <1>9, <1>10 DEF LogIsLegal
<1> QED BY <1>7, <1>11

\* What a new event adds to the row that the log describes.
LEMMA ReplayGrows ==
  ASSUME Typed, NEW n \in Nat \ {0}, LogGrows(n),
         \A i \in Len(events) + 1 .. Len(events') - 1 :
           events'[i].type \in {"approval.requested", "approval.resolved"}
  PROVE  Replay(events') = ReplayEvent(Replay(events), NewEvent)
<1>1. /\ events \in Seq(EventRecord) /\ events' \in Seq(EventRecord)
      /\ Len(events') = Len(events) + n /\ Len(events) \in Nat
      /\ \A i \in 1 .. Len(events) : events'[i] = events[i]
  BY DEF Typed, LogGrows
<1>2. Len(events) < Len(events')
  BY <1>1
<1>3. \A i \in Len(events) + 1 .. Len(events') - 1 : \A r : ReplayEvent(r, events'[i]) = r
  BY DEF ReplayEvent
<1> QED BY <1>1, <1>2, <1>3, ReplayContinues DEF NewEvent

\* A transaction that begins an attempt.
LEMMA BeginsKeeps ==
  ASSUME StoreInv, Begins
  PROVE  StoreInv'
<1> DEFINE a == row.attempt + 1
<1>0. /\ row \in Row /\ row.attempt \in Nat /\ a \in Nat /\ Len(attempts) = row.attempt
      /\ attempts \in Seq([state : States, stamps : Stamps]) /\ stamps \in Stamps
      /\ events \in Seq(EventRecord) /\ Len(events) \in Nat /\ Replay(events) \in Row
      /\ \A i \in DOMAIN events : events[i].attempt \in 1 .. row.attempt
      /\ (Exists <=> row.attempt > 0)
      /\ ~ Exists => row = NoRow /\ attempts = <<>> /\ events = <<>>
  BY DEF StoreInv, Typed, TypeOK, NothingBefore, Row
<1>1. /\ LogGrows(1) /\ a <= MaxAttempts /\ row' = FreshAttempt(a) /\ stamps' = NoStamps
      /\ warnings' = {} /\ attempts' = Append(attempts, NewAttempt)
  BY <1>0, StoreBounds DEF Begins
<1>2. /\ events' \in Seq(EventRecord) /\ Len(events') = Len(events) + 1 /\ Len(events') <= MaxEvents
      /\ \A i \in Len(events) + 1 .. Len(events') : events'[i] = NewEvent
      /\ \A i \in Len(events) + 1 .. Len(events') - 1 : FALSE
      /\ Len(events') \in Len(events) + 1 .. Len(events')
  BY <1>0, <1>1 DEF LogGrows, NewEvent
<1>3. /\ NewEvent.attempt = a
      /\ \/ ~ Exists /\ NewEvent = Event(1, "worker.created", 1) /\ a = 1
         \/ row.state \in Resumable /\ NewEvent = StateChanged(a, Starting)
  BY <1>0 DEF Begins, Event, StateChanged, NoRow
<1>4. /\ row' \in Row /\ row'.attempt = a /\ row'.state = Starting /\ row'.state # Absent
      /\ row'.session = FALSE
  BY <1>0, <1>1, Names DEF FreshAttempt, Row, NoResult, Health
<1>5. /\ NewAttempt \in [state : States, stamps : Stamps] /\ NoStamps \in Stamps
      /\ NewAttempt = [state |-> Starting, stamps |-> NoStamps]
  BY Names DEF NewAttempt, NoStamps, Stamps
<1>6. /\ attempts' \in Seq([state : States, stamps : Stamps]) /\ Len(attempts') = a
      /\ DOMAIN attempts' = 1 .. a
      /\ \A n \in 1 .. row.attempt : attempts'[n] = attempts[n]
      /\ attempts'[a] = NewAttempt
  BY <1>0, <1>1, <1>5
<1>7. Replay(events') = FreshAttempt(a)
  <2>1. Replay(events') = ReplayEvent(Replay(events), NewEvent)
    BY <1>1, <1>2, ReplayGrows DEF StoreInv
  <2> QED BY <1>0, <1>3, <2>1, Replayed
<1>8. /\ \A i \in DOMAIN events' : events'[i].attempt \in 1 .. row'.attempt
      /\ EventsInOrder'
  BY <1>0, <1>1, <1>2, <1>3, <1>4, LogStaysInOrder DEF StoreInv
<1>9. Typed'
  <2>1. TypeOK'
    BY <1>1, <1>2, <1>4, <1>5, <1>6, <1>8 DEF TypeOK
  <2>2. NothingBefore'
    BY <1>0, <1>4 DEF NothingBefore, Exists
  <2> QED BY <1>1, <1>2, <1>4, <1>7, <2>1, <2>2 DEF Typed
<1>10. StatusIsReplay'
  BY <1>1, <1>4, <1>7 DEF StatusIsReplay, FreshAttempt
<1>11. AttemptsAgree'
  <2> SUFFICES ASSUME NEW n \in 1 .. a
               PROVE  IF n = a THEN attempts'[n] = [state |-> Starting, stamps |-> NoStamps]
                      ELSE attempts'[n].state \in Resumable /\ attempts'[n].stamps.ended
    BY <1>1, <1>4, <1>6 DEF AttemptsAgree
  <2>1. CASE n = a
    BY <1>5, <1>6, <2>1
  <2>2. CASE n # a
    <3>1. n \in 1 .. row.attempt /\ n \in DOMAIN attempts /\ row.attempt > 0
      BY <1>0, <2>2
    <3>2. row.state \in Resumable /\ stamps.ended
      BY <1>0, <1>3, <3>1, Names DEF StoreInv, TablesAgree, StampsAreHistory
    <3>3. attempts[n].state \in Resumable /\ attempts[n].stamps.ended
      <4>1. CASE n = row.attempt
        BY <3>1, <3>2, <4>1 DEF StoreInv, TablesAgree, AttemptsAgree
      <4>2. CASE n # row.attempt
        BY <3>1, <4>2 DEF StoreInv, TablesAgree, AttemptsAgree
      <4> QED BY <4>1, <4>2
    <3> QED BY <1>6, <2>2, <3>1, <3>3
  <2> QED BY <2>1, <2>2
<1>12. ASSUME NEW type \in {"worker.state_changed", "worker.warning"}, NEW arg,
              type = "worker.state_changed" => arg # Starting
       PROVE  ~ Shows(events', a, type, arg)
  <2>1. ~ Shows(events, a, type, arg)
    BY <1>0 DEF Shows
  <2>2. NewEvent # [attempt |-> a, type |-> type, arg |-> arg]
    BY <1>3, <1>12 DEF Event, StateChanged
  <2>3. Shows(events', a, type, arg) =>
          \/ Shows(events, a, type, arg)
          \/ \E i \in Len(events) + 1 .. Len(events') :
               events'[i] = [attempt |-> a, type |-> type, arg |-> arg]
    BY <1>1, LoggedGrows DEF StoreInv
  <2> QED BY <1>2, <2>1, <2>2, <2>3
<1>13. StampsAreHistory'
  <2>1. ~ Shows(events', a, "worker.state_changed", Running)
    BY <1>12, Names
  <2>2. ~ Logged(row.attempt, "worker.state_changed", Running)'
    BY <1>4, <2>1 DEF Shows, Logged
  <2> QED BY <1>1, <1>4, <2>2, Names DEF StampsAreHistory, NoStamps
<1>14. WarningsAreKept'
  <2>1. \A c : ~ Shows(events', row'.attempt, "worker.warning", c)
    BY <1>4, <1>12
  <2> QED BY <2>1 DEF WarningsAreKept, Logged, Shows
<1>15. RowIsLastState' /\ LogIsLegal'
  <2>1. CASE ~ Exists /\ NewEvent = Event(1, "worker.created", 1)
    <3>1. events = <<>> /\ Len(events) = 0
      BY <1>0, <2>1
    <3>2. Len(events') = 1 /\ DOMAIN events' = 1 .. 1 /\ events'[1] = NewEvent
      BY <1>2, <3>1
    <3>3. StateEvents' = {}
      BY <2>1, <3>2 DEF StateEvents, Event
    <3> QED BY <1>4, <3>3 DEF RowIsLastState, LogIsLegal
  <2>2. CASE row.state \in Resumable /\ NewEvent = StateChanged(a, Starting)
    <3>1. CanMove(row.state, Starting)
      BY <2>2 DEF CanMove, Transitions, States, Terminal, Resumable, Starting, Running,
         RequiresAction, Absent
    <3>2. NewEvent.type = "worker.state_changed" /\ NewEvent.arg = Starting
      BY <2>2 DEF StateChanged, Event
    <3> QED BY <1>1, <1>2, <1>4, <3>1, <3>2, OneNewState DEF StoreInv
  <2> QED BY <1>3, <2>1, <2>2
<1> HIDE DEF a
<1> QED BY <1>8, <1>9, <1>10, <1>11, <1>13, <1>14, <1>15 DEF StoreInv, TablesAgree

\* A transaction that changes the state of the current attempt.
LEMMA MovesKeeps ==
  ASSUME StoreInv, NEW to \in States \ {Starting}, NEW n \in Nat \ {0}, Moves(to, n)
  PROVE  StoreInv'
<1> DEFINE a == row.attempt
<1>0. /\ row \in Row /\ a \in Nat /\ Len(attempts) = a /\ a > 0 /\ a <= MaxAttempts
      /\ attempts \in Seq([state : States, stamps : Stamps]) /\ stamps \in Stamps
      /\ DOMAIN attempts = 1 .. a /\ a \in DOMAIN attempts
      /\ events \in Seq(EventRecord) /\ Len(events) \in Nat /\ Replay(events) \in Row
      /\ warnings \subseteq Codes
  BY DEF StoreInv, Typed, TypeOK, NothingBefore, Row, Moves
<1>1. /\ Exists /\ LogGrows(n) /\ CanMove(row.state, to) /\ row' = Move(row, to)
      /\ stamps' = Stamped(stamps, to) /\ warnings' = warnings
      /\ attempts' = [m \in 1 .. a |->
                        IF m = a THEN [state |-> to, stamps |-> Stamped(attempts[m].stamps, to)]
                        ELSE attempts[m]]
  BY <1>0 DEF Moves, ProjectState, Permitted, Projected
<1>2. /\ NewEvent = StateChanged(a, to) /\ NewEvent.attempt = a
      /\ NewEvent.type = "worker.state_changed" /\ NewEvent.arg = to
      /\ NewEvent = events'[Len(events')]
  BY DEF Moves, NewEvent, StateChanged, Event
<1>3. /\ events' \in Seq(EventRecord) /\ Len(events') = Len(events) + n /\ Len(events') <= MaxEvents
      /\ Len(events') \in Len(events) + 1 .. Len(events')
      /\ \A i \in Len(events) + 1 .. Len(events') - 1 :
           /\ events'[i].attempt = a
           /\ events'[i].type \in {"approval.requested", "approval.resolved"}
      /\ \A i \in Len(events) + 1 .. Len(events') :
           i \in Len(events) + 1 .. Len(events') - 1 \/ i = Len(events')
  <2>1. /\ events' \in Seq(EventRecord) /\ Len(events') = Len(events) + n
        /\ Len(events') <= MaxEvents
    BY <1>1 DEF LogGrows
  <2>2. \A i \in Len(events) + 1 .. Len(events') - 1 :
          /\ events'[i].attempt = a
          /\ events'[i].type \in {"approval.requested", "approval.resolved"}
    BY DEF Moves
  <2>3. Len(events) \in Nat /\ n \in Nat \ {0}
    BY <1>0
  <2>4. /\ Len(events') \in Len(events) + 1 .. Len(events')
        /\ \A i \in Len(events) + 1 .. Len(events') :
             i \in Len(events) + 1 .. Len(events') - 1 \/ i = Len(events')
    BY <2>1, <2>3
  <2> QED BY <2>1, <2>2, <2>4
<1>4. /\ row' \in Row /\ row'.attempt = a /\ row'.state = to /\ row'.session = row.session
      /\ to # Absent
  BY <1>0, <1>1, Names DEF Move, Row
<1>5. /\ stamps' \in Stamps
      /\ stamps'.started <=> stamps.started \/ to = Running
      /\ stamps'.ended <=> stamps.ended \/ to \in Terminal
  BY <1>0, <1>1 DEF Stamped, Stamps
<1>6. attempts[a] = [state |-> row.state, stamps |-> stamps] /\ attempts[a].stamps = stamps
  BY <1>0 DEF StoreInv, TablesAgree, AttemptsAgree
<1>7. /\ DOMAIN attempts' = 1 .. a /\ attempts'[a] = [state |-> to, stamps |-> stamps']
      /\ \A m \in 1 .. a : m # a => attempts'[m] = attempts[m]
  BY <1>0, <1>1, <1>6
<1>8. attempts' \in Seq([state : States, stamps : Stamps]) /\ Len(attempts') = a
  <2>1. \A m \in 1 .. a : attempts'[m] \in [state : States, stamps : Stamps]
    <3>1. ASSUME NEW m \in 1 .. a PROVE attempts[m] \in [state : States, stamps : Stamps]
      <4>1. m \in 1 .. Len(attempts)
        BY <1>0
      <4> QED BY <1>0, <4>1, ElementOfSeq
    <3>2. [state |-> to, stamps |-> stamps'] \in [state : States, stamps : Stamps]
      BY <1>5
    <3> QED BY <1>7, <3>1, <3>2
  <2>2. attempts' = [m \in 1 .. a |-> attempts'[m]]
    BY <1>1
  <2>3. attempts' \in [1 .. a -> [state : States, stamps : Stamps]]
    BY <2>1, <2>2
  <2> QED BY <1>0, <2>3
<1>9. /\ \A i \in DOMAIN events' : events'[i].attempt \in 1 .. row'.attempt
      /\ EventsInOrder'
  <2>1. \A i \in Len(events) + 1 .. Len(events') : events'[i].attempt = row'.attempt
    BY <1>2, <1>3, <1>4
  <2> QED BY <1>0, <1>1, <1>4, <2>1, LogStaysInOrder DEF StoreInv
<1>10. /\ Replay(events') = Move(Replay(events), to)
       /\ Move(Replay(events), to) \in Row
  <2>1. Replay(events') = ReplayEvent(Replay(events), NewEvent)
    BY <1>1, <1>3, ReplayGrows DEF StoreInv
  <2>2. to # Starting
    OBVIOUS
  <2>3. ReplayEvent(Replay(events), StateChanged(a, to)) = Move(Replay(events), to)
    BY <1>0, <2>2, Replayed
  <2>4. Replay(events') = Move(Replay(events), to)
    BY <1>2, <2>1, <2>3
  <2> QED BY <1>0, <2>4 DEF Move, Row
<1>11. Typed'
  <2>1. TypeOK'
    BY <1>0, <1>1, <1>3, <1>4, <1>5, <1>8, <1>9 DEF TypeOK
  <2>2. NothingBefore'
    BY <1>0, <1>4 DEF NothingBefore, Exists
  <2> QED BY <1>3, <1>10, <2>1, <2>2 DEF Typed
<1>12. StatusIsReplay'
  <2>1. row = [Replay(events) EXCEPT !.session = row.session]
    BY DEF StoreInv, TablesAgree, StatusIsReplay
  <2>2. Move(row, to) = [Move(Replay(events), to) EXCEPT !.session = row.session]
    BY <1>0, <2>1 DEF Move, Row
  <2> QED BY <1>1, <1>4, <1>10, <2>2 DEF StatusIsReplay
<1>13. AttemptsAgree'
  <2> SUFFICES ASSUME NEW m \in 1 .. a
               PROVE  IF m = a THEN attempts'[m] = [state |-> to, stamps |-> stamps']
                      ELSE attempts'[m].state \in Resumable /\ attempts'[m].stamps.ended
    BY <1>4, <1>7 DEF AttemptsAgree
  <2> QED BY <1>0, <1>7 DEF StoreInv, TablesAgree, AttemptsAgree
<1>14. \A type, arg : type \notin {"approval.requested", "approval.resolved"} =>
         (Shows(events', a, type, arg) <=>
            Shows(events, a, type, arg) \/ (type = "worker.state_changed" /\ arg = to))
  <2> SUFFICES ASSUME NEW type, NEW arg, type \notin {"approval.requested", "approval.resolved"}
               PROVE  Shows(events', a, type, arg) <=>
                        Shows(events, a, type, arg) \/ (type = "worker.state_changed" /\ arg = to)
    OBVIOUS
  <2> DEFINE e == [attempt |-> a, type |-> type, arg |-> arg]
  <2>1. Shows(events', a, type, arg) <=>
          \/ Shows(events, a, type, arg)
          \/ \E i \in Len(events) + 1 .. Len(events') : events'[i] = e
    BY <1>1, LoggedGrows DEF StoreInv
  <2>2. \A i \in Len(events) + 1 .. Len(events') - 1 : events'[i] # e
    BY <1>3
  <2>3. events'[Len(events')] = e <=> type = "worker.state_changed" /\ arg = to
    BY <1>2 DEF StateChanged, Event
  <2> HIDE DEF e
  <2> QED BY <1>3, <2>1, <2>2, <2>3
<1>15. StampsAreHistory'
  <2>1. /\ stamps.started <=> Shows(events, a, "worker.state_changed", Running)
        /\ stamps.ended <=> row.state \in Terminal
    BY <1>1 DEF StoreInv, TablesAgree, StampsAreHistory, Logged, Shows
  <2>2. row.state \notin Terminal
    BY <1>1 DEF CanMove, Transitions, States, Terminal, Resumable, Starting, Running,
       RequiresAction, Absent
  <2>3. stamps'.started <=> Shows(events', a, "worker.state_changed", Running)
    BY <1>5, <1>14, <2>1
  <2>4. stamps'.ended <=> to \in Terminal
    BY <1>5, <2>1, <2>2
  <2> QED BY <1>4, <2>3, <2>4 DEF StampsAreHistory, Logged, Shows
<1>16. WarningsAreKept'
  <2>1. \A c : Shows(events', a, "worker.warning", c) => Shows(events, a, "worker.warning", c)
    BY <1>14
  <2>2. \A c \in Codes : Shows(events, a, "worker.warning", c) => c \in warnings
    BY DEF StoreInv, TablesAgree, WarningsAreKept, Logged, Shows
  <2>3. \A c \in Codes : Shows(events', row'.attempt, "worker.warning", c) => c \in warnings'
    BY <1>1, <1>4, <2>1, <2>2
  <2> QED BY <2>3 DEF WarningsAreKept, Logged, Shows
<1>17. RowIsLastState' /\ LogIsLegal'
  <2>1. \A i \in Len(events) + 1 .. Len(events') - 1 : events'[i].type # "worker.state_changed"
    BY <1>3
  <2> QED BY <1>1, <1>2, <1>4, <2>1, OneNewState DEF StoreInv
<1> HIDE DEF a
<1> QED BY <1>9, <1>11, <1>12, <1>13, <1>15, <1>16, <1>17 DEF StoreInv, TablesAgree

\* A transaction that adds to what is known of the current attempt.
LEMMA NotesKeeps ==
  ASSUME StoreInv, Notes
  PROVE  StoreInv'
<1> DEFINE a == row.attempt
<1>0. /\ row \in Row /\ a \in Nat /\ a > 0 /\ a <= MaxAttempts
      /\ events \in Seq(EventRecord) /\ Len(events) \in Nat /\ Replay(events) \in Row
  BY DEF StoreInv, Typed, TypeOK, NothingBefore, Row, Notes
<1>1. /\ Exists /\ LogGrows(1) /\ UNCHANGED <<stamps, attempts>>
      /\ row' \in Row /\ row'.attempt = a /\ row'.state = row.state
      /\ NewEvent.attempt = a
      /\ NewEvent.type \notin {"worker.created", "worker.state_changed"}
      /\ warnings \subseteq warnings' /\ warnings' \subseteq Codes
      /\ NewEvent.type = "worker.warning" => NewEvent.arg \in warnings'
  BY DEF Notes
<1>2. /\ events' \in Seq(EventRecord) /\ Len(events') = Len(events) + 1 /\ Len(events') <= MaxEvents
      /\ \A i \in Len(events) + 1 .. Len(events') : events'[i] = NewEvent
      /\ \A i \in Len(events) + 1 .. Len(events') - 1 : FALSE
  BY <1>0, <1>1 DEF LogGrows, NewEvent
<1>3. /\ \A i \in DOMAIN events' : events'[i].attempt \in 1 .. row'.attempt
      /\ EventsInOrder'
  BY <1>0, <1>1, <1>2, LogStaysInOrder DEF StoreInv
<1>4. /\ Replay(events') \in Row
      /\ row' = [Replay(events') EXCEPT !.session = row'.session]
  <2>1. Replay(events') = ReplayEvent(Replay(events), NewEvent)
    BY <1>1, <1>2, ReplayGrows DEF StoreInv
  <2>2. row = [Replay(events) EXCEPT !.session = row.session]
    BY DEF StoreInv, TablesAgree, StatusIsReplay
  <2> QED BY <1>0, <2>1, <2>2 DEF Notes
<1>5. Typed'
  <2>1. TypeOK'
    BY <1>0, <1>1, <1>2, <1>3 DEF TypeOK, StoreInv, Typed
  <2>2. NothingBefore'
    BY <1>0, <1>1 DEF NothingBefore, Exists
  <2> QED BY <1>2, <1>4, <2>1, <2>2 DEF Typed
<1>6. StatusIsReplay' /\ AttemptsAgree'
  BY <1>1, <1>4 DEF StatusIsReplay, AttemptsAgree, StoreInv, TablesAgree
<1>7. \A type, arg :
        Shows(events', a, type, arg) =>
          Shows(events, a, type, arg) \/ (NewEvent.type = type /\ NewEvent.arg = arg)
  <2> SUFFICES ASSUME NEW type, NEW arg, Shows(events', a, type, arg)
               PROVE  Shows(events, a, type, arg) \/ (NewEvent.type = type /\ NewEvent.arg = arg)
    OBVIOUS
  <2>1. \/ Shows(events, a, type, arg)
        \/ \E i \in Len(events) + 1 .. Len(events') :
             events'[i] = [attempt |-> a, type |-> type, arg |-> arg]
    BY <1>1, LoggedGrows DEF StoreInv
  <2> QED BY <1>2, <2>1
<1>8. \A type, arg : Shows(events, a, type, arg) => Shows(events', a, type, arg)
  <2>1. \A type, arg :
          Shows(events', a, type, arg) <=>
            \/ Shows(events, a, type, arg)
            \/ \E i \in Len(events) + 1 .. Len(events') :
                 events'[i] = [attempt |-> a, type |-> type, arg |-> arg]
    BY <1>1, LoggedGrows DEF StoreInv
  <2> QED BY <2>1
<1>9. StampsAreHistory'
  <2>1. Shows(events', a, "worker.state_changed", Running) <=>
          Shows(events, a, "worker.state_changed", Running)
    BY <1>1, <1>7, <1>8
  <2> QED BY <1>1, <2>1 DEF StoreInv, TablesAgree, StampsAreHistory, Logged, Shows, Exists
<1>10. WarningsAreKept'
  <2>1. \A c \in Codes : Shows(events, a, "worker.warning", c) => c \in warnings
    BY DEF StoreInv, TablesAgree, WarningsAreKept, Logged, Shows
  <2>2. \A c \in Codes : Shows(events', row'.attempt, "worker.warning", c) => c \in warnings'
    BY <1>1, <1>7, <2>1
  <2> QED BY <2>2 DEF WarningsAreKept, Logged, Shows
<1>11. RowIsLastState' /\ LogIsLegal'
  BY <1>1, <1>2, NoNewState DEF StoreInv
<1> HIDE DEF a
<1> QED BY <1>3, <1>5, <1>6, <1>9, <1>10, <1>11 DEF StoreInv, TablesAgree

-----------------------------------------------------------------------------
(***************************************************************************)
(* The theorems.                                                           *)
(***************************************************************************)
LEMMA InitStoreInv == Init => StoreInv
<1> SUFFICES ASSUME Init PROVE StoreInv
  OBVIOUS
<1>1. /\ row = NoRow /\ warnings = {} /\ stamps = NoStamps /\ attempts = <<>> /\ events = <<>>
      /\ Len(events) = 0 /\ DOMAIN events = {} /\ DOMAIN attempts = {}
      /\ attempts \in Seq([state : States, stamps : Stamps]) /\ Len(attempts) = 0
      /\ events \in Seq(EventRecord)
  BY DEF Init
<1>2. /\ NoRow \in Row /\ NoRow.attempt = 0 /\ NoRow.state = Absent /\ NoRow.session = FALSE
      /\ NoStamps \in Stamps /\ ~ NoStamps.started /\ ~ NoStamps.ended
  BY DEF NoRow, Row, NoResult, Health, NoStamps, Stamps
<1>3. TypeOK
  BY <1>1, <1>2, StoreBounds DEF TypeOK
<1>4. Typed
  BY <1>1, <1>2, <1>3, ReplayOfNothing DEF Typed, NothingBefore, Exists
<1>5. EventsInOrder /\ StateEvents = {}
  BY <1>1 DEF EventsInOrder, StateEvents
<1>6. RowIsLastState /\ LogIsLegal
  BY <1>1, <1>2, <1>5 DEF RowIsLastState, LogIsLegal
<1>7. StatusIsReplay
  BY <1>1, <1>2, ReplayOfNothing DEF StatusIsReplay, NoRow
<1>8. AttemptsAgree /\ StampsAreHistory /\ WarningsAreKept
  BY <1>1, <1>2 DEF AttemptsAgree, StampsAreHistory, WarningsAreKept, Logged, Exists
<1> QED BY <1>4, <1>5, <1>6, <1>7, <1>8 DEF StoreInv, TablesAgree

\* Every transaction, or none, keeps the invariant.
LEMMA NextStoreInv == StoreInv /\ [Next]_vars => StoreInv'
<1> SUFFICES ASSUME StoreInv, [Next]_vars PROVE StoreInv'
  OBVIOUS
<1>1. CASE Next
  <2>1. Shapes
    BY <1>1, StepsHaveShape DEF StoreInv
  <2> QED BY <2>1, BeginsKeeps, MovesKeeps, NotesKeeps DEF Shapes
<1>2. CASE UNCHANGED vars
  BY <1>2 DEF vars, StoreInv, Typed, TypeOK, NothingBefore, EventsInOrder, RowIsLastState,
     TablesAgree, StatusIsReplay, AttemptsAgree, StampsAreHistory, WarningsAreKept, LogIsLegal,
     StateEvents, Logged, Exists
<1> QED BY <1>1, <1>2

\* The store's invariant holds in every state.
THEOREM StoreInvariant == Spec => []StoreInv
BY InitStoreInv, NextStoreInv, PTL DEF Spec

\* The tables have their types, and no event is of an attempt that is not there.
THEOREM StoreTypes == Spec => []TypeOK
<1>1. StoreInv => TypeOK
  BY DEF StoreInv, Typed
<1> QED BY <1>1, StoreInvariant, PTL

\* The row, the records of the attempts, their stamps, the warnings and the log
\* agree, whatever transactions came in whatever order.
THEOREM TablesStayInAgreement == Spec => []TablesAgree
<1>1. StoreInv => TablesAgree
  BY DEF StoreInv
<1> QED BY <1>1, StoreInvariant, PTL

\* The states in the log form a path of the design's lifecycle, whose only
\* extra edge is the worker that is cancelled while it starts.
THEOREM LogStaysLegal == Spec => []LogIsLegal
<1>1. StoreInv => LogIsLegal
  BY DEF StoreInv
<1> QED BY <1>1, StoreInvariant, PTL

\* The log is only appended to, its attempts never go back, and what is recorded
\* of an earlier attempt stays as it is.
THEOREM HistoryIsKept == Spec => HistoryStays
<1>1. ASSUME StoreInv, Next
      PROVE  /\ IsPrefix(events, events')
             /\ \A i \in 1 .. Len(events') - 1 : events'[i].attempt <= events'[i + 1].attempt
             /\ \A n \in 1 .. row.attempt - 1 : attempts'[n] = attempts[n]
  <2>1. Shapes /\ StoreInv'
    BY <1>1, StepsHaveShape, NextStoreInv DEF StoreInv
  <2>2. /\ events \in Seq(EventRecord) /\ Len(events) \in Nat /\ row.attempt \in Nat
        /\ attempts \in Seq([state : States, stamps : Stamps]) /\ Len(attempts) = row.attempt
        /\ row.attempt < MaxAttempts => NewAttempt \in [state : States, stamps : Stamps]
    BY <1>1, Names DEF StoreInv, Typed, TypeOK, Row, NewAttempt, NoStamps, Stamps
  <2>3. PICK n \in Nat \ {0} : LogGrows(n)
    BY <2>1 DEF Shapes, Begins, Notes, Moves
  <2>4. IsPrefix(events, events')
    <3>1. /\ events' \in Seq(EventRecord) /\ Len(events') = Len(events) + n
          /\ Len(events) <= Len(events')
          /\ \A i \in 1 .. Len(events) : events'[i] = events[i]
      BY <2>2, <2>3 DEF LogGrows
    <3>2. /\ SubSeq(events, 1, Len(events)) = [i \in 1 .. Len(events) |-> events[i]]
          /\ SubSeq(events', 1, Len(events)) = [i \in 1 .. Len(events) |-> events'[i]]
      BY <2>2, <3>1
    <3> QED BY <3>1, <3>2 DEF IsPrefix
  <2>5. \A i \in 1 .. Len(events') - 1 : events'[i].attempt <= events'[i + 1].attempt
    BY <2>1 DEF StoreInv, EventsInOrder
  <2>6. ASSUME NEW m \in 1 .. row.attempt - 1 PROVE attempts'[m] = attempts[m]
    <3>0. m \in 1 .. row.attempt /\ m # row.attempt /\ m \in DOMAIN attempts
      BY <2>2
    <3>1. CASE Begins
      BY <2>2, <3>0, <3>1, AppendProperties DEF Begins
    <3>2. CASE Notes
      BY <3>2 DEF Notes
    <3>3. ASSUME NEW to, NEW k, Moves(to, k) PROVE attempts'[m] = attempts[m]
      BY <3>0, <3>3 DEF Moves, ProjectState, Projected
    <3> QED BY <2>1, <3>1, <3>2, <3>3 DEF Shapes
  <2> QED BY <2>4, <2>5, <2>6
<1>2. StoreInv /\ [Next]_vars =>
        [/\ IsPrefix(events, events')
         /\ \A i \in 1 .. Len(events') - 1 : events'[i].attempt <= events'[i + 1].attempt
         /\ \A n \in 1 .. row.attempt - 1 : attempts'[n] = attempts[n]]_vars
  BY <1>1
<1> QED BY <1>2, StoreInvariant, PTL DEF Spec, HistoryStays
=============================================================================
