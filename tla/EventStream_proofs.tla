------------------------- MODULE EventStream_proofs -------------------------
(***************************************************************************)
(* Proofs about EventStream: no event is missed and no wake-up lost, for   *)
(* any connections, any length of the log and both endings.                *)
(***************************************************************************)
EXTENDS EventStream, TLAPS

USE MaxEventsAssumption, ConnectionsAssumption

\* The handler has not ended its stream.
Streaming(k) == at[k] \in {"reading", "writing", "waiting"}

\* What was read of the log, and by whom.
CursorsAreInLog ==
  /\ \A k \in Connections :
       /\ cursor[k] <= Len(log) /\ upto[k] <= Len(log)
       /\ at[k] = "writing" => cursor[k] <= upto[k]
  /\ Len(seen) <= Len(log)

\* Before the frames that end a stream there are only events, without a gap
\* from what the client has to what the handler yielded.
WireIsNext ==
  IF link = NoConnection
  THEN wire = <<>>
  ELSE /\ at[link] # "none"
       /\ \A i \in DOMAIN wire :
            \/ wire[i].type = "event" /\ wire[i].n = Len(seen) + i
            \/ i = Len(wire) /\ ~ Streaming(link) /\ wire[i].type # "event"
       /\ Streaming(link) =>
            cursor[link] = Len(seen) + Len(wire)
       /\ ~ Streaming(link) =>
            /\ wire # <<>> /\ wire[Len(wire)].type # "event"
            /\ cursor[link] = Len(seen) + Len(wire) - 1

\* There is room for the end of an attempt that is not over.
RoomForTheEnd == Len(log) < MaxEvents \/ Over

\* Only who follows waits.
WaitersFollow == Waiting \subseteq follow

StreamInv ==
  /\ TypeOK /\ WaitersFollow /\ RoomForTheEnd /\ CursorsAreInLog /\ WireIsNext
  /\ NothingIsMissed /\ SleepersAreUpToDate /\ FollowEndsTheAttempt

LEMMA StreamInit == Init => StreamInv
BY DEF Init, StreamInv, TypeOK, CursorsAreInLog, WireIsNext, NothingIsMissed,
       SleepersAreUpToDate, FollowEndsTheAttempt, Waiting, Kinds, NoConnection,
       RoomForTheEnd, WaitersFollow, handlers, client, service

\* Facts about the log: its length, and that what was over after n events
\* stays so.
LEMMA LogGrows ==
  ASSUME log \in Seq(Kinds), NEW kind \in Kinds, log' = Append(log, kind)
  PROVE  /\ log' \in Seq(Kinds) /\ Len(log') = Len(log) + 1
         /\ \A n \in 0 .. Len(log) : OverAfter(n)' <=> OverAfter(n)
<1>1. log' \in Seq(Kinds) /\ Len(log') = Len(log) + 1
  OBVIOUS
<1>2. \A i \in 1 .. Len(log) : log'[i] = log[i]
  OBVIOUS
<1>3. ASSUME NEW n \in 0 .. Len(log)
      PROVE  OverAfter(n)' <=> OverAfter(n)
  BY <1>2 DEF OverAfter
<1> QED BY <1>1, <1>3

\* A step that only adds an event to the log and wakes every follower, or adds
\* the beginning of an attempt to a worker that is over.
LEMMA WriteKeeps ==
  ASSUME StreamInv, NEW kind \in Kinds, log' = Append(log, kind),
         \/ Len(log) + 1 < MaxEvents
         \/ kind = "terminal" /\ Len(log) < MaxEvents,
         \/ woken' = woken \cup Waiting
         \/ Over /\ woken' = woken,
         UNCHANGED <<owned, at, follow, cursor, upto, client, service>>
  PROVE  StreamInv'
<1> USE DEF StreamInv, client, service
<1>1. /\ log' \in Seq(Kinds) /\ Len(log') = Len(log) + 1
      /\ \A n \in 0 .. Len(log) : OverAfter(n)' <=> OverAfter(n)
  BY LogGrows DEF TypeOK
<1>2. TypeOK'
  BY <1>1 DEF TypeOK, Waiting
<1>3. CursorsAreInLog'
  BY <1>1 DEF CursorsAreInLog, TypeOK
<1>4. WireIsNext'
  BY DEF WireIsNext, Streaming
<1>5. NothingIsMissed'
  BY DEF NothingIsMissed
<1>6. SleepersAreUpToDate'
  BY DEF SleepersAreUpToDate, Waiting, TypeOK
<1>7. FollowEndsTheAttempt'
  <2> SUFFICES ASSUME link \in follow, NEW i \in DOMAIN wire, wire[i].type = "end"
               PROVE  wire[i].n = cursor[link] /\ OverAfter(wire[i].n)'
    BY DEF FollowEndsTheAttempt
  <2>1. wire[i].n = cursor[link] /\ OverAfter(wire[i].n)
    BY DEF FollowEndsTheAttempt
  <2>2. cursor[link] \in 0 .. Len(log)
    BY DEF CursorsAreInLog, TypeOK
  <2> QED BY <1>1, <2>1, <2>2
<1>8. WaitersFollow'
  BY DEF WaitersFollow, Waiting
<1>9. RoomForTheEnd'
  <2>1. CASE kind = "terminal"
    <3>1. /\ Len(log) \in Nat /\ log'[Len(log) + 1] = "terminal"
          /\ Len(log') = Len(log) + 1
      BY <2>1 DEF TypeOK
    <3>2. Over'
      BY <3>1 DEF Over, OverAfter
    <3> QED BY <3>2 DEF RoomForTheEnd
  <2>2. CASE Len(log) + 1 < MaxEvents
    BY <1>1, <2>2 DEF RoomForTheEnd
  <2> QED BY <2>1, <2>2
<1> QED BY <1>2, <1>3, <1>4, <1>5, <1>6, <1>7, <1>8, <1>9

LEMMA RecordKeeps == StreamInv /\ (Record \/ Finish \/ Resume) => StreamInv'
<1> SUFFICES ASSUME StreamInv, Record \/ Finish \/ Resume
             PROVE  StreamInv'
  OBVIOUS
<1>0. /\ Len(log) \in Nat /\ Len(log) <= MaxEvents
      /\ Len(log) < MaxEvents \/ Over
  BY DEF StreamInv, TypeOK, RoomForTheEnd
<1>1. CASE Record
  BY <1>0, <1>1, WriteKeeps DEF Record, Notified, Room, Kinds
<1>2. CASE Finish
  BY <1>0, <1>2, WriteKeeps DEF Finish, Notified, Kinds
<1>3. CASE Resume
  BY <1>0, <1>3, WriteKeeps DEF Resume, Room, Kinds, handlers
<1> QED BY <1>1, <1>2, <1>3

\* The frame that a handler writes, and what becomes of the wire and of what
\* the client is told.
LEMMA WriteFrame ==
  ASSUME StreamInv, NEW k \in Connections, Streaming(k), NEW frame, NEW next,
         frame \in Frames,
         next \in {"writing", "idle", "done"},
         frame.type = "event" <=> next = "writing",
         frame.type = "event" => frame.n = cursor[k] + 1 /\ cursor' = [cursor EXCEPT ![k] = frame.n],
         frame.type # "event" => cursor' = cursor,
         frame.type = "end" /\ k \in follow => frame.n = cursor[k] /\ OverAfter(frame.n),
         UNCHANGED <<log, follow, link, seen>>,
         Write(k, frame, next)
  PROVE  WireIsNext' /\ FollowEndsTheAttempt'
<1> USE DEF StreamInv
<1>0. /\ wire \in Seq(Frames)
      /\ at \in [Connections -> {"none", "reading", "writing", "waiting", "idle", "done"}]
      /\ cursor \in [Connections -> 0 .. MaxEvents]
      /\ link \in Connections \cup {NoConnection} /\ seen \in Seq(1 .. MaxEvents)
      /\ follow \subseteq Connections
  BY DEF TypeOK
<1>1. CASE link = k
  <2>1. wire' = Append(wire, frame) /\ at' = [at EXCEPT ![k] = next]
    BY <1>1 DEF Write
  <2>2. /\ Len(wire') = Len(wire) + 1 /\ wire'[Len(wire')] = frame
        /\ \A i \in 1 .. Len(wire) : wire'[i] = wire[i]
        /\ DOMAIN wire' = 1 .. Len(wire) + 1 /\ DOMAIN wire = 1 .. Len(wire)
    BY <1>0, <2>1
  <2>3. /\ cursor[k] = Len(seen) + Len(wire)
        /\ \A i \in 1 .. Len(wire) :
             wire[i].type = "event" /\ wire[i].n = Len(seen) + i
    BY <1>0, <1>1, <2>2 DEF WireIsNext
  <2>4. Streaming(k)' <=> frame.type = "event"
    BY <1>0, <2>1 DEF Streaming
  <2>5. WireIsNext'
    <3>1. CASE frame.type = "event"
      <4>1. /\ cursor'[k] = cursor[k] + 1 /\ frame.n = cursor[k] + 1
            /\ Len(seen) \in Nat /\ Len(wire) \in Nat
        BY <1>0, <3>1
      <4>2. \A i \in DOMAIN wire' :
               wire'[i].type = "event" /\ wire'[i].n = Len(seen) + i
        <5>1. frame.n = Len(seen) + Len(wire')
          BY <2>2, <2>3, <4>1
        <5>2. wire'[Len(wire')].type = "event" /\ wire'[Len(wire')].n = Len(seen) + Len(wire')
          BY <2>2, <3>1, <5>1
        <5>3. \A i \in DOMAIN wire' : i = Len(wire') \/ i \in 1 .. Len(wire)
          BY <2>2, <4>1
        <5>4. \A i \in 1 .. Len(wire) :
                 wire'[i].type = "event" /\ wire'[i].n = Len(seen) + i
          BY <2>2, <2>3
        <5> QED BY <5>2, <5>3, <5>4
      <4>3. cursor'[k] = Len(seen) + Len(wire')
        BY <2>2, <2>3, <4>1
      <4>4. at'[k] \in {"reading", "writing", "waiting"}
        BY <2>4, <3>1 DEF Streaming
      <4> QED BY <1>1, <4>2, <4>3, <4>4 DEF WireIsNext, Streaming
    <3>2. CASE frame.type # "event"
      <4>1. \A i \in DOMAIN wire' :
              \/ wire'[i].type = "event" /\ wire'[i].n = Len(seen) + i
              \/ i = Len(wire') /\ wire'[i].type # "event"
        <5>1. wire'[Len(wire')].type # "event"
          BY <2>2, <3>2
        <5>2. \A i \in DOMAIN wire' : i = Len(wire') \/ i \in 1 .. Len(wire)
          <6>1. Len(wire) \in Nat
            BY <1>0
          <6> QED BY <2>2, <6>1
        <5>3. \A i \in 1 .. Len(wire) :
                 wire'[i].type = "event" /\ wire'[i].n = Len(seen) + i
          BY <2>2, <2>3
        <5> QED BY <5>1, <5>2, <5>3
      <4>2. cursor'[k] = Len(seen) + Len(wire') - 1 /\ wire' # <<>>
        <5>1. Len(seen) \in Nat /\ Len(wire) \in Nat
          BY <1>0
        <5>2. cursor'[k] = Len(seen) + Len(wire') - 1
          BY <2>2, <2>3, <3>2, <5>1
        <5>3. Len(wire') # 0
          BY <2>2, <5>1
        <5> QED BY <5>2, <5>3
      <4>3. at'[k] \in {"idle", "done"}
        BY <1>0, <2>1, <3>2
      <4> QED BY <1>1, <2>2, <3>2, <4>1, <4>2, <4>3 DEF WireIsNext, Streaming
    <3> QED BY <3>1, <3>2
  <2>6. FollowEndsTheAttempt'
    <3>1. ASSUME k \in follow, NEW i \in DOMAIN wire', wire'[i].type = "end"
          PROVE  wire'[i].n = cursor'[k] /\ OverAfter(wire'[i].n)
      BY <2>2, <2>3, <3>1
    <3>2. \A n : OverAfter(n)' <=> OverAfter(n)
      BY DEF OverAfter
    <3> QED BY <1>1, <3>1, <3>2 DEF FollowEndsTheAttempt
  <2> QED BY <2>5, <2>6
<1>2. CASE link # k
  <2>1. wire' = wire /\ at' = [at EXCEPT ![k] = "done"]
    BY <1>2 DEF Write
  <2>2. link # NoConnection => at'[link] = at[link] /\ cursor'[link] = cursor[link]
    BY <1>0, <1>2, <2>1
  <2>3. WireIsNext'
    BY <1>0, <2>1, <2>2 DEF WireIsNext, Streaming
  <2>4. FollowEndsTheAttempt'
    BY <1>0, <2>1, <2>2 DEF FollowEndsTheAttempt, OverAfter
  <2> QED BY <2>3, <2>4
<1> QED BY <1>1, <1>2

\* A handler that goes on has read up to its cursor.
LEMMA ResumedStreams ==
  ASSUME NEW k, Resumed(k) PROVE Streaming(k)
BY DEF Resumed, Streaming

\* What a handler's step leaves of the rest.
LEMMA HandlerKeeps ==
  ASSUME StreamInv, NEW k \in Connections,
         NEW place \in {"reading", "writing", "waiting", "idle", "done"},
         NEW c \in 0 .. Len(log), NEW u \in 0 .. Len(log),
         at' = [at EXCEPT ![k] = place],
         cursor' = [cursor EXCEPT ![k] = c], upto' = [upto EXCEPT ![k] = u],
         woken' = woken \ {k},
         place = "writing" => c <= u,
         place = "waiting" => c = Len(log) /\ ~ Over /\ closeAt # "closed" /\ k \in follow,
         wire' \in Seq(Frames),
         HandlerFrame
  PROVE  TypeOK' /\ WaitersFollow' /\ RoomForTheEnd' /\ CursorsAreInLog' /\ NothingIsMissed'
         /\ SleepersAreUpToDate'
<1> USE DEF StreamInv, HandlerFrame
<1>1. /\ Len(log) \in Nat /\ Len(log) <= MaxEvents
      /\ 0 .. Len(log) \subseteq 0 .. MaxEvents
  BY DEF TypeOK
<1>2. TypeOK'
  BY <1>1 DEF TypeOK, Waiting, service
<1>3. RoomForTheEnd'
  BY DEF RoomForTheEnd, Over, OverAfter
<1>4. CursorsAreInLog'
  BY <1>1 DEF CursorsAreInLog, TypeOK
<1>5. NothingIsMissed'
  BY DEF NothingIsMissed
<1>6. SleepersAreUpToDate'
  BY DEF SleepersAreUpToDate, Waiting, Over, OverAfter, service, TypeOK
<1>7. WaitersFollow'
  BY DEF WaitersFollow, Waiting, TypeOK
<1> QED BY <1>2, <1>3, <1>4, <1>5, <1>6, <1>7

\* A handler's step that writes a frame, or finds that its client is gone.
LEMMA WriteStep ==
  ASSUME StreamInv, NEW k \in Connections, Streaming(k), NEW frame, NEW next,
         frame \in Frames,
         next \in {"writing", "idle", "done"},
         frame.type = "event" <=> next = "writing",
         NEW c \in 0 .. Len(log), NEW u \in 0 .. Len(log),
         cursor' = [cursor EXCEPT ![k] = c], upto' = [upto EXCEPT ![k] = u],
         woken' = woken \ {k},
         next = "writing" => frame.n = cursor[k] + 1 /\ c = frame.n /\ c <= u,
         next # "writing" => c = cursor[k],
         frame.type = "end" /\ k \in follow => frame.n = cursor[k] /\ OverAfter(frame.n),
         Write(k, frame, next), HandlerFrame
  PROVE  StreamInv'
<1>1. cursor \in [Connections -> 0 .. MaxEvents]
  BY DEF StreamInv, TypeOK
<1>2. next # "writing" => cursor' = cursor
  BY <1>1
<1>3. WireIsNext' /\ FollowEndsTheAttempt'
  <2>1. /\ frame.type = "event" =>
             frame.n = cursor[k] + 1 /\ cursor' = [cursor EXCEPT ![k] = frame.n]
        /\ frame.type # "event" => cursor' = cursor
    BY <1>2
  <2>2. UNCHANGED <<log, follow, link, seen>>
    BY DEF HandlerFrame
  <2> QED BY <2>1, <2>2, WriteFrame
<1>4. wire' \in Seq(Frames)
  <2>1. wire \in Seq(Frames)
    BY DEF StreamInv, TypeOK
  <2>2. wire' = wire \/ wire' = Append(wire, frame)
    BY DEF Write
  <2> QED BY <2>1, <2>2
<1>5. \/ at' = [at EXCEPT ![k] = next]
      \/ at' = [at EXCEPT ![k] = "done"]
  BY DEF Write
<1>6. TypeOK' /\ WaitersFollow' /\ RoomForTheEnd' /\ CursorsAreInLog' /\ NothingIsMissed'
      /\ SleepersAreUpToDate'
  <2>1. CASE at' = [at EXCEPT ![k] = next]
    BY <1>4, <2>1, HandlerKeeps
  <2>2. CASE at' = [at EXCEPT ![k] = "done"]
    BY <1>4, <2>2, HandlerKeeps
  <2> QED BY <1>5, <2>1, <2>2
<1> QED BY <1>3, <1>6 DEF StreamInv

\* What each step of a handler starts from.
LEMMA HandlerFacts ==
  ASSUME StreamInv, NEW k \in Connections
  PROVE  /\ Len(log) \in Nat /\ Len(log) <= MaxEvents /\ DOMAIN log = 1 .. Len(log)
         /\ 0 .. Len(log) \subseteq 0 .. MaxEvents
         /\ cursor[k] \in 0 .. Len(log) /\ upto[k] \in 0 .. Len(log)
         /\ cursor = [cursor EXCEPT ![k] = cursor[k]]
         /\ upto = [upto EXCEPT ![k] = upto[k]]
         /\ k \notin Waiting => woken = woken \ {k}
         /\ Unread(k) = {} => cursor[k] = Len(log)
<1>1. /\ Len(log) \in Nat /\ Len(log) <= MaxEvents /\ DOMAIN log = 1 .. Len(log)
      /\ cursor \in [Connections -> 0 .. MaxEvents] /\ cursor[k] <= Len(log)
      /\ upto \in [Connections -> 0 .. MaxEvents] /\ upto[k] <= Len(log)
      /\ woken \subseteq Waiting
  BY DEF StreamInv, TypeOK, CursorsAreInLog
<1>2. ASSUME Unread(k) = {} PROVE cursor[k] = Len(log)
  <2>1. ~ Len(log) > cursor[k]
    BY <1>1, <1>2 DEF Unread
  <2> QED BY <1>1, <2>1
<1> QED BY <1>1, <1>2

LEMMA ReadBatchKeeps ==
  ASSUME StreamInv, NEW k \in Connections, ReadBatch(k) PROVE StreamInv'
<1>1. PICK n \in Unread(k) :
        /\ \A m \in Unread(k) : n <= m
        /\ cursor' = [cursor EXCEPT ![k] = n]
        /\ Write(k, Event(n), "writing")
  BY DEF ReadBatch
<1>2. n = cursor[k] + 1 /\ n \in 0 .. Len(log)
  <2>1. n \in 1 .. Len(log) /\ n > cursor[k]
    BY HandlerFacts DEF Unread
  <2>2. cursor[k] + 1 \in Unread(k)
    BY <2>1, HandlerFacts DEF Unread
  <2> QED BY <1>1, <2>1, <2>2, HandlerFacts
<1>3. /\ Resumed(k) /\ upto' = [upto EXCEPT ![k] = Len(log)] /\ woken' = woken \ {k}
      /\ HandlerFrame
  BY DEF ReadBatch
<1>4. /\ Event(n) \in Frames
      /\ Event(n).type = "event" /\ Event(n).n = n
      /\ Len(log) \in 0 .. Len(log) /\ n <= Len(log)
  BY <1>2, HandlerFacts DEF Event, Frames
<1> QED BY <1>1, <1>2, <1>3, <1>4, ResumedStreams, WriteStep

LEMMA WriteNextKeeps ==
  ASSUME StreamInv, NEW k \in Connections, WriteNext(k) PROVE StreamInv'
<1> DEFINE n == cursor[k] + 1
<1>1. /\ at[k] = "writing" /\ cursor[k] < upto[k]
      /\ cursor' = [cursor EXCEPT ![k] = n]
      /\ Write(k, Event(n), "writing")
      /\ UNCHANGED <<upto, woken>> /\ HandlerFrame
  BY DEF WriteNext
<1>2. n \in 0 .. Len(log) /\ n <= upto[k] /\ upto[k] \in 0 .. Len(log)
  BY <1>1, HandlerFacts
<1>3. /\ Event(n) \in Frames
      /\ Event(n).type = "event" /\ Event(n).n = n
  BY <1>2, HandlerFacts DEF Event, Frames
<1>4. upto' = [upto EXCEPT ![k] = upto[k]] /\ woken' = woken \ {k}
  BY <1>1, HandlerFacts DEF Waiting
<1>5. Streaming(k)
  BY <1>1 DEF Streaming
<1> HIDE DEF n
<1> QED BY <1>1, <1>2, <1>3, <1>4, <1>5, WriteStep DEF n

LEMMA EndReplayKeeps ==
  ASSUME StreamInv, NEW k \in Connections, EndReplay(k) PROVE StreamInv'
<1>1. /\ k \notin follow /\ Resumed(k)
      /\ Write(k, End(Len(log)), "done")
      /\ UNCHANGED <<cursor, upto, woken>> /\ HandlerFrame
  BY DEF EndReplay
<1>2. /\ End(Len(log)) \in Frames
      /\ End(Len(log)).type = "end"
  BY HandlerFacts DEF End, Frames
<1>3. woken' = woken \ {k}
  <2>1. k \notin Waiting
    BY <1>1 DEF StreamInv, WaitersFollow
  <2> QED BY <1>1, <2>1, HandlerFacts
<1>4. /\ cursor[k] \in 0 .. Len(log) /\ upto[k] \in 0 .. Len(log)
      /\ cursor' = [cursor EXCEPT ![k] = cursor[k]]
      /\ upto' = [upto EXCEPT ![k] = upto[k]]
  BY <1>1, HandlerFacts
<1> QED BY <1>1, <1>2, <1>3, <1>4, ResumedStreams, WriteStep

LEMMA EndFollowKeeps ==
  ASSUME StreamInv, NEW k \in Connections, EndFollow(k) PROVE StreamInv'
<1>1. /\ Resumed(k) /\ Unread(k) = {} /\ woken' = woken \ {k}
      /\ UNCHANGED <<cursor, upto>> /\ HandlerFrame
  BY DEF EndFollow, MayEnd
<1>2. /\ cursor[k] \in 0 .. Len(log) /\ upto[k] \in 0 .. Len(log)
      /\ cursor' = [cursor EXCEPT ![k] = cursor[k]]
      /\ upto' = [upto EXCEPT ![k] = upto[k]]
      /\ cursor[k] = Len(log)
  BY <1>1, HandlerFacts
<1>3. CASE Over /\ Write(k, End(Len(log)), "done")
  <2>1. /\ End(Len(log)) \in Frames
        /\ End(Len(log)).type = "end" /\ End(Len(log)).n = Len(log)
    BY HandlerFacts DEF End, Frames
  <2> QED BY <1>1, <1>2, <1>3, <2>1, ResumedStreams, WriteStep DEF Over
<1>4. CASE Write(k, Error, "idle")
  <2>1. /\ Error \in Frames
        /\ Error.type = "error"
    BY DEF Error, Frames
  <2> QED BY <1>1, <1>2, <1>4, <2>1, ResumedStreams, WriteStep
<1> QED BY <1>3, <1>4 DEF EndFollow

\* A step of handler k that writes nothing.
LEMMA WaitKeeps ==
  ASSUME StreamInv, NEW k \in Connections, Wait(k) PROVE StreamInv'
<1>1. /\ Resumed(k) /\ Unread(k) = {} /\ ~ MayEnd(k) /\ k \in follow
      /\ at' = [at EXCEPT ![k] = "waiting"] /\ woken' = woken \ {k}
      /\ UNCHANGED <<cursor, upto, wire>> /\ HandlerFrame
  BY DEF Wait
<1>2. /\ cursor[k] \in 0 .. Len(log) /\ upto[k] \in 0 .. Len(log)
      /\ cursor' = [cursor EXCEPT ![k] = cursor[k]]
      /\ upto' = [upto EXCEPT ![k] = upto[k]]
      /\ cursor[k] = Len(log) /\ ~ Over /\ closeAt # "closed"
  BY <1>1, HandlerFacts DEF MayEnd
<1>3. wire' \in Seq(Frames)
  BY <1>1 DEF StreamInv, TypeOK
<1>4. TypeOK' /\ WaitersFollow' /\ RoomForTheEnd' /\ CursorsAreInLog' /\ NothingIsMissed'
      /\ SleepersAreUpToDate'
  BY <1>1, <1>2, <1>3, HandlerKeeps
<1>5. \A j : Streaming(j)' <=> Streaming(j)
  BY <1>1, ResumedStreams DEF Streaming, StreamInv, TypeOK
<1>6. link # NoConnection => at'[link] # "none" \/ at[link] = "none"
  BY <1>1 DEF StreamInv, TypeOK
<1>7. WireIsNext'
  BY <1>1, <1>5, <1>6 DEF StreamInv, WireIsNext, HandlerFrame
<1>8. FollowEndsTheAttempt'
  BY <1>1 DEF StreamInv, FollowEndsTheAttempt, OverAfter, HandlerFrame
<1> QED BY <1>4, <1>7, <1>8 DEF StreamInv

LEMMA HangUpKeeps ==
  ASSUME StreamInv, NEW k \in Connections, HangUp(k) PROVE StreamInv'
<1>1. /\ at[k] = "idle" /\ link # k
      /\ at' = [at EXCEPT ![k] = "done"]
      /\ UNCHANGED <<cursor, upto, woken, wire>> /\ HandlerFrame
  BY DEF HangUp
<1>2. /\ cursor[k] \in 0 .. Len(log) /\ upto[k] \in 0 .. Len(log)
      /\ cursor' = [cursor EXCEPT ![k] = cursor[k]]
      /\ upto' = [upto EXCEPT ![k] = upto[k]] /\ woken' = woken \ {k}
  BY <1>1, HandlerFacts DEF Waiting
<1>3. wire' \in Seq(Frames)
  BY <1>1 DEF StreamInv, TypeOK
<1>4. TypeOK' /\ WaitersFollow' /\ RoomForTheEnd' /\ CursorsAreInLog' /\ NothingIsMissed'
      /\ SleepersAreUpToDate'
  BY <1>1, <1>2, <1>3, HandlerKeeps
<1>5. WireIsNext'
  BY <1>1 DEF StreamInv, TypeOK, WireIsNext, HandlerFrame, Streaming
<1>6. FollowEndsTheAttempt'
  BY <1>1 DEF StreamInv, FollowEndsTheAttempt, OverAfter, HandlerFrame
<1> QED BY <1>4, <1>5, <1>6 DEF StreamInv

(***************************************************************************)
(* The client and the service.                                             *)
(***************************************************************************)

\* Steps that leave the log, the handlers' places and what is being closed.
LEMMA SleepersStay ==
  ASSUME StreamInv, UNCHANGED <<log, cursor, woken, closeAt>>,
         Waiting' = Waiting
  PROVE  SleepersAreUpToDate' /\ RoomForTheEnd'
BY DEF StreamInv, SleepersAreUpToDate, RoomForTheEnd, Over, OverAfter

LEMMA OpenKeeps ==
  ASSUME StreamInv, NEW k \in Connections, NEW following \in BOOLEAN,
         Open(k, following)
  PROVE  StreamInv'
<1>1. /\ link = NoConnection /\ at[k] = "none" /\ link' = k /\ wire = <<>>
      /\ at' = [at EXCEPT ![k] = "reading"]
      /\ cursor' = [cursor EXCEPT ![k] = Since]
      /\ follow' = IF following THEN follow \cup {k} ELSE follow
      /\ UNCHANGED <<owned, log, upto, woken, wire, seen, service>>
  BY DEF Open, StreamInv, WireIsNext
<1>2. Since = Len(seen) /\ Since \in 0 .. Len(log) /\ Since \in 0 .. MaxEvents
  <2>1. /\ seen \in Seq(1 .. MaxEvents) /\ Len(seen) <= Len(log)
        /\ seen = [i \in DOMAIN seen |-> i]
        /\ Len(log) \in Nat /\ Len(log) <= MaxEvents
    BY DEF StreamInv, TypeOK, CursorsAreInLog, NothingIsMissed
  <2>2. CASE seen = <<>>
    BY <2>1, <2>2 DEF Since
  <2>3. CASE seen # <<>>
    <3>1. Len(seen) \in DOMAIN seen /\ Len(seen) \in Nat
      BY <2>1, <2>3
    <3>2. seen[Len(seen)] = Len(seen)
      BY <2>1, <3>1
    <3>3. Since = Len(seen)
      BY <2>3, <3>2 DEF Since, Last
    <3> QED BY <2>1, <3>1, <3>3
  <2> QED BY <2>2, <2>3
<1>3. Waiting' = Waiting
  BY <1>1 DEF Waiting, StreamInv, TypeOK
<1>4. TypeOK'
  BY <1>1, <1>2, <1>3 DEF StreamInv, TypeOK, service
<1>5. CursorsAreInLog'
  BY <1>1, <1>2 DEF StreamInv, TypeOK, CursorsAreInLog
<1>6. WireIsNext'
  BY <1>1, <1>2 DEF StreamInv, TypeOK, WireIsNext, Streaming
<1>7. SleepersAreUpToDate'
  BY <1>1, <1>3 DEF StreamInv, TypeOK, SleepersAreUpToDate, Waiting, Over, OverAfter, service
<1>8. /\ NothingIsMissed' /\ WaitersFollow' /\ RoomForTheEnd' /\ FollowEndsTheAttempt'
  BY <1>1, <1>3 DEF StreamInv, NothingIsMissed, WaitersFollow, RoomForTheEnd,
                    FollowEndsTheAttempt, Over, OverAfter
<1> QED BY <1>4, <1>5, <1>6, <1>7, <1>8 DEF StreamInv

\* The client leaves, with or without an end of the stream.
LEMMA LeavingKeeps ==
  ASSUME StreamInv, link' = NoConnection, wire' = <<>>,
         UNCHANGED <<owned, log, handlers, seen, service>>
  PROVE  StreamInv'
<1> USE DEF StreamInv, handlers, service
<1>1. Waiting' = Waiting
  BY DEF Waiting
<1>2. TypeOK'
  BY <1>1 DEF TypeOK
<1>3. CursorsAreInLog' /\ NothingIsMissed' /\ WaitersFollow'
  BY <1>1 DEF CursorsAreInLog, NothingIsMissed, WaitersFollow
<1>4. WireIsNext' /\ FollowEndsTheAttempt'
  BY DEF WireIsNext, FollowEndsTheAttempt
<1> QED BY <1>1, <1>2, <1>3, <1>4, SleepersStay

LEMMA ReceiveKeeps == ASSUME StreamInv, Receive PROVE StreamInv'
<1>1. CASE Head(wire).type # "event"
  BY <1>1, LeavingKeeps DEF Receive, handlers
<1>2. CASE Head(wire).type = "event"
  <2>1. /\ seen' = Append(seen, Head(wire).n) /\ wire' = Tail(wire) /\ wire # <<>>
        /\ UNCHANGED <<link, owned, log, at, follow, cursor, upto, woken, service>>
    BY <1>2 DEF Receive, handlers
  <2>2. /\ wire \in Seq(Frames) /\ seen \in Seq(1 .. MaxEvents)
        /\ cursor \in [Connections -> 0 .. MaxEvents]
        /\ Len(log) \in Nat /\ Len(log) <= MaxEvents
        /\ link \in Connections \cup {NoConnection}
    BY DEF StreamInv, TypeOK
  <2>3. link \in Connections
    BY <2>1, <2>2 DEF StreamInv, WireIsNext
  <2>4. /\ Len(wire) \in Nat \ {0} /\ Head(wire) = wire[1] /\ DOMAIN wire = 1 .. Len(wire)
        /\ Len(wire') = Len(wire) - 1 /\ DOMAIN wire' = 1 .. Len(wire) - 1
        /\ \A i \in DOMAIN wire' : wire'[i] = wire[i + 1]
        /\ Len(seen) \in Nat /\ wire' \in Seq(Frames)
    BY <2>1, <2>2
  <2>5. Head(wire).n = Len(seen) + 1
    BY <1>2, <2>3, <2>4 DEF StreamInv, WireIsNext
  <2>6. Len(seen) + 1 <= cursor[link] /\ cursor[link] <= Len(log)
    <3>1. ~ Streaming(link) => Len(wire) # 1
      BY <1>2, <2>3, <2>4 DEF StreamInv, WireIsNext
    <3>2. cursor[link] \in Nat
      BY <2>2, <2>3
    <3> QED BY <2>3, <2>4, <3>1, <3>2 DEF StreamInv, WireIsNext, CursorsAreInLog
  <2>7. /\ Len(seen') = Len(seen) + 1 /\ seen'[Len(seen) + 1] = Len(seen) + 1
        /\ \A i \in 1 .. Len(seen) : seen'[i] = seen[i]
        /\ DOMAIN seen' = 1 .. Len(seen) + 1 /\ DOMAIN seen = 1 .. Len(seen)
        /\ seen' \in Seq(1 .. MaxEvents)
    <3>1. Len(seen) + 1 \in 1 .. MaxEvents
      BY <2>2, <2>3, <2>4, <2>6
    <3> QED BY <2>1, <2>2, <2>4, <2>5, <3>1
  <2>8. Waiting' = Waiting
    BY <2>1 DEF Waiting
  <2>9. TypeOK'
    BY <2>1, <2>4, <2>7, <2>8 DEF StreamInv, TypeOK, service
  <2>10. CursorsAreInLog'
    BY <2>1, <2>2, <2>3, <2>6, <2>7 DEF StreamInv, CursorsAreInLog
  <2>11. NothingIsMissed'
    <3>1. \A i \in 1 .. Len(seen) : seen[i] = i
      BY <2>7 DEF StreamInv, NothingIsMissed
    <3>2. \A i \in DOMAIN seen' : seen'[i] = i
      BY <2>4, <2>7, <3>1
    <3>3. seen' = [i \in DOMAIN seen' |-> seen'[i]]
      BY <2>7
    <3> QED BY <3>2, <3>3 DEF NothingIsMissed
  <2>12. WireIsNext'
    <3>1. \A i \in DOMAIN wire' :
            \/ wire'[i].type = "event" /\ wire'[i].n = Len(seen') + i
            \/ i = Len(wire') /\ ~ Streaming(link) /\ wire'[i].type # "event"
      <4>1. ASSUME NEW i \in DOMAIN wire'
            PROVE  \/ wire[i + 1].type = "event" /\ wire[i + 1].n = Len(seen) + (i + 1)
                   \/ i + 1 = Len(wire) /\ ~ Streaming(link) /\ wire[i + 1].type # "event"
        BY <2>3, <2>4 DEF StreamInv, WireIsNext
      <4>2. \A i \in DOMAIN wire' :
              /\ Len(seen) + (i + 1) = Len(seen') + i
              /\ i + 1 = Len(wire) => i = Len(wire')
              /\ wire'[i] = wire[i + 1]
        <5>1. Len(seen) \in Nat /\ Len(seen') = Len(seen) + 1
          BY <2>4, <2>7
        <5>2. Len(wire) \in Nat /\ Len(wire') = Len(wire) - 1
          BY <2>4
        <5>3. DOMAIN wire' \subseteq Nat
          BY <2>4
        <5>4. \A i \in DOMAIN wire' : Len(seen) + (i + 1) = Len(seen') + i
          BY <5>1, <5>3
        <5>5. \A i \in DOMAIN wire' : i + 1 = Len(wire) => i = Len(wire')
          BY <5>2, <5>3
        <5>6. \A i \in DOMAIN wire' : wire'[i] = wire[i + 1]
          BY <2>4
        <5> QED BY <5>4, <5>5, <5>6
      <4> QED BY <4>1, <4>2
    <3>2. Streaming(link) => cursor[link] = Len(seen') + Len(wire')
      BY <2>2, <2>3, <2>4, <2>7 DEF StreamInv, WireIsNext
    <3>3. ~ Streaming(link) =>
            /\ wire' # <<>> /\ wire'[Len(wire')].type # "event"
            /\ cursor[link] = Len(seen') + Len(wire') - 1
      <4> SUFFICES ASSUME ~ Streaming(link)
                   PROVE  /\ wire' # <<>> /\ wire'[Len(wire')].type # "event"
                          /\ cursor[link] = Len(seen') + Len(wire') - 1
        OBVIOUS
      <4>1. wire[Len(wire)].type # "event" /\ cursor[link] = Len(seen) + Len(wire) - 1
        BY <2>3 DEF StreamInv, WireIsNext
      <4>2. Len(wire) # 1
        BY <1>2, <2>4, <4>1
      <4>3. Len(wire') \in DOMAIN wire' /\ Len(wire') + 1 = Len(wire)
        BY <2>4, <4>2
      <4>4. wire'[Len(wire')] = wire[Len(wire)]
        BY <2>4, <4>3
      <4>5. cursor[link] = Len(seen') + Len(wire') - 1
        BY <2>4, <2>7, <4>1
      <4>6. wire' # <<>>
        BY <4>3
      <4> QED BY <4>1, <4>4, <4>5, <4>6
    <3>4. at[link] # "none"
      BY <2>3 DEF StreamInv, WireIsNext
    <3> QED BY <2>1, <2>3, <3>1, <3>2, <3>3, <3>4 DEF WireIsNext, Streaming
  <2>13. FollowEndsTheAttempt'
    <3>1. \A n : OverAfter(n)' <=> OverAfter(n)
      BY <2>1 DEF OverAfter
    <3>2. \A i \in DOMAIN wire' : i + 1 \in DOMAIN wire
      BY <2>4
    <3> QED BY <2>1, <2>4, <3>1, <3>2 DEF StreamInv, FollowEndsTheAttempt
  <2>14. SleepersAreUpToDate' /\ RoomForTheEnd' /\ WaitersFollow'
    BY <2>1, <2>8, SleepersStay DEF service, StreamInv, WaitersFollow
  <2> QED BY <2>9, <2>10, <2>11, <2>12, <2>13, <2>14 DEF StreamInv
<1> QED BY <1>1, <1>2

LEMMA ServiceKeeps ==
  ASSUME StreamInv, Signal \/ CloseBegin \/ CloseEnd PROVE StreamInv'
<1> USE DEF StreamInv, client, handlers
<1>1. /\ UNCHANGED <<owned, log, at, follow, cursor, upto, link, wire, seen>>
      /\ listening' \in BOOLEAN /\ closeAt' \in {"open", "closing", "closed"}
      /\ \/ woken' = woken /\ (closeAt' = closeAt \/ closeAt' = "closing")
         \/ woken' = woken \cup Waiting
  BY DEF Signal, CloseBegin, CloseEnd, CloseNotified, TypeOK
<1>2. TypeOK'
  BY <1>1 DEF TypeOK, Waiting
<1>3. /\ WaitersFollow' /\ RoomForTheEnd' /\ CursorsAreInLog' /\ NothingIsMissed'
      /\ FollowEndsTheAttempt'
  BY <1>1 DEF WaitersFollow, Waiting, RoomForTheEnd, Over, OverAfter, CursorsAreInLog,
              NothingIsMissed, FollowEndsTheAttempt
<1>4. WireIsNext'
  BY <1>1 DEF WireIsNext, Streaming
<1>5. SleepersAreUpToDate'
  BY <1>1 DEF SleepersAreUpToDate, Waiting, Over, OverAfter
<1> QED BY <1>2, <1>3, <1>4, <1>5

LEMMA StreamStep == StreamInv /\ [Next]_vars => StreamInv'
<1> SUFFICES ASSUME StreamInv, [Next]_vars PROVE StreamInv'
  OBVIOUS
<1>1. CASE Record \/ Finish \/ Resume
  BY <1>1, RecordKeeps
<1>2. ASSUME NEW k \in Connections, HandlerStep(k) PROVE StreamInv'
  BY <1>2, ReadBatchKeeps, WriteNextKeeps, EndReplayKeeps, EndFollowKeeps, WaitKeeps,
     HangUpKeeps DEF HandlerStep
<1>3. ASSUME NEW k \in Connections, NEW following \in BOOLEAN, Open(k, following)
      PROVE  StreamInv'
  BY <1>3, OpenKeeps
<1>4. CASE Receive
  BY <1>4, ReceiveKeeps
<1>5. CASE Drop
  BY <1>5, LeavingKeeps DEF Drop
<1>6. CASE Signal \/ CloseBegin \/ CloseEnd
  BY <1>6, ServiceKeeps
<1>7. CASE UNCHANGED vars
  BY <1>7 DEF vars, handlers, client, service, StreamInv, TypeOK, WaitersFollow, Waiting,
     RoomForTheEnd, Over, OverAfter, CursorsAreInLog, WireIsNext, Streaming,
     NothingIsMissed, SleepersAreUpToDate, FollowEndsTheAttempt
<1> QED BY <1>1, <1>2, <1>3, <1>4, <1>5, <1>6, <1>7 DEF Next

(***************************************************************************)
(* Every variable keeps its type.                                          *)
(***************************************************************************)
THEOREM StreamTypes == Spec => []TypeOK
<1>1. StreamInv => TypeOK
  BY DEF StreamInv
<1> QED BY <1>1, StreamInit, StreamStep, PTL DEF Spec

(***************************************************************************)
(* However often the client leaves, reconnects and changes its mode, and   *)
(* whatever the worker and the service do, what it holds is the log        *)
(* without a gap, and a stream that ends as terminal held all of it        *)
(* (_stream_watch, watch).                                                 *)
(***************************************************************************)
THEOREM StreamsStayComplete == Spec => []StreamsAreComplete
<1>1. StreamInv => StreamsAreComplete
  BY DEF StreamInv, StreamsAreComplete
<1> QED BY <1>1, StreamInit, StreamStep, PTL DEF Spec

(***************************************************************************)
(* No follower sleeps through an event, the end of its worker or the close *)
(* of the supervisor, for any number of followers (watch, _notify_event).  *)
(***************************************************************************)
THEOREM NoWakeupIsLost == Spec => []SleepersAreUpToDate
<1>1. StreamInv => SleepersAreUpToDate
  BY DEF StreamInv
<1> QED BY <1>1, StreamInit, StreamStep, PTL DEF Spec
=============================================================================
