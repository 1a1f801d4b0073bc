--------------------------- MODULE Service_proofs ---------------------------
(***************************************************************************)
(* Proofs about Service: what a command claims of its request is true, and *)
(* start and close agree about whose the socket is, for any processes,     *)
(* commands, tries and crashes.                                            *)
(***************************************************************************)
EXTENDS Service, TLAPS

LEMMA ServiceInitTypes == Init => TypeOK
<1> SUFFICES ASSUME Init PROVE TypeOK
  OBVIOUS
<1>1. Tries + 1 \in 1 .. Tries + 1 /\ 0 \in 0 .. MaxCrashes
  BY TriesAssumption
<1>2. /\ races \in BOOLEAN /\ path \in {None, File} \cup Services
      /\ at \in [Services -> Places] /\ identity \in [Services -> {None, File} \cup Services]
  BY RaceAssumption DEF Init, Places, Starting, Closing
<1>3. /\ crashes \in 0 .. MaxCrashes /\ call \in [Calls -> CallPlaces]
      /\ starts \subseteq Calls /\ kind \in [Calls -> Kinds] /\ left \in [Calls -> 1 .. Tries + 1]
  BY <1>1 DEF Init, CallPlaces
<1>4. /\ link \in [Calls -> {None} \cup Services] /\ stage \in [Calls -> Stages]
      /\ executed \in [Calls -> Nat] /\ outcome \in [Calls -> Outcomes]
  BY DEF Init, Stages, Outcomes
<1> QED BY <1>2, <1>3, <1>4 DEF TypeOK

\* What becomes of connections is a stage of theirs.
LEMMA LostStages ==
  ASSUME TypeOK, NEW s \in Services
  PROVE  /\ Refused(s) \in [Calls -> Stages] /\ Severed(s) \in [Calls -> Stages]
         /\ \A c \in Calls : Refused(s)[c] = stage[c] \/ (stage[c] = "backlog" /\ Refused(s)[c] = "reset")
         /\ \A c \in Calls :
              \/ Severed(s)[c] = stage[c]
              \/ stage[c] \in {"backlog", "accepted"} /\ Severed(s)[c] = "reset"
              \/ stage[c] \in {"read", "executed"} /\ Severed(s)[c] = "eof"
<1>1. /\ \A c \in Calls : Refused(s)[c] = stage[c] \/ (stage[c] = "backlog" /\ Refused(s)[c] = "reset")
      /\ Refused(s) \in [Calls -> Stages]
  BY DEF Refused, TypeOK, Stages
<1>2. ASSUME NEW c \in Calls
      PROVE  \/ Severed(s)[c] = stage[c]
             \/ stage[c] \in {"backlog", "accepted"} /\ Severed(s)[c] = "reset"
             \/ stage[c] \in {"read", "executed"} /\ Severed(s)[c] = "eof"
  BY DEF Severed
<1>3. Severed(s) \in [Calls -> Stages]
  <2>1. \A c \in Calls : Severed(s)[c] \in Stages
    BY <1>2 DEF TypeOK, Stages
  <2>2. Severed(s) = [c \in Calls |-> Severed(s)[c]]
    BY DEF Severed
  <2> QED BY <2>1, <2>2
<1> QED BY <1>1, <1>2, <1>3

\* A step of a service in short: its place, the path, whose the socket is, and
\* the connections that it loses.
ServiceStep(s) ==
  /\ at' = [at EXCEPT ![s] = at'[s]] /\ at'[s] \in Places
  /\ path' \in {None, File} \cup Services
  /\ \A t \in Services \ {s} : identity'[t] = identity[t]
  /\ identity' \in [Services -> {None, File} \cup Services]
  /\ crashes' \in 0 .. MaxCrashes
  /\ stage' \in {stage, Refused(s), Severed(s)}
  /\ UNCHANGED <<fixed, calls, link, executed>>

LEMMA ServiceSteps ==
  ASSUME TypeOK, NEW s \in Services,
         StartNext(s) \/ Signal(s) \/ CloseNext(s) \/ Crash(s)
  PROVE  ServiceStep(s)
<1> USE DEF TypeOK, Step, To, StartFrame, ServiceStep, sockets, wires, Places, Starting, Closing
<1>1. CASE Lstat(s)
  BY <1>1 DEF Lstat
<1>2. CASE Probe(s)
  BY <1>2 DEF Probe
<1>3. CASE UnlinkStale(s)
  BY <1>3 DEF UnlinkStale
<1>4. CASE ReplaceSocket(s)
  BY <1>4 DEF ReplaceSocket
<1>5. CASE Bind(s)
  BY <1>5 DEF Bind
<1>6. CASE Listen(s)
  BY <1>6 DEF Listen
<1>7. CASE Identify(s)
  BY <1>7 DEF Identify
<1>8. CASE Signal(s)
  BY <1>8 DEF Signal
<1>9. CASE Drained(s) \/ Compare(s) \/ CloseSupervisor(s) \/ FailStart(s)
  BY <1>9 DEF Drained, Compare, CloseSupervisor, FailStart
<1>10. CASE Remove(s)
  BY <1>10 DEF Remove
<1>11. CASE Crash(s)
  BY <1>11, TriesAssumption DEF Crash
<1> QED BY <1>1, <1>2, <1>3, <1>4, <1>5, <1>6, <1>7, <1>8, <1>9, <1>10, <1>11
        DEF StartNext, CloseNext

(***************************************************************************)
(* The connections and the commands.                                       *)
(***************************************************************************)

\* As long as a command goes on, its connection tells whether its request was
\* executed; and who is being served waits for the answer.
CallInv ==
  \A c \in Calls :
    /\ outcome[c] = Unknown <=> call[c] # "done"
    /\ stage[c] \in {"read", "executed"} => call[c] = "receive"
    /\ call[c] # "done" =>
         /\ call[c] \in {"connect", "launch", "pause"} => stage[c] \in {None, "reset"}
         /\ call[c] = "send" => stage[c] \in {"backlog", "accepted", "reset"}
         /\ stage[c] \in {None, "backlog", "accepted", "read", "reset"} =>
              executed[c] = 0
         /\ stage[c] \in {"executed", "ok", "supervisor_error"} => executed[c] = 1

LEMMA CallInit == Init => CallInv
BY DEF Init, CallInv, None, Unknown

LEMMA ServiceKeepsCalls ==
  ASSUME TypeOK, CallInv, NEW s \in Services, ServiceStep(s)
  PROVE  TypeOK' /\ CallInv'
<1>1. stage' \in [Calls -> Stages] /\ \A c \in Calls :
        \/ stage'[c] = stage[c]
        \/ stage[c] \in {"backlog", "accepted"} /\ stage'[c] = "reset"
        \/ stage[c] \in {"read", "executed"} /\ stage'[c] = "eof"
  BY LostStages DEF ServiceStep, TypeOK
<1>2. at' \in [Services -> Places]
  BY DEF ServiceStep, TypeOK
<1>3. TypeOK'
  BY <1>1, <1>2 DEF ServiceStep, TypeOK, fixed, calls
<1>4. CallInv'
  <2> SUFFICES ASSUME NEW c \in Calls
               PROVE  /\ outcome[c] = Unknown <=> call[c] # "done"
                      /\ stage'[c] \in {"read", "executed"} => call[c] = "receive"
                      /\ call[c] # "done" =>
                           /\ call[c] \in {"connect", "launch", "pause"} => stage'[c] \in {None, "reset"}
                           /\ call[c] = "send" => stage'[c] \in {"backlog", "accepted", "reset"}
                           /\ stage'[c] \in {None, "backlog", "accepted", "read", "reset"} =>
                                executed[c] = 0
                           /\ stage'[c] \in {"executed", "ok", "supervisor_error"} => executed[c] = 1
    BY DEF ServiceStep, calls, CallInv
  <2> QED BY <1>1 DEF CallInv, None
<1> QED BY <1>3, <1>4

LEMMA HandlerKeepsCalls ==
  ASSUME TypeOK, CallInv, NEW c \in Calls, HandlerNext(c)
  PROVE  TypeOK' /\ CallInv'
<1> USE DEF HandlerFrame, Stage, fixed, sockets, calls
<1>1. /\ stage' = [stage EXCEPT ![c] = stage'[c]] /\ stage'[c] \in Stages
      /\ executed' \in [Calls -> Nat]
      /\ UNCHANGED <<races, starts, kind, path, identity, at, crashes, call, left, outcome, link>>
  BY DEF HandlerNext, Accept, ReadRequest, Dispatch, Respond, HandlerEnds, TypeOK,
         Stages, Answers
<1>2. TypeOK'
  BY <1>1 DEF TypeOK
<1>3. /\ \A d \in Calls \ {c} : executed'[d] = executed[d]
      /\ \/ stage[c] = "backlog" /\ stage'[c] = "accepted" /\ executed' = executed
         \/ stage[c] = "accepted" /\ stage'[c] = "read" /\ call[c] = "receive" /\ executed' = executed
         \/ stage[c] = "read" /\ stage'[c] = "invalid_request" /\ executed' = executed
         \/ stage[c] = "read" /\ stage'[c] = "executed" /\ executed'[c] = 1
         \/ /\ stage[c] = "executed" /\ executed' = executed
            /\ stage'[c] \in Answers
         \/ call[c] = "done" /\ stage'[c] = None /\ executed' = executed
  <2>1. CASE Dispatch(c)
    <3>1. executed[c] = 0
      BY <2>1 DEF Dispatch, CallInv
    <3> QED BY <2>1, <3>1 DEF Dispatch, TypeOK
  <2>2. CASE Accept(c) \/ ReadRequest(c) \/ Respond(c) \/ HandlerEnds(c)
    BY <2>2 DEF Accept, ReadRequest, Respond, HandlerEnds, TypeOK, Answers
  <2> QED BY <2>1, <2>2 DEF HandlerNext
<1>4. CallInv'
  BY <1>1, <1>3 DEF CallInv, TypeOK, None, Answers
<1> QED BY <1>2, <1>4

\* What a command's step does to its place and its outcome.
LEMMA ClientSteps ==
  ASSUME TypeOK, CallInv, NEW c \in Calls, ClientNext(c)
  PROVE  /\ call[c] # "done" /\ executed' = executed
         /\ call' = [call EXCEPT ![c] = call'[c]]
         /\ \/ /\ outcome' = outcome /\ stage' = stage /\ link' = link
               /\ call'[c] \in {"connect", "launch", "pause"} /\ stage[c] \in {None, "reset"}
            \/ /\ outcome' = outcome /\ call[c] = "connect" /\ call'[c] = "send"
               /\ stage' = [stage EXCEPT ![c] = "backlog"]
               /\ link' = [link EXCEPT ![c] = path] /\ path \in Services
            \/ /\ outcome' = outcome /\ stage' = stage /\ link' = link
               /\ call[c] = "send" /\ call'[c] = "receive" /\ stage[c] # "reset"
            \/ /\ stage' = stage /\ link' = link /\ call'[c] = "done"
               /\ \E o \in Outcomes \ {Unknown} :
                    /\ outcome' = [outcome EXCEPT ![c] = o]
                    /\ o \in {"ok", "supervisor_error"} => executed[c] = 1
                    /\ o \in {"supervisor_unavailable", "traceback"} =>
                         executed[c] = 0
               /\ stage[c] \notin {"read", "executed"}
<1> USE DEF ClientFrame
<1>1. CASE Connect(c)
  BY <1>1 DEF Connect, Reachable, Unavailable, Ends, Stage, TypeOK, CallInv, None, Unknown,
     Outcomes
<1>2. CASE Send(c)
  BY <1>2 DEF Send, Ends, TypeOK, CallInv, None, Unknown, Outcomes, Answers
<1>3. CASE Receive(c)
  BY <1>3 DEF Receive, Interrupted, Unavailable, Ends, TypeOK, CallInv, None, Unknown,
     Outcomes, Answers
<1>4. CASE Launch(c)
  BY <1>4 DEF Launch, Ends, TypeOK, CallInv, None, Unknown, Outcomes
<1>5. CASE Pause(c)
  BY <1>5 DEF Pause, Ends, TypeOK, CallInv, None, Unknown, Outcomes
<1> QED BY <1>1, <1>2, <1>3, <1>4, <1>5 DEF ClientNext

LEMMA ClientTypes ==
  ASSUME TypeOK, CallInv, NEW c \in Calls, ClientNext(c) PROVE TypeOK'
<1> USE DEF ClientFrame, fixed, sockets
<1>1. UNCHANGED <<races, starts, kind, path, identity, crashes, executed>>
  BY DEF ClientNext, Connect, Send, Receive, Launch, Pause
<1>2. /\ call' \in [Calls -> CallPlaces] /\ outcome' \in [Calls -> Outcomes]
      /\ stage' \in [Calls -> Stages] /\ link' \in [Calls -> {None} \cup Services]
  <2>1. call'[c] \in CallPlaces
    BY ClientSteps DEF CallPlaces
  <2>2. call' \in [Calls -> CallPlaces]
    BY <2>1, ClientSteps DEF TypeOK
  <2>3. outcome' \in [Calls -> Outcomes]
    BY ClientSteps DEF TypeOK
  <2>4. stage' \in [Calls -> Stages] /\ link' \in [Calls -> {None} \cup Services]
    BY ClientSteps DEF TypeOK, Stages
  <2> QED BY <2>2, <2>3, <2>4
<1>3. at' \in [Services -> Places]
  BY DEF ClientNext, Connect, Send, Receive, Launch, Pause, To, TypeOK, Places, Starting
<1>4. left' \in [Calls -> 1 .. Tries + 1]
  <2>1. CASE Pause(c)
    <3>1. left[c] \in 1 .. Tries + 1
      BY DEF TypeOK
    <3>2. left[c] > 1 => left[c] - 1 \in 1 .. Tries + 1
      BY <3>1, TriesAssumption
    <3> QED BY <2>1, <3>2 DEF Pause, MoreTries, Spent, Ends, TypeOK
  <2>2. CASE Launch(c)
    <3>1. Tries \in 1 .. Tries + 1
      BY TriesAssumption
    <3> QED BY <2>2, <3>1 DEF Launch, Ends, TypeOK
  <2>3. CASE Connect(c) \/ Send(c) \/ Receive(c)
    BY <2>3 DEF Connect, Send, Receive, Unavailable, Ends, TypeOK
  <2> QED BY <2>1, <2>2, <2>3 DEF ClientNext
<1> QED BY <1>1, <1>2, <1>3, <1>4 DEF TypeOK

LEMMA ClientKeepsCalls ==
  ASSUME TypeOK, CallInv, NEW c \in Calls, ClientNext(c) PROVE CallInv'
<1> SUFFICES ASSUME NEW d \in Calls
             PROVE  /\ outcome'[d] = Unknown <=> call'[d] # "done"
                    /\ stage'[d] \in {"read", "executed"} => call'[d] = "receive"
                    /\ call'[d] # "done" =>
                         /\ call'[d] \in {"connect", "launch", "pause"} => stage'[d] \in {None, "reset"}
                         /\ call'[d] = "send" => stage'[d] \in {"backlog", "accepted", "reset"}
                         /\ stage'[d] \in {None, "backlog", "accepted", "read", "reset"} =>
                              executed'[d] = 0
                         /\ stage'[d] \in {"executed", "ok", "supervisor_error"} => executed'[d] = 1
  BY DEF CallInv
<1>1. CASE d # c
  BY <1>1, ClientSteps DEF TypeOK, CallInv
<1>2. CASE d = c
  BY <1>2, ClientSteps DEF TypeOK, CallInv, None
<1> QED BY <1>1, <1>2

LEMMA CallsStutter == TypeOK /\ CallInv /\ UNCHANGED vars => TypeOK' /\ CallInv'
BY DEF vars, fixed, sockets, calls, wires, TypeOK, CallInv

LEMMA CallStep == TypeOK /\ CallInv /\ [Next]_vars => TypeOK' /\ CallInv'
BY ServiceSteps, ServiceKeepsCalls, HandlerKeepsCalls, ClientTypes, ClientKeepsCalls,
   CallsStutter DEF Next

(***************************************************************************)
(* Every variable keeps its type.                                          *)
(***************************************************************************)
THEOREM ServiceTypes == Spec => []TypeOK
BY ServiceInitTypes, CallInit, CallStep, PTL DEF Spec

\* A step of the services, or of a handler that executes nothing, is none of
\* the abstract specification; a Dispatch is its Execute, and the step that
\* ends a command its End.
LEMMA RefinesNext == TypeOK /\ CallInv /\ [Next]_vars => [Abstract!Next]_<<executed, outcome>>
<1> SUFFICES ASSUME TypeOK, CallInv, [Next]_vars
             PROVE  Abstract!Next \/ UNCHANGED <<executed, outcome>>
  OBVIOUS
<1>1. ASSUME NEW s \in Services, StartNext(s) \/ Signal(s) \/ CloseNext(s) \/ Crash(s)
      PROVE  UNCHANGED <<executed, outcome>>
  BY <1>1, ServiceSteps DEF ServiceStep, calls
<1>2. ASSUME NEW c \in Calls, HandlerNext(c)
      PROVE  Abstract!Execute(c) \/ UNCHANGED <<executed, outcome>>
  <2>1. CASE Dispatch(c)
    <3>1. outcome[c] = Unknown /\ executed[c] = 0
      BY <2>1 DEF Dispatch, CallInv
    <3> QED BY <2>1, <3>1 DEF Dispatch, HandlerFrame, calls, Abstract!Execute,
               Abstract!Unknown, Unknown
  <2>2. CASE Accept(c) \/ ReadRequest(c) \/ Respond(c) \/ HandlerEnds(c)
    BY <2>2 DEF Accept, ReadRequest, Respond, HandlerEnds, HandlerFrame, calls
  <2> QED BY <1>2, <2>1, <2>2 DEF HandlerNext
<1>3. ASSUME NEW c \in Calls, ClientNext(c)
      PROVE  Abstract!End(c) \/ UNCHANGED <<executed, outcome>>
  <2>1. executed' = executed /\ outcome[c] = Unknown
    BY <1>3, ClientSteps DEF CallInv
  <2>2. CASE outcome' = outcome
    BY <2>1, <2>2
  <2>3. ASSUME NEW o \in Outcomes \ {Unknown},
               outcome' = [outcome EXCEPT ![c] = o],
               o \in {"ok", "supervisor_error"} => executed[c] = 1,
               o \in {"supervisor_unavailable", "traceback"} =>
                 executed[c] = 0
        PROVE  Abstract!End(c)
    <3>1. o \in Abstract!EitherWay \cup
               (IF executed[c] = 0 THEN Abstract!WhenNot ELSE Abstract!WhenExecuted)
      BY <2>3 DEF Outcomes, Answers, Unknown, Abstract!EitherWay, Abstract!WhenExecuted,
                  Abstract!WhenNot
    <3> QED BY <2>1, <2>3, <3>1 DEF Abstract!End, Abstract!Unknown, Unknown
  <2> QED BY <1>3, <2>2, <2>3, ClientSteps
<1>4. CASE UNCHANGED vars
  BY <1>4 DEF vars, calls, wires
<1> QED BY <1>1, <1>2, <1>3, <1>4 DEF Next, Abstract!Next

(***************************************************************************)
(* Whatever becomes of services and connections, of any number of          *)
(* processes and commands, the supervisor is called at most once for a     *)
(* request; a command ends with a result or a named error only if it was   *)
(* called, and with an unavailable supervisor only if it was not           *)
(* (_call_with_supervisor, _read_response, _dispatch).                     *)
(***************************************************************************)
THEOREM CallsAreHonest == Spec => ImplementsRemoteCall
<1>1. Init => Abstract!Init
  BY DEF Init, Abstract!Init, Unknown, Abstract!Unknown
<1> QED BY <1>1, ServiceInitTypes, CallInit, CallStep, RefinesNext, PTL
        DEF Spec, ImplementsRemoteCall, Abstract!Spec

(***************************************************************************)
(* The socket, when no service steps between another's check and use.      *)
(***************************************************************************)

\* Before its bind and after its removal, no service has the path.
Without == {"absent", "lstat", "probe", "unlink", "replace", "bind", "failed", "closing"}

OneIsCritical == \A s, t \in Services : Critical(s) /\ Critical(t) => s = t

BoundIsFound ==
  \A s \in Services : at[s] \in {"listen", "identify", "serving", "remove"} => path = s

KnowsItsSocket ==
  \A s \in Services : at[s] \in {"serving", "draining", "compare", "remove"} => identity[s] = s

ClearsWhenIdle ==
  \A s, t \in Services : at[t] \in {"unlink", "replace", "bind"} => at[s] # "serving"

NothingIsLeftOver ==
  \A s \in Services : at[s] \in Without \/ (at[s] = "gone" /\ crashes = 0) => path # s

SocketParts ==
  OneIsCritical /\ BoundIsFound /\ KnowsItsSocket /\ ClearsWhenIdle /\ NothingIsLeftOver

SocketInv == ~ races => SocketParts

LEMMA SocketInit == Init => SocketInv
<1> SUFFICES ASSUME Init PROVE SocketParts
  BY DEF SocketInv
<1>1. \A s \in Services : at[s] \in {"absent", "lstat"}
  BY DEF Init
<1>2. \A s \in Services : path # s
  BY ServicesAssumption DEF Init
<1> QED BY <1>1, <1>2 DEF SocketParts, OneIsCritical, BoundIsFound, KnowsItsSocket,
           ClearsWhenIdle, NothingIsLeftOver, Critical, Starting

\* A step of one service: what it finds at the path, what it does there, and
\* whose the socket is to it.
LEMMA SocketSteps ==
  ASSUME TypeOK, ~ races, SocketParts, NEW s \in Services,
         StartNext(s) \/ Signal(s) \/ CloseNext(s)
  PROVE  /\ \A t \in Services \ {s} : ~ Critical(t)
         /\ crashes' = crashes
         /\ \/ /\ path' = path /\ identity' = identity
               /\ \/ at[s] = "lstat" /\ at'[s] = "replace" /\ path = None
                  \/ at[s] \in Without /\ at'[s] \in {"failed", "probe", "closing", "gone"}
                  \/ at[s] = "probe" /\ at'[s] = "unlink" /\ \A t \in Services : at[t] # "serving"
                  \/ at[s] = "listen" /\ at'[s] = "identify"
                  \/ at[s] = "serving" /\ at'[s] = "draining"
                  \/ at[s] = "draining" /\ at'[s] = "compare"
                  \/ at[s] = "compare" /\ at'[s] = "remove" /\ path = s
                  \/ at[s] = "compare" /\ at'[s] = "closing" /\ path # s
            \/ /\ identity' = identity /\ path' \in {None, File, path} \ {s}
               /\ at[s] \in {"unlink", "replace"} /\ at'[s] \in {"failed", "replace", "bind"}
            \/ /\ identity' = identity /\ path' = s
               /\ at[s] = "bind" /\ at'[s] = "listen"
            \/ /\ identity' = [identity EXCEPT ![s] = s] /\ path' = path
               /\ at[s] = "identify" /\ at'[s] = "serving"
            \/ /\ identity' = identity /\ path' = None
               /\ at[s] = "remove" /\ at'[s] \in {"gone", "closing"}
<1> USE ServicesAssumption DEF TypeOK, Step, To, StartFrame, sockets, Undisturbed, SocketParts
<1>1. CASE Lstat(s)
  BY <1>1 DEF Lstat, Without
<1>2. CASE Probe(s)
  <2>1. SocketIsActive \/ \A t \in Services : at[t] # "serving"
    BY DEF SocketIsActive, Reachable, Listening, BoundIsFound
  <2> QED BY <1>2, <2>1 DEF Probe, Without
<1>3. CASE UnlinkStale(s)
  BY <1>3 DEF UnlinkStale
<1>4. CASE ReplaceSocket(s)
  BY <1>4 DEF ReplaceSocket, NothingIsLeftOver, Without
<1>5. CASE Bind(s)
  BY <1>5 DEF Bind, Without
<1>6. CASE Listen(s)
  BY <1>6 DEF Listen
<1>7. CASE Identify(s)
  BY <1>7 DEF Identify, BoundIsFound
<1>8. CASE Signal(s)
  BY <1>8 DEF Signal
<1>9. CASE Drained(s) \/ CloseSupervisor(s) \/ FailStart(s)
  BY <1>9 DEF Drained, CloseSupervisor, FailStart, Without
<1>10. CASE Compare(s)
  BY <1>10 DEF Compare, Owned, KnowsItsSocket
<1>11. CASE Remove(s)
  BY <1>11 DEF Remove
<1> QED BY <1>1, <1>2, <1>3, <1>4, <1>5, <1>6, <1>7, <1>8, <1>9, <1>10, <1>11
        DEF StartNext, CloseNext

LEMMA ServiceKeepsSocket ==
  ASSUME TypeOK, ~ races, SocketParts, NEW s \in Services,
         StartNext(s) \/ Signal(s) \/ CloseNext(s)
  PROVE  SocketParts'
<1> USE ServicesAssumption DEF TypeOK
<1>1. at' = [at EXCEPT ![s] = at'[s]] /\ \A t \in Services \ {s} : at'[t] = at[t]
  BY ServiceSteps DEF ServiceStep
<1>2. \A t \in Services \ {s} : ~ Critical(t) /\ ~ Critical(t)'
  BY <1>1, SocketSteps DEF Critical
<1>3. OneIsCritical'
  BY <1>2 DEF OneIsCritical
<1>4. BoundIsFound'
  <2>1. ASSUME NEW t \in Services \ {s}, at[t] = "serving" PROVE path' = t
    BY <2>1, SocketSteps DEF SocketParts, BoundIsFound, ClearsWhenIdle
  <2>2. at'[s] \in {"listen", "identify", "serving", "remove"} => path' = s
    BY SocketSteps DEF SocketParts, BoundIsFound, Without
  <2>3. \A t \in Services \ {s} : at[t] \notin {"listen", "identify", "remove"}
    BY <1>2 DEF Critical, Starting
  <2> QED BY <1>1, <2>1, <2>2, <2>3 DEF BoundIsFound
<1>5. KnowsItsSocket'
  BY <1>1, SocketSteps DEF SocketParts, KnowsItsSocket, Without
<1>6. ClearsWhenIdle'
  <2>1. \A t \in Services \ {s} : at'[t] \notin {"unlink", "replace", "bind"}
    BY <1>2 DEF Critical, Starting
  <2>2. ASSUME at'[s] \in {"unlink", "replace", "bind"}, NEW t \in Services
        PROVE  at'[t] # "serving"
    BY <1>1, <2>2, SocketSteps DEF SocketParts, BoundIsFound, ClearsWhenIdle, Without
  <2> QED BY <2>1, <2>2 DEF ClearsWhenIdle
<1>7. NothingIsLeftOver'
  <2>1. ASSUME NEW t \in Services \ {s}, path # t PROVE path' # t
    BY <2>1, SocketSteps
  <2>2. at'[s] \in Without \/ (at'[s] = "gone" /\ crashes = 0) => path' # s
    BY SocketSteps DEF SocketParts, NothingIsLeftOver, Without
  <2>3. crashes' = crashes
    BY SocketSteps
  <2> QED BY <1>1, <2>1, <2>2, <2>3 DEF SocketParts, NothingIsLeftOver
<1> QED BY <1>3, <1>4, <1>5, <1>6, <1>7 DEF SocketParts

\* A crash leaves the path as it is, and a command starts what was absent.
LEMMA OthersKeepSocket ==
  ASSUME TypeOK, SocketParts,
         \/ \E s \in Services : Crash(s)
         \/ \E c \in Calls : HandlerNext(c) \/ ClientNext(c)
         \/ UNCHANGED vars
  PROVE  SocketParts'
<1> USE DEF SocketParts, OneIsCritical, BoundIsFound, KnowsItsSocket, ClearsWhenIdle,
            NothingIsLeftOver, Critical, Starting, Without, sockets
<1>1. ASSUME NEW s \in Services, Crash(s) PROVE SocketParts'
  <2>1. crashes' # 0
    BY <1>1, TriesAssumption DEF Crash, TypeOK
  <2> QED BY <1>1, <2>1 DEF Crash, To, TypeOK
<1>2. CASE UNCHANGED <<sockets, at, crashes>>
  BY <1>2
<1>3. ASSUME NEW s \in Services, at[s] = "absent", To(s, "lstat"), UNCHANGED <<sockets, crashes>>
      PROVE  SocketParts'
  BY <1>3 DEF To, TypeOK
<1>4. ASSUME NEW c \in Calls, HandlerNext(c) PROVE UNCHANGED <<sockets, at, crashes>>
  BY <1>4 DEF HandlerNext, Accept, ReadRequest, Dispatch, Respond, HandlerEnds, HandlerFrame
<1>5. ASSUME NEW c \in Calls, Connect(c) \/ Send(c) \/ Receive(c) \/ Pause(c)
      PROVE  UNCHANGED <<sockets, at, crashes>>
  BY <1>5 DEF Connect, Send, Receive, Pause, ClientFrame
<1>6. ASSUME NEW c \in Calls, Launch(c) PROVE SocketParts'
  BY <1>2, <1>3, <1>6 DEF Launch, ClientFrame
<1>7. CASE UNCHANGED vars
  BY <1>2, <1>7 DEF vars
<1> QED BY <1>1, <1>2, <1>4, <1>5, <1>6, <1>7 DEF ClientNext

LEMMA SocketStep == TypeOK /\ SocketInv /\ [Next]_vars => SocketInv'
<1> SUFFICES ASSUME TypeOK, SocketInv, [Next]_vars, ~ races' PROVE SocketParts'
  BY DEF SocketInv
<1>1. races' = races
  BY DEF Next, StartNext, Lstat, Probe, UnlinkStale, ReplaceSocket, Bind, Listen, Identify,
         Signal, CloseNext, Drained, Compare, Remove, CloseSupervisor, FailStart, Crash,
         StartFrame, HandlerNext, Accept, ReadRequest, Dispatch, Respond, HandlerEnds,
         HandlerFrame, ClientNext, Connect, Send, Receive, Launch, Pause, ClientFrame,
         vars, fixed
<1> QED BY <1>1, ServiceKeepsSocket, OthersKeepSocket DEF Next, SocketInv

(***************************************************************************)
(* If services start and close one after another, however many and however *)
(* often they are killed, the one that serves is the one that commands     *)
(* reach, and who ends by itself leaves no socket (RPCServer.start, close).*)
(***************************************************************************)
THEOREM SocketStaysRight == Spec => []SocketIsRight
<1>1. SocketInv => SocketIsRight
  BY DEF SocketInv, SocketParts, BoundIsFound, NothingIsLeftOver, SocketIsRight,
         OneServiceServes, NoSocketIsLeft
<1> QED BY <1>1, SocketInit, SocketStep, ServiceInitTypes, CallInit, CallStep, PTL DEF Spec
=============================================================================
