------------------------------ MODULE Service -------------------------------
(***************************************************************************)
(* The service processes that share one socket path, from their start to   *)
(* their end (rpc.py), and the commands that call them, start them and     *)
(* retry (cli.py, rpc.py).                                                 *)
(*                                                                         *)
(* A service step is what happens between two system calls on the path, or *)
(* between two suspensions: services are processes of their own.  What the *)
(* kernel and asyncio do is modelled from how the code uses it: a closed   *)
(* listener resets the connections it did not accept, and a process that   *)
(* ends resets those whose request it did not read and closes the others.  *)
(***************************************************************************)
EXTENDS Naturals

CONSTANTS
  Services,     \* the processes that may be started, each once
  Calls,        \* the commands that are run, each once
  Tries,        \* how often a command calls again after it started a service
  MaxCrashes,   \* bound on the processes that are killed
  RaceChoices   \* whether another service may step between a check and its use

ASSUME TriesAssumption == Tries \in Nat \ {0} /\ MaxCrashes \in Nat
ASSUME RaceAssumption == RaceChoices \subseteq BOOLEAN

VARIABLES
  races,      \* the choice made for this behaviour
  path,       \* what is at the socket path: nothing, a file, or whose socket
  at,         \* where each service is
  identity,   \* the socket that each service takes for its own
  crashes,    \* processes killed so far
  call,       \* where each command is
  starts,     \* commands that may start a service
  kind,       \* what is special about a command's request
  left,       \* calls that a command may still make
  link,       \* the service that a command's connection leads to
  stage,      \* how far the service is with that connection
  executed,   \* how often a command's request reached the supervisor
  outcome     \* what each command ended with

fixed   == <<races, starts, kind>>
sockets == <<path, identity>>
calls   == <<call, left, outcome>>
wires   == <<link, stage, executed>>
vars    == <<fixed, sockets, at, crashes, calls, wires>>

None == "none"
File == "file"
Unknown == "unknown"

ASSUME ServicesAssumption == None \notin Services /\ File \notin Services

\* start: before each call on the path; close likewise.
Starting == {"lstat", "probe", "unlink", "replace", "bind", "listen", "identify"}
Closing  == {"draining", "compare", "remove", "closing"}
Places   == {"absent", "serving", "failed", "gone"} \cup Starting \cup Closing

CallPlaces == {"connect", "send", "receive", "launch", "pause", "done"}

\* A valid request, one whose parameters are refused, one whose response and
\* one that itself is larger than a frame.
Kinds == {"plain", "invalid", "bulky", "oversized"}

\* A connection that waits in the backlog, was accepted, and so on.
Answers  == {"ok", "supervisor_error", "invalid_request", "frame_too_large", "sdk_protocol_error"}
Stages   == {None, "backlog", "accepted", "read", "executed", "reset", "eof"} \cup Answers
Outcomes == {Unknown, "supervisor_unavailable", "traceback"} \cup Answers

Listening(s) == at[s] \in {"identify", "serving"}
Runs(s)      == at[s] \in Starting \cup Closing \cup {"serving", "failed"}

\* Between a check of the path and what rests on it.
Critical(s) == at[s] \in (Starting \ {"lstat"}) \cup {"remove"}

Undisturbed(s) == races \/ \A t \in Services \ {s} : ~ Critical(t)

-----------------------------------------------------------------------------
(***************************************************************************)
(* What becomes of connections when their service stops to listen, or dies.*)
(***************************************************************************)
Refused(s) ==
  [c \in Calls |-> IF link[c] = s /\ stage[c] = "backlog" THEN "reset" ELSE stage[c]]

Severed(s) ==
  [c \in Calls |->
     CASE link[c] = s /\ stage[c] \in {"backlog", "accepted"} -> "reset"
       [] link[c] = s /\ stage[c] \in {"read", "executed"}    -> "eof"
       [] OTHER                                               -> stage[c]]

\* A connection that its handler has not closed.
Open(s) == {c \in Calls : link[c] = s /\ stage[c] \in {"accepted", "read", "executed"} \cup Answers}

-----------------------------------------------------------------------------
(***************************************************************************)
(* RPCServer.start.                                                        *)
(***************************************************************************)
Step(s, from) == at[s] = from /\ Undisturbed(s)

To(s, place) == at' = [at EXCEPT ![s] = place]

StartFrame == UNCHANGED <<fixed, crashes, calls, wires>>

Lstat(s) ==
  /\ Step(s, "lstat")
  /\ \/ path = None /\ To(s, "replace")
     \/ path = File /\ To(s, "failed")
     \/ path \in Services /\ To(s, "probe")
  /\ UNCHANGED sockets /\ StartFrame

\* Whether a connection to the path succeeds.
Reachable == path \in Services /\ Listening(path)

SocketIsActive_Never == FALSE

\* A refused connection or a socket that is gone is stale.  A connection that
\* succeeds is closed at once and leaves nothing behind.
SocketIsActive == Reachable

Probe(s) ==
  /\ Step(s, "probe")
  /\ To(s, IF SocketIsActive THEN "failed" ELSE "unlink")
  /\ UNCHANGED sockets /\ StartFrame

UnlinkStale(s) ==
  /\ Step(s, "unlink")
  /\ To(s, IF path = None THEN "failed" ELSE "replace")
  /\ path' = None
  /\ UNCHANGED identity /\ StartFrame

\* asyncio.start_unix_server removes any socket at the path, binds and listens.
ReplaceSocket(s) ==
  /\ Step(s, "replace")
  /\ path' = IF path \in Services THEN None ELSE path
  /\ To(s, "bind")
  /\ UNCHANGED identity /\ StartFrame

Bind(s) ==
  /\ Step(s, "bind")
  /\ \/ path = None /\ path' = s /\ To(s, "listen")
     \/ path # None /\ To(s, "failed") /\ UNCHANGED path
  /\ UNCHANGED identity /\ StartFrame

Listen(s) ==
  /\ Step(s, "listen")
  /\ To(s, "identify")
  /\ UNCHANGED sockets /\ StartFrame

\* chmod and stat follow the path to whatever is there now.
Identify(s) ==
  /\ Step(s, "identify")
  /\ \/ /\ path = None
        /\ To(s, "failed")
        /\ stage' = Refused(s)
        /\ UNCHANGED identity
     \/ /\ path # None
        /\ To(s, "serving")
        /\ identity' = [identity EXCEPT ![s] = path]
        /\ UNCHANGED stage
  /\ UNCHANGED <<path, fixed, crashes, calls, link, executed>>

-----------------------------------------------------------------------------
(***************************************************************************)
(* The end of a service: run_server's finally and RPCServer.close.         *)
(***************************************************************************)
Signal(s) ==
  /\ Step(s, "serving")
  /\ To(s, "draining")
  /\ stage' = Refused(s)
  /\ UNCHANGED <<sockets, fixed, crashes, calls, link, executed>>

\* wait_closed, for every connection that was accepted.
Drained(s) ==
  /\ Step(s, "draining") /\ Open(s) = {}
  /\ To(s, "compare")
  /\ UNCHANGED sockets /\ StartFrame

Owned_Assumed(s) == path \in Services

Owned_Never(s) == FALSE

\* Whether the path still has the socket that start found there.
Owned(s) == path = identity[s]

Compare(s) ==
  /\ Step(s, "compare")
  /\ To(s, IF Owned(s) THEN "remove" ELSE "closing")
  /\ UNCHANGED sockets /\ StartFrame

\* If the socket is gone by now the process ends without supervisor.close.
Remove(s) ==
  /\ Step(s, "remove")
  /\ path' = None
  /\ To(s, IF path = None THEN "gone" ELSE "closing")
  /\ stage' = IF path = None THEN Severed(s) ELSE stage
  /\ UNCHANGED <<identity, fixed, crashes, calls, link, executed>>

\* supervisor.close, and the exit of the process.
CloseSupervisor(s) ==
  /\ Step(s, "closing")
  /\ To(s, "gone")
  /\ UNCHANGED sockets /\ StartFrame

\* After a failed start close waits for its connections, if it got so far.
FailStart(s) ==
  /\ Step(s, "failed") /\ Open(s) = {}
  /\ To(s, "closing")
  /\ UNCHANGED sockets /\ StartFrame

Crash(s) ==
  /\ Runs(s) /\ crashes < MaxCrashes
  /\ crashes' = crashes + 1
  /\ To(s, "gone")
  /\ stage' = Severed(s)
  /\ UNCHANGED <<sockets, fixed, calls, link, executed>>

-----------------------------------------------------------------------------
(***************************************************************************)
(* The handler of a connection.                                            *)
(***************************************************************************)
Stage(c, s) == stage' = [stage EXCEPT ![c] = s]

\* The service of a connection, while its event loop runs.
Served(c) == link[c] \in Services /\ Runs(link[c])

HandlerFrame == UNCHANGED <<fixed, sockets, at, crashes, calls, link>>

Accept(c) ==
  /\ Served(c) /\ stage[c] = "backlog" /\ Listening(link[c])
  /\ Stage(c, "accepted")
  /\ UNCHANGED executed /\ HandlerFrame

ReadRequest(c) ==
  /\ Served(c) /\ stage[c] = "accepted" /\ call[c] = "receive"
  /\ Stage(c, "read")
  /\ UNCHANGED executed /\ HandlerFrame

\* _dispatch: the parameters are refused, or the supervisor is called.
Dispatch(c) ==
  /\ Served(c) /\ stage[c] = "read"
  /\ \/ kind[c] = "invalid" /\ Stage(c, "invalid_request") /\ UNCHANGED executed
     \/ /\ kind[c] # "invalid"
        /\ Stage(c, "executed")
        /\ executed' = [executed EXCEPT ![c] = @ + 1]
  /\ HandlerFrame

\* The supervisor answers, refuses with a code of its own, or raises, before or
\* after it did something: a TypeError or ValueError (a directory that is gone,
\* a transition that the lifecycle refuses) becomes the code of a refused
\* request, which the supervisor also uses itself; anything else a protocol
\* error.  It is not closed, since the service closes it after its connections.
Respond(c) ==
  /\ Served(c) /\ stage[c] = "executed"
  /\ \E a \in {"ok", "supervisor_error", "invalid_request", "sdk_protocol_error"} :
       Stage(c, IF a = "ok" /\ kind[c] = "bulky" THEN "frame_too_large" ELSE a)
  /\ UNCHANGED executed /\ HandlerFrame

HandlerEnds_Answered(c) ==
  /\ Served(c) /\ stage[c] \in Answers /\ call[c] = "done"
  /\ Stage(c, None)
  /\ UNCHANGED executed /\ HandlerFrame

\* The handler reads on, until it finds that the client is gone.
HandlerEnds(c) ==
  /\ Served(c) /\ stage[c] \in {"accepted"} \cup Answers /\ call[c] = "done"
  /\ Stage(c, None)
  /\ UNCHANGED executed /\ HandlerFrame

-----------------------------------------------------------------------------
(***************************************************************************)
(* A command: _call_with_supervisor and, for each try, call.               *)
(***************************************************************************)
ClientFrame == UNCHANGED <<fixed, sockets, crashes, executed>>

Ends(c, result) ==
  /\ call' = [call EXCEPT ![c] = "done"]
  /\ outcome' = [outcome EXCEPT ![c] = result]
  /\ UNCHANGED left

\* A failure that is only about the supervisor is tried again: the first time
\* a service is started, then after a pause, until no try is left.
Unavailable(c) ==
  \/ left[c] > Tries /\ c \in starts
     /\ call' = [call EXCEPT ![c] = "launch"] /\ UNCHANGED <<left, outcome>>
  \/ left[c] > Tries /\ c \notin starts /\ Ends(c, "supervisor_unavailable")
  \/ left[c] <= Tries
     /\ call' = [call EXCEPT ![c] = "pause"] /\ UNCHANGED <<left, outcome>>

Connect(c) ==
  /\ call[c] = "connect"
  /\ \/ /\ Reachable
        /\ link' = [link EXCEPT ![c] = path]
        /\ Stage(c, "backlog")
        /\ call' = [call EXCEPT ![c] = "send"]
        /\ UNCHANGED <<left, outcome>>
     \/ ~ Reachable /\ Unavailable(c) /\ UNCHANGED <<link, stage>>
  /\ UNCHANGED at /\ ClientFrame

\* _write_frame: an oversized request is not sent, and a peer that is gone
\* raises what no caller expects.
Send(c) ==
  /\ call[c] = "send"
  /\ \/ kind[c] = "oversized" /\ Ends(c, "frame_too_large")
     \/ kind[c] # "oversized" /\ stage[c] = "reset" /\ Ends(c, "traceback")
     \/ /\ kind[c] # "oversized" /\ stage[c] # "reset"
        /\ call' = [call EXCEPT ![c] = "receive"]
        /\ UNCHANGED <<left, outcome>>
  /\ UNCHANGED <<at, link, stage>> /\ ClientFrame

Interrupted_OrClosed(c) == stage[c] \in {"reset", "eof"}

Interrupted(c) == stage[c] = "reset"

\* _read_response and _validated_response.
Receive(c) ==
  /\ call[c] = "receive"
  /\ \/ Interrupted(c) /\ Unavailable(c)
     \/ ~ Interrupted(c) /\ stage[c] = "eof" /\ Ends(c, "sdk_protocol_error")
     \/ stage[c] \in Answers /\ Ends(c, stage[c])
  /\ UNCHANGED <<at, link, stage>> /\ ClientFrame

\* _start_supervisor: the process may also fail to start.
Launch(c) ==
  /\ call[c] = "launch"
  /\ \/ /\ \E s \in Services : at[s] = "absent" /\ To(s, "lstat")
        /\ call' = [call EXCEPT ![c] = "connect"]
        /\ left' = [left EXCEPT ![c] = Tries]
        /\ UNCHANGED outcome
     \/ Ends(c, "supervisor_unavailable") /\ UNCHANGED at
  /\ UNCHANGED <<link, stage>> /\ ClientFrame

Spent_Never(c) == UNCHANGED left

Spent(c) == left' = [left EXCEPT ![c] = @ - 1]

MoreTries_OneTooMany(c) == left[c] >= 1

MoreTries(c) == left[c] > 1

Pause(c) ==
  /\ call[c] = "pause"
  /\ \/ MoreTries(c) /\ Spent(c) /\ call' = [call EXCEPT ![c] = "connect"] /\ UNCHANGED outcome
     \/ ~ MoreTries(c) /\ Ends(c, "supervisor_unavailable")
  /\ UNCHANGED <<at, link, stage>> /\ ClientFrame

-----------------------------------------------------------------------------
Init ==
  /\ races \in RaceChoices
  /\ path \in {None, File}
  /\ at \in [Services -> {"absent", "lstat"}]
  /\ identity = [s \in Services |-> None]
  /\ crashes = 0
  /\ call = [c \in Calls |-> "connect"]
  /\ starts \in SUBSET Calls
  /\ kind \in [Calls -> Kinds]
  /\ left = [c \in Calls |-> Tries + 1]
  /\ link = [c \in Calls |-> None]
  /\ stage = [c \in Calls |-> None]
  /\ executed = [c \in Calls |-> 0]
  /\ outcome = [c \in Calls |-> Unknown]

StartNext(s) ==
  \/ Lstat(s) \/ Probe(s) \/ UnlinkStale(s) \/ ReplaceSocket(s)
  \/ Bind(s) \/ Listen(s) \/ Identify(s)

CloseNext(s) ==
  Drained(s) \/ Compare(s) \/ Remove(s) \/ CloseSupervisor(s) \/ FailStart(s)

HandlerNext(c) ==
  Accept(c) \/ ReadRequest(c) \/ Dispatch(c) \/ Respond(c) \/ HandlerEnds(c)

ClientNext(c) ==
  Connect(c) \/ Send(c) \/ Receive(c) \/ Launch(c) \/ Pause(c)

Next ==
  \/ \E s \in Services : StartNext(s) \/ Signal(s) \/ CloseNext(s) \/ Crash(s)
  \/ \E c \in Calls : HandlerNext(c) \/ ClientNext(c)

Spec == Init /\ [][Next]_vars

\* Event loops and commands go on.  No signal and no crash has to come.
FairSpec ==
  /\ Spec
  /\ \A s \in Services : WF_vars(StartNext(s)) /\ WF_vars(CloseNext(s))
  /\ \A c \in Calls : WF_vars(HandlerNext(c)) /\ WF_vars(ClientNext(c))

-----------------------------------------------------------------------------
TypeOK ==
  /\ races \in BOOLEAN
  /\ path \in {None, File} \cup Services
  /\ at \in [Services -> Places]
  /\ identity \in [Services -> {None, File} \cup Services]
  /\ crashes \in 0 .. MaxCrashes
  /\ call \in [Calls -> CallPlaces]
  /\ starts \subseteq Calls
  /\ kind \in [Calls -> Kinds]
  /\ left \in [Calls -> 1 .. Tries + 1]
  /\ link \in [Calls -> {None} \cup Services]
  /\ stage \in [Calls -> Stages]
  /\ executed \in [Calls -> Nat]
  /\ outcome \in [Calls -> Outcomes]

\* Whatever becomes of services and connections, and however often a command
\* calls, the supervisor is called at most once for its request.  It ends with a
\* result or a named error only if the supervisor was called, and with an
\* unavailable supervisor only if it was not; the other outcomes do not tell
\* (_call_with_supervisor, _read_response, _handle_connection).
Abstract == INSTANCE RemoteCall
ImplementsRemoteCall == Abstract!Spec

\* If services start and close one after another, the one that serves is the
\* one that commands reach (start and close of RPCServer).
OneServiceServes ==
  ~ races => \A s \in Services : at[s] = "serving" => path = s

\* Unless its process was killed, a service removes the socket that it bound.
NoSocketIsLeft ==
  ~ races /\ crashes = 0 => \A s \in Services : at[s] = "gone" => path # s

\* Start and close agree about whose the socket is, after whichever ends of
\* earlier services and starts of later ones.
SocketIsRight == OneServiceServes /\ NoSocketIsLeft

\* While a service whose supervisor executed a request serves, commands do not
\* reach another service, whenever services start (start, close).
WorkersStayReachable ==
  \A c \in Calls : executed[c] > 0 /\ at[link[c]] = "serving" =>
    ~ \E s \in Services \ {link[c]} : at[s] = "serving" /\ path = s

\* No command waits or retries for ever.
EveryCallEnds == \A c \in Calls : <>(call[c] = "done")

\* A signalled service waits for its connections, and they end.
SignalledServiceEnds ==
  \A s \in Services : at[s] = "draining" ~> at[s] = "gone"

\* Neither side waits for the other for ever (call, RPCServer.close).
EveryoneEnds == EveryCallEnds /\ SignalledServiceEnds
=============================================================================
