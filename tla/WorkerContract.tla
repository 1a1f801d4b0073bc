--------------------------- MODULE WorkerContract ---------------------------
(***************************************************************************)
(* What a client of the supervisor may rely on, as it sees a worker through *)
(* status and result: the attempt's number, its state, its result and the  *)
(* session that a resume would continue (sections 7.1, 8.1 and 12.7 of the *)
(* design).  A step of this specification is one observable change; how    *)
(* tasks, stops, callbacks and the store bring it about is Supervisor.tla. *)
(***************************************************************************)
EXTENDS WorkerRow

CONSTANT Workers

VARIABLE worker

View == [attempt : Nat, state : States \cup {Absent},
         result : Results \cup {NoResult}, session : BOOLEAN]

Fresh(n) == [attempt |-> n, state |-> Starting,
             result |-> NoResult, session |-> FALSE]

Accept(w) ==
  /\ worker[w].state = Absent
  /\ worker' = [worker EXCEPT ![w] = Fresh(1)]

\* Work goes on, and may wait for a controller.
Work(w) ==
  \/ /\ worker[w].state \in {Starting, RequiresAction}
     /\ worker' = [worker EXCEPT ![w].state = Running]
  \/ /\ worker[w].state = Running
     /\ worker' = [worker EXCEPT ![w].state = RequiresAction]

\* The attempt ends, once, and its result appears with its terminal state.
\* An attempt that never initialised did not complete and was not lost.
Finish(w, state, result, session) ==
  /\ worker[w].state \in {Starting, Running, RequiresAction}
  /\ worker[w].state = Starting => state \in {"failed", "cancelled"}
  /\ state = "completed" => result = "completed"
  /\ state = "failed" => result \in {"failed", "adapter_failure"}
  /\ state = "lost" => result = NoResult
  /\ session => result # NoResult
  /\ worker' = [worker EXCEPT ![w] =
                  [@ EXCEPT !.state = state, !.result = result, !.session = session]]

\* Only a conversation that is known can be continued.
Continue(w) ==
  /\ worker[w].state \in Resumable /\ worker[w].session
  /\ worker' = [worker EXCEPT ![w] = Fresh(@.attempt + 1)]

Init == worker = [w \in Workers |-> [attempt |-> 0, state |-> Absent,
                                     result |-> NoResult, session |-> FALSE]]

Next ==
  \E w \in Workers :
    \/ Accept(w) \/ Work(w) \/ Continue(w)
    \/ \E state \in Terminal, result \in Results \cup {NoResult},
          session \in BOOLEAN : Finish(w, state, result, session)

Spec == Init /\ [][Next]_worker
=============================================================================
