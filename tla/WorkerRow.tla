----------------------------- MODULE WorkerRow ------------------------------
(***************************************************************************)
(* The durable row of one worker (lifecycle.py, and the workers table of   *)
(* store.py): the lifecycle reducer and the updates that the store's       *)
(* transactions apply to the row.  Each operator maps a row to the row     *)
(* after one committed transaction.                                        *)
(***************************************************************************)
EXTENDS Naturals

Starting       == "starting"
Running        == "running"
RequiresAction == "requires_action"
Terminal       == {"completed", "failed", "cancelled", "lost"}
Resumable      == {"failed", "cancelled", "lost"}
States         == {Starting, Running, RequiresAction} \cup Terminal

\* "absent" is the state of a worker that has no row yet.
Absent == "absent"

Health == {"unknown", "healthy", "exited"}

(***************************************************************************)
(* A recorded result, by what decides the terminal state: "completed"      *)
(* stands for the outcomes completed, partial and blocked, "failed" for a  *)
(* failed turn reported by Qoder, "adapter_failure" for the failure that   *)
(* the adapter itself composes when the SDK raises.                        *)
(***************************************************************************)
NoResult   == "none"
SdkResults == {"completed", "failed"}
Results    == SdkResults \cup {"adapter_failure"}

TargetOf(result) == IF result = "completed" THEN "completed" ELSE "failed"

Row == [attempt : Nat,
        state   : States \cup {Absent},
        health  : Health,
        result  : Results \cup {NoResult},
        session : BOOLEAN]

NoRow == [attempt |-> 0, state |-> Absent, health |-> "unknown",
          result |-> NoResult, session |-> FALSE]

Transitions ==
  [s \in States \cup {Absent} |->
     CASE s = Starting       -> {Running, "failed", "cancelled"}
       [] s = Running        -> {RequiresAction} \cup Terminal
       [] s = RequiresAction -> {Running, "cancelled", "lost"}
       [] s \in Resumable    -> {Starting}
       [] OTHER              -> {}]

CanMove(from, to) == to \in Transitions[from]

(***************************************************************************)
(* The edges that section 8.1 of the design lists, for properties to       *)
(* compare with; no transaction uses them.  Transitions has one more: a    *)
(* worker that never ran may be cancelled.                                 *)
(***************************************************************************)
DesignEdges ==
  UNION {{Starting} \X {Running, "failed"},
         {Running} \X ({RequiresAction} \cup Terminal),
         {RequiresAction} \X {Running, "cancelled", "lost"},
         Resumable \X {Starting}}

CancelledAtStart == <<Starting, "cancelled">>

\* A worker.state_changed event, whose edge the caller has checked.
Move(r, to) == [r EXCEPT !.state = to]

\* A worker.health_changed event.
SetHealth(r, h) == [r EXCEPT !.health = h]

\* create_worker and start_attempt: a fresh attempt forgets the old outcome.
FreshAttempt(n) == [attempt |-> n, state |-> Starting, health |-> "unknown",
                    result |-> NoResult, session |-> FALSE]

\* record_result: the result and the session it names, in one transaction.
RecordResult(r, result, session) ==
  [r EXCEPT !.result = result, !.session = session]
=============================================================================
