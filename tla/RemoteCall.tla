----------------------------- MODULE RemoteCall -----------------------------
(***************************************************************************)
(* What a command of the command line promises of its request: it is       *)
(* executed at most once, a result or a named error of the supervisor      *)
(* means that the supervisor was called, and an unavailable supervisor     *)
(* means that it was not and never will be.  After a refusal of the        *)
(* request, a protocol error or an oversized frame the caller cannot tell. *)
(***************************************************************************)
EXTENDS Naturals

CONSTANT Calls

VARIABLES
  executed,   \* how often the supervisor was called for a command's request
  outcome     \* what the command ended with

Unknown == "unknown"

\* Outcomes by what they say of the request.  One code stands for parameters
\* that are refused before the call, and for a TypeError or a ValueError that
\* the call raises, whatever it did before.
WhenExecuted == {"ok", "supervisor_error"}
WhenNot      == {"supervisor_unavailable", "traceback"}
EitherWay    == {"invalid_request", "sdk_protocol_error", "frame_too_large"}

Outcomes == {Unknown} \cup WhenExecuted \cup WhenNot \cup EitherWay

Init ==
  /\ executed = [c \in Calls |-> 0]
  /\ outcome = [c \in Calls |-> Unknown]

Execute(c) ==
  /\ outcome[c] = Unknown /\ executed[c] = 0
  /\ executed' = [executed EXCEPT ![c] = 1]
  /\ UNCHANGED outcome

End(c) ==
  /\ outcome[c] = Unknown
  /\ \E o \in EitherWay \cup (IF executed[c] = 0 THEN WhenNot ELSE WhenExecuted) :
       outcome' = [outcome EXCEPT ![c] = o]
  /\ UNCHANGED executed

Next == \E c \in Calls : Execute(c) \/ End(c)

Spec == Init /\ [][Next]_<<executed, outcome>>
=============================================================================
