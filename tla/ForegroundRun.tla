--------------------------- MODULE ForegroundRun ----------------------------
(***************************************************************************)
(* One foreground run of an auditor or a coder (auditor.py, coder.py): the *)
(* loop that reads the SDK's events, the ledger of nested tasks, the       *)
(* settlement window after the main result, the report that the run        *)
(* returns (reducer.py) and the disconnect that every way out passes.      *)
(*                                                                         *)
(* Supervisor abstracts this run to what its owner task can observe; this  *)
(* module is about what the returned result says.  An event is read        *)
(* between two awaits, so each of them is one atomic step.  The SDK, which *)
(* decides what events arrive and in what order, is external: telemetry of *)
(* a nested task may be missing, repeated or late.                         *)
(*                                                                         *)
(* A definition named X_... before a definition X is a plausible mistake   *)
(* in X, used only to see that a property notices it.                      *)
(***************************************************************************)
EXTENDS Naturals

CONSTANTS
  Roles,       \* the runners to consider, a subset of {"auditor", "coder"}
  Tasks,       \* identifiers of nested tasks
  Reports,     \* reports that satisfy the report contract
  NoReport,    \* a text that is absent or does not satisfy it
  MaxResults   \* bound on the ResultMessages of one turn

ASSUME RunAssumption ==
  /\ Roles \subseteq {"auditor", "coder"}
  /\ NoReport \notin Reports
  /\ MaxResults \in Nat \ {0}

VARIABLES
  role,        \* which of the two runners this is
  at,          \* where the run is
  link,        \* the transport: "none", "open", "closed" or "failed"
  active,      \* _active_task_ids of the reducer
  result,      \* _result of the reducer, NoResult before it
  captured,    \* the report that submit_audit recorded, an auditor's only
  draft,       \* the last assistant text that is a report, a coder's only
  held,        \* the local `result` of run, NoAnswer before it
  raised,      \* the exception on its way out of run, "none" if there is none
  announced,   \* how often on_result was called
  \* What was observed, for the properties only:
  observed,    \* the last event of each nested task
  due          \* the report that was captured when the last result was read

reducer == <<active, result, draft>>
history == <<observed, due>>
vars == <<role, at, link, active, result, captured, draft, held, raised,
          announced, observed, due>>

Texts   == Reports \cup {NoReport}
Places  == {"setup", "reading", "settling", "disconnecting", "over"}
Failures == {"sdk_error", "model_unavailable"}

Result   == [n : 1..MaxResults, error : BOOLEAN, text : Texts]
NoResult == [n |-> 0, error |-> FALSE, text |-> NoReport]

(***************************************************************************)
(* CoderResult and AuditResult.  "completed" stands for the outcomes that  *)
(* a report may name (completed, partial, blocked); "partial" is the one   *)
(* given to a successful turn without a report.                            *)
(***************************************************************************)
Answer == [outcome  : {"completed", "partial", "failed"},
           report   : Texts,
           session  : BOOLEAN,
           nested   : {"none", "active", "settled", "unknown"},
           warnings : SUBSET {"unparseable", "nested_missing", "disconnect_failed"},
           errors   : SUBSET (Failures \cup {"result_missing", "disconnect_error"})]

NoAnswer == [outcome |-> "none", report |-> NoReport, session |-> FALSE,
             nested |-> "none", warnings |-> {}, errors |-> {}]

Failure(code) == [outcome |-> "failed", report |-> NoReport, session |-> FALSE,
                  nested |-> "none", warnings |-> {}, errors |-> {code}]

-----------------------------------------------------------------------------
(***************************************************************************)
(* The reducers.                                                           *)
(***************************************************************************)
NeedsSettlement(res, open) == res # NoResult /\ open # {}

NestedState_Optimistic(res, open, expired) ==
  IF res = NoResult THEN (IF open = {} THEN "none" ELSE "active")
  ELSE IF open = {} \/ expired THEN "settled" ELSE "active"

NestedState(res, open, expired) ==
  IF res = NoResult THEN (IF open = {} THEN "none" ELSE "active")
  ELSE IF open = {} THEN "settled"
  ELSE IF expired THEN "unknown" ELSE "active"

\* The coder falls back to what the assistant said last, the auditor does not.
ReportOf(res, said) ==
  IF res.text = NoReport /\ role = "coder" THEN said ELSE res.text

OutcomeOf(res, report) ==
  IF res.error THEN "failed"
  ELSE IF report = NoReport THEN "partial" ELSE "completed"

WarningsOf_Misspelt(report, nested) ==
  {w \in {"unparseable", "nested_unknown"} :
     \/ w = "unparseable" /\ report = NoReport
     \/ w = "nested_unknown" /\ nested = "unknown"}

WarningsOf(report, nested) ==
  {w \in {"unparseable", "nested_missing"} :
     \/ w = "unparseable" /\ report = NoReport
     \/ w = "nested_missing" /\ nested = "unknown"}

\* finish of the two reducers.
Finish(res, open, said, expired) ==
  LET nested == NestedState(res, open, expired)
      report == ReportOf(res, said)
  IN  IF res = NoResult
      THEN [Failure("result_missing") EXCEPT !.nested = nested]
      ELSE [outcome  |-> OutcomeOf(res, report),
            report   |-> report,
            session  |-> TRUE,
            nested   |-> nested,
            warnings |-> WarningsOf(report, nested),
            errors   |-> {}]

-----------------------------------------------------------------------------
Init ==
  /\ role \in Roles
  /\ at = "setup" /\ link = "none"
  /\ active = {} /\ result = NoResult /\ draft = NoReport
  /\ captured = NoReport
  /\ held = NoAnswer /\ raised = "none" /\ announced = 0
  /\ observed = [t \in Tasks |-> "silent"] /\ due = NoReport

Reading == at \in {"reading", "settling"}

\* The try block is left with an answer, through the finally clause.
Answers(answer) == at' = "disconnecting" /\ held' = answer /\ UNCHANGED raised

\* It is left by an exception, which no except clause of run names.
Raises(exception) == at' = "disconnecting" /\ raised' = exception /\ UNCHANGED held

(***************************************************************************)
(* The factory makes the transport.  If it fails there is no transport to  *)
(* disconnect, and the finally clause has nothing to do.                   *)
(***************************************************************************)
OpenTransport ==
  /\ at = "setup" /\ link = "none"
  /\ link' = "open"
  /\ UNCHANGED <<role, at, captured, held, raised, announced, reducer, history>>

FactoryFails ==
  /\ at = "setup" /\ link = "none"
  /\ at' = "over"
  /\ \/ held' = Failure("sdk_error") /\ UNCHANGED raised
     \/ raised' = "error" /\ UNCHANGED held
  /\ UNCHANGED <<role, link, captured, announced, reducer, history>>

\* connect, available_models, select_model, on_initialized and send returned.
SetUp ==
  /\ at = "setup" /\ link = "open"
  /\ at' = "reading"
  /\ UNCHANGED <<role, link, captured, held, raised, announced, reducer, history>>

\* One of them did not: the SDK's errors and a missing model make an answer,
\* an error of the observer on_initialized and a cancellation do not.
SetUpFails ==
  /\ at = "setup" /\ link = "open"
  /\ \/ \E code \in Failures : Answers(Failure(code))
     \/ \E exception \in {"cancelled", "error"} : Raises(exception)
  /\ UNCHANGED <<role, link, captured, announced, reducer, history>>

(***************************************************************************)
(* An event has been applied.  In the settlement window the run answers as *)
(* soon as nothing is left to settle, else it reads on.                    *)
(***************************************************************************)
ReadOn ==
  IF at = "settling" /\ ~NeedsSettlement(result', active')
  THEN Answers(Finish(result', active', draft', FALSE))
  ELSE UNCHANGED <<at, held, raised>>

TaskStarted(t) ==
  /\ Reading
  /\ active' = active \cup {t}
  /\ observed' = [observed EXCEPT ![t] = "started"]
  /\ UNCHANGED <<role, link, result, captured, draft, announced, due>>
  /\ ReadOn

TaskTerminal(t) ==
  /\ Reading
  /\ active' = active \ {t}
  /\ observed' = [observed EXCEPT ![t] = "ended"]
  /\ UNCHANGED <<role, link, result, captured, draft, announced, due>>
  /\ ReadOn

\* Only a text that is a report can ever be used, and only by the coder.
AssistantText(report) ==
  /\ Reading
  /\ draft' = IF role = "coder" THEN report ELSE draft
  /\ UNCHANGED <<role, link, active, result, captured, announced, history>>
  /\ ReadOn

\* The tool submit_audit of an auditor; a payload that breaks the contract is
\* rejected and changes nothing.
SubmitAudit(report) ==
  /\ role = "auditor" /\ Reading
  /\ captured' = report
  /\ UNCHANGED <<role, at, link, held, raised, announced, reducer, history>>

TextOfResult_Fallback(text) == IF text # NoReport THEN text ELSE captured

\* The transport replaces the text of a result by the report submitted so far.
TextOfResult(text) == IF captured # NoReport THEN captured ELSE text

(***************************************************************************)
(* A ResultMessage.  The first one is announced and ends the first loop;   *)
(* one that arrives while nested tasks settle replaces it unannounced.     *)
(***************************************************************************)
Announced == IF at = "reading" THEN announced + 1 ELSE announced

AfterResult(res) ==
  \/ /\ NeedsSettlement(res, active)
     /\ at' = "settling"
     /\ UNCHANGED <<held, raised>>
  \/ /\ ~NeedsSettlement(res, active)
     /\ Answers(Finish(res, active, draft, FALSE))

ResultArrives(error, text) ==
  LET res == [n |-> result.n + 1, error |-> error, text |-> TextOfResult(text)]
  IN  /\ Reading
      /\ result.n < MaxResults
      /\ result' = res
      /\ announced' = Announced
      /\ due' = captured
      /\ AfterResult(res)
      /\ UNCHANGED <<role, link, active, captured, draft, observed>>

(***************************************************************************)
(* The stream ends: by itself, because the runtime exited (EOFError) or    *)
(* by any other error (an AdapterDiagnostic, which run turns into an       *)
(* answer of its own).  The settlement window ends by a timeout and by a   *)
(* cancellation as well; before it a cancellation leaves run.              *)
(***************************************************************************)
Expired == at = "settling"

Settled(expired) == Answers(Finish(result, active, draft, expired))

StreamEnds ==
  /\ Reading
  /\ Settled(Expired)
  /\ UNCHANGED <<role, link, captured, announced, reducer, history>>

StreamFails ==
  /\ Reading
  /\ Answers(Failure("sdk_error"))
  /\ UNCHANGED <<role, link, captured, announced, reducer, history>>

Interrupted_Raises(exception) ==
  /\ Reading
  /\ Raises(exception)
  /\ UNCHANGED <<role, link, captured, announced, reducer, history>>

Interrupted(exception) ==
  /\ Reading
  /\ IF at = "settling" THEN Settled(TRUE) ELSE Raises(exception)
  /\ UNCHANGED <<role, link, captured, announced, reducer, history>>

SettlementExpires ==
  /\ at = "settling"
  /\ Settled(TRUE)
  /\ UNCHANGED <<role, link, captured, announced, reducer, history>>

-----------------------------------------------------------------------------
Disconnected ==
  /\ at = "disconnecting"
  /\ at' = "over" /\ link' = "closed"
  /\ UNCHANGED <<role, captured, held, raised, announced, reducer, history>>

DisconnectNoted_WarnsOnly ==
  IF held = NoAnswer THEN Failure("disconnect_error")
  ELSE [held EXCEPT !.warnings = @ \cup {"disconnect_failed"}]

\* The finally clause amends the answer, or makes one if there is none; an
\* exception on its way out goes on all the same.
DisconnectNoted ==
  IF held = NoAnswer THEN Failure("disconnect_error")
  ELSE [held EXCEPT !.outcome = "failed",
                    !.warnings = @ \cup {"disconnect_failed"},
                    !.errors = @ \cup {"disconnect_error"}]

DisconnectFails ==
  /\ at = "disconnecting"
  /\ at' = "over" /\ link' = "failed"
  /\ held' = DisconnectNoted
  /\ UNCHANGED <<role, captured, raised, announced, reducer, history>>

CancelledInDisconnect ==
  /\ at = "disconnecting"
  /\ at' = "over" /\ link' = "failed" /\ raised' = "cancelled"
  /\ UNCHANGED <<role, captured, held, announced, reducer, history>>

Next ==
  \/ OpenTransport \/ FactoryFails \/ SetUp \/ SetUpFails
  \/ \E t \in Tasks : TaskStarted(t) \/ TaskTerminal(t)
  \/ \E report \in Reports : AssistantText(report) \/ SubmitAudit(report)
  \/ \E error \in BOOLEAN, text \in Texts : ResultArrives(error, text)
  \/ StreamEnds \/ StreamFails \/ SettlementExpires
  \/ \E exception \in {"cancelled", "eof"} : Interrupted(exception)
  \/ Disconnected \/ DisconnectFails \/ CancelledInDisconnect

Spec == Init /\ [][Next]_vars

-----------------------------------------------------------------------------
(***************************************************************************)
(* Properties.                                                             *)
(***************************************************************************)
\* Every variable has its type; in particular finish builds an answer for
\* every ledger and every way out of the loops (reducer.py, coder.py).
TypeOK ==
  /\ role \in Roles /\ at \in Places
  /\ link \in {"none", "open", "closed", "failed"}
  /\ active \subseteq Tasks
  /\ result \in Result \cup {NoResult}
  /\ captured \in Texts /\ draft \in Texts /\ due \in Texts
  /\ held \in Answer \cup {NoAnswer}
  /\ raised \in {"none", "cancelled", "eof", "error"}
  /\ announced \in 0..MaxResults
  /\ observed \in [Tasks -> {"silent", "started", "ended"}]

(***************************************************************************)
(* An answer with the SDK's result claims "settled" only if every nested   *)
(* task that was seen to start was seen to end, else it says "unknown" and *)
(* warns: "active" and "none" never reach a client with a result, whatever *)
(* way the settlement window ended (_nested_state and the calls of finish  *)
(* in _consume_result).                                                    *)
(***************************************************************************)
NestedStateIsHonest ==
  held.session =>
    /\ held.nested = IF \E t \in Tasks : observed[t] = "started"
                     THEN "unknown" ELSE "settled"
    /\ "nested_missing" \in held.warnings <=> held.nested = "unknown"

(***************************************************************************)
(* The observer hears of the first ResultMessage, once, and of no later    *)
(* one, so the supervisor's order of a result and a stop is that of the    *)
(* first result even if another replaces it (on_result).                   *)
(***************************************************************************)
AnnouncedOnce == announced = IF result = NoResult THEN 0 ELSE 1

(***************************************************************************)
(* Once the main result was announced, the run leaves its loops with an    *)
(* answer that carries it, also when the runtime exits, the window expires *)
(* or the task is cancelled while nested tasks settle; only an error of    *)
(* the stream replaces it (the except clauses of _consume_result).         *)
(***************************************************************************)
AnnouncedIsAnswered ==
  announced > 0 /\ ~Reading => held.session \/ "sdk_error" \in held.errors

(***************************************************************************)
(* A report that an auditor submitted before its last result is the one    *)
(* returned, whatever the result's own text says; a coder's chatter never  *)
(* replaces a report in its result (messages, finish).                     *)
(***************************************************************************)
SubmittedReportWins ==
  held.session =>
    /\ role = "auditor" /\ due # NoReport => held.report = due
    /\ role = "coder" /\ result.text # NoReport => held.report = result.text
    /\ "unparseable" \in held.warnings <=> held.report = NoReport

(***************************************************************************)
(* A run that is over has left no transport open behind its back: it tried *)
(* to disconnect the one it made, and if that failed it does not return an *)
(* answer that looks like a success (the finally clause of run).           *)
(***************************************************************************)
NoSilentLeak ==
  at = "over" =>
    /\ link # "open"
    /\ link = "failed" /\ raised = "none" =>
         held.outcome = "failed" /\ "disconnect_error" \in held.errors

(***************************************************************************)
(* The inductive invariant behind these properties.                        *)
(***************************************************************************)
LedgerIsObserved == active = {t \in Tasks : observed[t] = "started"}

\* Until the loops are left there is no answer; the first loop has no result,
\* the settlement window has one, and something left to settle.
PlacesAgree ==
  /\ at = "setup" \/ Reading => held = NoAnswer
  /\ at \in {"setup", "reading"} => result = NoResult
  /\ at = "settling" => NeedsSettlement(result, active)

DueIsTheText ==
  result # NoResult /\ role = "auditor" /\ due # NoReport => result.text = due

RunInv ==
  /\ TypeOK /\ LedgerIsObserved /\ PlacesAgree /\ DueIsTheText
  /\ NestedStateIsHonest /\ AnnouncedOnce /\ AnnouncedIsAnswered
  /\ SubmittedReportWins /\ NoSilentLeak
=============================================================================
