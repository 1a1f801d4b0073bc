------------------------ MODULE ForegroundRun_proofs ------------------------
(***************************************************************************)
(* Proofs about ForegroundRun: what a run returns is honest, for any       *)
(* nested tasks, any reports and any number of results.                    *)
(***************************************************************************)
EXTENDS ForegroundRun, TLAPS

\* A result that was received is none that was not.
LEMMA ResultsAreReal == NoResult \notin Result
BY RunAssumption DEF Result, NoResult

\* What finish returns (reducer.py, coder.py): it is an answer, it carries a
\* session exactly if there is a result, and then its report, its claim about
\* nested tasks and its warnings agree.
LEMMA FinishAnswers ==
  ASSUME role \in {"auditor", "coder"},
         NEW res \in Result \cup {NoResult}, NEW open, NEW said \in Texts,
         NEW expired \in BOOLEAN
  PROVE  LET answer == Finish(res, open, said, expired) IN
         /\ answer \in Answer
         /\ answer.session <=> res # NoResult
         /\ answer.session =>
              /\ answer.report = ReportOf(res, said)
              /\ answer.nested = NestedState(res, open, expired)
              /\ "unparseable" \in answer.warnings <=> answer.report = NoReport
              /\ "nested_missing" \in answer.warnings <=> answer.nested = "unknown"
<1> DEFINE nested == NestedState(res, open, expired)
           report == ReportOf(res, said)
<1>1. nested \in {"none", "active", "settled", "unknown"}
  BY DEF NestedState
<1>2. report \in Texts
  BY DEF ReportOf, Result, NoResult, Texts
<1>3. OutcomeOf(res, report) \in {"completed", "partial", "failed"}
  BY DEF OutcomeOf
<1>4. /\ WarningsOf(report, nested) \subseteq {"unparseable", "nested_missing"}
      /\ "unparseable" \in WarningsOf(report, nested) <=> report = NoReport
      /\ "nested_missing" \in WarningsOf(report, nested) <=> nested = "unknown"
  BY DEF WarningsOf
<1>5. CASE res = NoResult
  BY <1>1, <1>5 DEF Finish, Failure, NoAnswer, Answer, Texts, Failures
<1>6. CASE res # NoResult
  <2>1. Finish(res, open, said, expired) =
          [outcome |-> OutcomeOf(res, report), report |-> report, session |-> TRUE,
           nested |-> nested, warnings |-> WarningsOf(report, nested), errors |-> {}]
    BY <1>6 DEF Finish
  <2> QED BY <1>1, <1>2, <1>3, <1>4, <1>6, <2>1 DEF Answer
<1> QED BY <1>5, <1>6

\* A run leaves its loops with the answer of finish: the answer is honest if
\* the ledger is, and claims nothing that is still open.
LEMMA LeavingIsHonest ==
  ASSUME role \in {"auditor", "coder"}, role' = role,
         result' \in Result \cup {NoResult}, draft' \in Texts,
         NEW expired \in BOOLEAN, NeedsSettlement(result', active') => expired,
         at' = "disconnecting", held' = Finish(result', active', draft', expired),
         LedgerIsObserved', DueIsTheText', AnnouncedOnce'
  PROVE  /\ held' \in Answer /\ PlacesAgree' /\ NestedStateIsHonest'
         /\ AnnouncedIsAnswered' /\ SubmittedReportWins' /\ NoSilentLeak'
<1>1. /\ held' \in Answer
      /\ held'.session <=> result' # NoResult
      /\ held'.session =>
           /\ held'.report = ReportOf(result', draft')
           /\ held'.nested = NestedState(result', active', expired)
           /\ "unparseable" \in held'.warnings <=> held'.report = NoReport
           /\ "nested_missing" \in held'.warnings <=> held'.nested = "unknown"
  BY FinishAnswers
<1>2. PlacesAgree'
  BY DEF PlacesAgree, Reading
<1>3. NestedStateIsHonest'
  <2>1. active' = {} <=> ~ \E t \in Tasks : observed'[t] = "started"
    BY DEF LedgerIsObserved
  <2> QED BY <1>1, <2>1 DEF NestedStateIsHonest, NestedState, NeedsSettlement
<1>4. AnnouncedIsAnswered'
  BY <1>1 DEF AnnouncedIsAnswered, AnnouncedOnce
<1>5. SubmittedReportWins'
  BY <1>1 DEF SubmittedReportWins, ReportOf, DueIsTheText
<1>6. NoSilentLeak'
  BY DEF NoSilentLeak
<1> QED BY <1>1, <1>2, <1>3, <1>4, <1>5, <1>6

\* It leaves them, or the set-up, without the SDK's result.
LEMMA LeavingWithoutResult ==
  ASSUME at' \in {"disconnecting", "over"}, ~ held'.session,
         announced' > 0 => "sdk_error" \in held'.errors, NoSilentLeak'
  PROVE  /\ PlacesAgree' /\ NestedStateIsHonest'
         /\ AnnouncedIsAnswered' /\ SubmittedReportWins'
BY DEF PlacesAgree, Reading, NestedStateIsHonest, AnnouncedIsAnswered,
   SubmittedReportWins

\* While it reads, nothing is claimed.
LEMMA ReadingClaimsNothing ==
  ASSUME at' \in {"setup", "reading", "settling"}, held' = NoAnswer,
         at' # "settling" => result' = NoResult,
         at' = "settling" => NeedsSettlement(result', active'), AnnouncedOnce'
  PROVE  /\ PlacesAgree' /\ NestedStateIsHonest'
         /\ AnnouncedIsAnswered' /\ SubmittedReportWins' /\ NoSilentLeak'
BY DEF PlacesAgree, Reading, NestedStateIsHonest, AnnouncedIsAnswered,
   SubmittedReportWins, NoSilentLeak, NoAnswer, AnnouncedOnce

\* The initial states.
LEMMA InitRunInv == Init => RunInv
<1> SUFFICES ASSUME Init PROVE RunInv
  OBVIOUS
<1>1. TypeOK
  BY RunAssumption DEF Init, TypeOK, Places, Texts
<1> QED
  BY <1>1 DEF Init, RunInv, LedgerIsObserved, PlacesAgree, DueIsTheText,
     NestedStateIsHonest, AnnouncedOnce, AnnouncedIsAnswered,
     SubmittedReportWins, NoSilentLeak, Reading, NoAnswer

\* What one more event does to ledger, result and draft, before the loop goes
\* on: the facts that the lemmas above start from.
Applied ==
  /\ role \in {"auditor", "coder"} /\ role' = role
  /\ active' \subseteq Tasks
  /\ result' \in Result \cup {NoResult} /\ draft' \in Texts
  /\ captured' \in Texts /\ due' \in Texts
  /\ observed' \in [Tasks -> {"silent", "started", "ended"}]
  /\ announced' \in 0 .. MaxResults
  /\ raised' \in {"none", "cancelled", "eof", "error"}
  /\ link' \in {"none", "open", "closed", "failed"}
  /\ LedgerIsObserved' /\ DueIsTheText' /\ AnnouncedOnce'

LEMMA Leaves ==
  ASSUME Applied, RunInv, NEW expired \in BOOLEAN,
         NeedsSettlement(result', active') => expired,
         Answers(Finish(result', active', draft', expired))
  PROVE  RunInv'
<1>1. /\ held' \in Answer /\ PlacesAgree' /\ NestedStateIsHonest'
      /\ AnnouncedIsAnswered' /\ SubmittedReportWins' /\ NoSilentLeak'
  BY LeavingIsHonest DEF Applied, Answers
<1>2. TypeOK'
  BY <1>1, RunAssumption DEF Applied, RunInv, TypeOK, Answers, Places
<1> QED BY <1>1, <1>2 DEF RunInv, Applied

LEMMA ReadsOn ==
  ASSUME Applied, RunInv, at' \in {"setup", "reading", "settling"}, held' = held,
         at \in {"setup", "reading", "settling"},
         at' # "settling" => result' = NoResult,
         at' = "settling" => NeedsSettlement(result', active')
  PROVE  RunInv'
<1>1. held' = NoAnswer
  BY DEF RunInv, PlacesAgree, Reading
<1>2. /\ PlacesAgree' /\ NestedStateIsHonest'
      /\ AnnouncedIsAnswered' /\ SubmittedReportWins' /\ NoSilentLeak'
  BY <1>1, ReadingClaimsNothing DEF Applied
<1>3. TypeOK'
  BY <1>1 DEF Applied, RunInv, TypeOK, Places
<1> QED BY <1>2, <1>3 DEF RunInv, Applied

\* An event that leaves the result alone, in either loop.
LEMMA EventKeeps ==
  ASSUME Applied, RunInv, Reading, UNCHANGED result, ReadOn
  PROVE  RunInv'
<1>1. CASE at = "settling" /\ ~ NeedsSettlement(result', active')
  BY <1>1, Leaves DEF ReadOn
<1>2. CASE ~ (at = "settling" /\ ~ NeedsSettlement(result', active'))
  <2>1. UNCHANGED <<at, held, raised>>
    BY <1>2 DEF ReadOn
  <2>2. at # "settling" => result' = NoResult
    BY DEF RunInv, PlacesAgree, Reading
  <2> QED BY <1>2, <2>1, <2>2, ReadsOn DEF Reading
<1> QED BY <1>1, <1>2

\* What an action does that leaves the reducer and its history alone.
LEMMA AppliedByFrame ==
  ASSUME RunInv, UNCHANGED <<role, active, result, draft, announced, observed, due>>,
         captured' \in Texts, raised' \in {"none", "cancelled", "eof", "error"},
         link' \in {"none", "open", "closed", "failed"}
  PROVE  Applied
BY RunAssumption DEF Applied, RunInv, TypeOK, LedgerIsObserved, DueIsTheText, AnnouncedOnce

LEMMA EventsKeepRunInv ==
  ASSUME RunInv, role \in {"auditor", "coder"}
  PROVE  /\ \A t \in Tasks : TaskStarted(t) \/ TaskTerminal(t) => RunInv'
         /\ \A report \in Reports : AssistantText(report) \/ SubmitAudit(report) => RunInv'
<1>1. ASSUME NEW t \in Tasks, TaskStarted(t) PROVE RunInv'
  <2>1. LedgerIsObserved'
    BY <1>1 DEF TaskStarted, RunInv, TypeOK, LedgerIsObserved
  <2>2. Applied
    BY <1>1, <2>1 DEF Applied, TaskStarted, ReadOn, Answers, RunInv, TypeOK, DueIsTheText, AnnouncedOnce
  <2> QED BY <1>1, <2>2, EventKeeps DEF TaskStarted
<1>2. ASSUME NEW t \in Tasks, TaskTerminal(t) PROVE RunInv'
  <2>1. LedgerIsObserved'
    BY <1>2 DEF TaskTerminal, RunInv, TypeOK, LedgerIsObserved
  <2>2. Applied
    BY <1>2, <2>1 DEF Applied, TaskTerminal, ReadOn, Answers, RunInv, TypeOK, DueIsTheText, AnnouncedOnce
  <2> QED BY <1>2, <2>2, EventKeeps DEF TaskTerminal
<1>3. ASSUME NEW report \in Reports, AssistantText(report) PROVE RunInv'
  <2>1. Applied
    BY <1>3 DEF Applied, AssistantText, ReadOn, Answers, RunInv, TypeOK, DueIsTheText,
       AnnouncedOnce, LedgerIsObserved, history, Texts
  <2> QED BY <1>3, <2>1, EventKeeps DEF AssistantText
<1>4. ASSUME NEW report \in Reports, SubmitAudit(report) PROVE RunInv'
  <2>1. Applied
    BY <1>4, AppliedByFrame DEF SubmitAudit, reducer, history, Texts, RunInv, TypeOK
  <2> QED BY <1>4, <2>1, ReadsOn DEF SubmitAudit, Reading, reducer, RunInv, PlacesAgree
<1> QED BY <1>1, <1>2, <1>3, <1>4

\* A ResultMessage, the first one or one that replaces it.
LEMMA ResultKeepsRunInv ==
  ASSUME RunInv, role \in {"auditor", "coder"}, NEW error \in BOOLEAN, NEW text \in Texts,
         ResultArrives(error, text)
  PROVE  RunInv'
<1> DEFINE res == [n |-> result.n + 1, error |-> error, text |-> TextOfResult(text)]
<1>1. res \in Result /\ res # NoResult
  BY RunAssumption DEF ResultArrives, Result, NoResult, TextOfResult, RunInv, TypeOK, Texts
<1>2. Announced = 1
  BY DEF Announced, ResultArrives, Reading, RunInv, PlacesAgree, AnnouncedOnce, NeedsSettlement
<1>3. /\ result' = res /\ announced' = 1 /\ due' = captured /\ Reading
      /\ UNCHANGED <<role, link, active, captured, draft, observed>>
      /\ AfterResult(res)
  BY <1>2 DEF ResultArrives
<1>4. raised' = raised
  BY <1>3 DEF AfterResult, Answers
<1>5. DueIsTheText'
  BY <1>3 DEF DueIsTheText, TextOfResult
<1>6. Applied
  BY <1>1, <1>3, <1>4, <1>5, RunAssumption
  DEF Applied, RunInv, TypeOK, LedgerIsObserved, AnnouncedOnce
<1>7. CASE NeedsSettlement(res, active) /\ at' = "settling" /\ UNCHANGED <<held, raised>>
  BY <1>3, <1>6, <1>7, ReadsOn DEF Reading
<1>8. CASE ~ NeedsSettlement(res, active) /\ Answers(Finish(res, active, draft, FALSE))
  BY <1>3, <1>6, <1>8, Leaves
<1> QED BY <1>3, <1>7, <1>8 DEF AfterResult

\* The loops end without an event.
LEMMA EndsKeepRunInv ==
  ASSUME RunInv, role \in {"auditor", "coder"}
  PROVE  /\ StreamEnds \/ StreamFails \/ SettlementExpires => RunInv'
         /\ \A exception \in {"cancelled", "eof"} : Interrupted(exception) => RunInv'
<1>1. ASSUME NEW expired \in BOOLEAN, Settled(expired), NeedsSettlement(result, active) => expired,
             UNCHANGED <<role, link, captured, announced, reducer, history>>
      PROVE  RunInv'
  <2>1. Applied
    BY <1>1, AppliedByFrame DEF Settled, Answers, reducer, history, RunInv, TypeOK
  <2> QED BY <1>1, <2>1, Leaves DEF Settled, reducer
<1>2. NeedsSettlement(result, active) /\ Reading => at = "settling"
  BY DEF Reading, RunInv, PlacesAgree, NeedsSettlement
<1>3. ASSUME Answers(Failure("sdk_error")), NoSilentLeak',
             UNCHANGED <<role, link, captured, announced, reducer, history>>
      PROVE  RunInv'
  <2>1. Applied
    BY <1>3, AppliedByFrame DEF Answers, reducer, history, RunInv, TypeOK
  <2>2. PlacesAgree' /\ NestedStateIsHonest' /\ AnnouncedIsAnswered' /\ SubmittedReportWins'
    BY <1>3, LeavingWithoutResult DEF Answers, Failure
  <2>3. TypeOK'
    BY <1>3, <2>1 DEF Applied, RunInv, TypeOK, Answers, Failure, Answer, Texts, Failures, Places
  <2> QED BY <1>3, <2>1, <2>2, <2>3 DEF RunInv, Applied
<1>4. ASSUME StreamEnds PROVE RunInv'
  BY <1>1, <1>2, <1>4 DEF StreamEnds, Expired
<1>5. ASSUME SettlementExpires PROVE RunInv'
  BY <1>1, <1>5 DEF SettlementExpires
<1>6. ASSUME StreamFails PROVE RunInv'
  BY <1>3, <1>6 DEF StreamFails, NoSilentLeak, Answers
<1>7. ASSUME NEW exception \in {"cancelled", "eof"}, Interrupted(exception) PROVE RunInv'
  <2>1. CASE at = "settling"
    BY <1>1, <1>7, <2>1 DEF Interrupted
  <2>2. CASE at # "settling"
    <3>1. /\ at' = "disconnecting" /\ raised' = exception /\ held' = held
          /\ UNCHANGED <<role, link, captured, announced, reducer, history>>
      BY <1>7, <2>2 DEF Interrupted, Raises
    <3>2. result = NoResult /\ held = NoAnswer /\ announced = 0
      BY <1>7, <2>2 DEF Interrupted, Reading, RunInv, PlacesAgree, AnnouncedOnce
    <3>3. Applied
      BY <3>1, AppliedByFrame DEF reducer, history, RunInv, TypeOK
    <3>4. NoSilentLeak'
      BY <3>1 DEF NoSilentLeak
    <3>5. PlacesAgree' /\ NestedStateIsHonest' /\ AnnouncedIsAnswered' /\ SubmittedReportWins'
      BY <3>1, <3>2, <3>4, LeavingWithoutResult DEF NoAnswer
    <3>6. TypeOK'
      BY <3>1, <3>2, <3>3 DEF Applied, RunInv, TypeOK, Places
    <3> QED BY <3>3, <3>4, <3>5, <3>6 DEF RunInv, Applied
  <2> QED BY <2>1, <2>2
<1> QED BY <1>4, <1>5, <1>6, <1>7

\* The set-up: no result is there yet, so nothing can be claimed.
LEMMA SetUpKeepsRunInv ==
  ASSUME RunInv, OpenTransport \/ FactoryFails \/ SetUp \/ SetUpFails
  PROVE  RunInv'
<1>1. /\ at = "setup" /\ result = NoResult /\ held = NoAnswer /\ announced = 0
      /\ UNCHANGED <<role, captured, announced, reducer, history>>
  BY DEF OpenTransport, FactoryFails, SetUp, SetUpFails, RunInv, PlacesAgree, AnnouncedOnce
<1>2. /\ raised' \in {"none", "cancelled", "eof", "error"}
      /\ link' \in {"none", "open", "closed", "failed"}
      /\ held' \in Answer \cup {NoAnswer} /\ ~ held'.session
      /\ at' \in Places
  <2>1. \A code \in Failures : Failure(code) \in Answer /\ ~ Failure(code).session
    BY DEF Failure, Answer, Failures, Texts
  <2>2. ~ NoAnswer.session /\ "sdk_error" \in Failures
    BY DEF NoAnswer, Failures
  <2>3. CASE OpenTransport \/ SetUp
    BY <1>1, <2>2, <2>3 DEF OpenTransport, SetUp, RunInv, TypeOK, Places
  <2>4. CASE FactoryFails
    BY <1>1, <2>1, <2>2, <2>4 DEF FactoryFails, RunInv, TypeOK, Places
  <2>5. CASE SetUpFails
    BY <1>1, <2>1, <2>2, <2>5 DEF SetUpFails, Answers, Raises, RunInv, TypeOK, Places
  <2> QED BY <2>3, <2>4, <2>5
<1>3. Applied
  BY <1>1, <1>2, AppliedByFrame DEF reducer, history, RunInv, TypeOK
<1>4. CASE OpenTransport \/ SetUp
  BY <1>1, <1>3, <1>4, ReadsOn DEF OpenTransport, SetUp, reducer
<1>5. CASE FactoryFails \/ SetUpFails
  <2>1. at' \in {"disconnecting", "over"} /\ NoSilentLeak'
    BY <1>1, <1>5 DEF FactoryFails, SetUpFails, Answers, Raises, NoSilentLeak
  <2>2. PlacesAgree' /\ NestedStateIsHonest' /\ AnnouncedIsAnswered' /\ SubmittedReportWins'
    BY <1>1, <1>2, <2>1, LeavingWithoutResult
  <2>3. TypeOK'
    BY <1>1, <1>2, <1>3 DEF Applied, RunInv, TypeOK
  <2> QED BY <1>3, <2>1, <2>2, <2>3 DEF RunInv, Applied
<1> QED BY <1>4, <1>5

\* The finally clause keeps what the answer says, or has nothing to keep.
LEMMA DisconnectKeepsRunInv ==
  ASSUME RunInv, Disconnected \/ DisconnectFails \/ CancelledInDisconnect
  PROVE  RunInv'
<1>1. /\ at = "disconnecting" /\ at' = "over"
      /\ UNCHANGED <<role, captured, announced, reducer, history>>
  BY DEF Disconnected, DisconnectFails, CancelledInDisconnect
<1>2. /\ raised' \in {"none", "cancelled", "eof", "error"}
      /\ link' \in {"none", "open", "closed", "failed"}
  BY DEF Disconnected, DisconnectFails, CancelledInDisconnect, RunInv, TypeOK
<1>3. Applied
  BY <1>1, <1>2, AppliedByFrame DEF reducer, history, RunInv, TypeOK
<1>4. PlacesAgree'
  BY <1>1 DEF PlacesAgree, Reading
<1>5. /\ held' \in Answer \cup {NoAnswer}
      /\ held'.session = held.session /\ held'.report = held.report
      /\ held'.nested = held.nested
      /\ "unparseable" \in held'.warnings <=> "unparseable" \in held.warnings
      /\ "nested_missing" \in held'.warnings <=> "nested_missing" \in held.warnings
      /\ "sdk_error" \in held.errors => "sdk_error" \in held'.errors
      /\ DisconnectFails => held'.outcome = "failed" /\ "disconnect_error" \in held'.errors
  <2>1. CASE DisconnectFails
    <3>1. CASE held = NoAnswer
      BY <2>1, <3>1 DEF DisconnectFails, DisconnectNoted, NoAnswer, Failure, Answer, Texts
    <3>2. CASE held # NoAnswer
      <4>1. held \in Answer
        BY <3>2 DEF RunInv, TypeOK
      <4>2. held' = [held EXCEPT !.outcome = "failed",
                                 !.warnings = @ \cup {"disconnect_failed"},
                                 !.errors = @ \cup {"disconnect_error"}]
        BY <2>1, <3>2 DEF DisconnectFails, DisconnectNoted
      <4> QED BY <4>1, <4>2 DEF Answer
    <3> QED BY <3>1, <3>2
  <2>2. CASE ~ DisconnectFails
    BY <2>2 DEF Disconnected, CancelledInDisconnect, RunInv, TypeOK
  <2> QED BY <2>1, <2>2
<1>6. NestedStateIsHonest'
  BY <1>1, <1>5 DEF RunInv, NestedStateIsHonest, history
<1>7. AnnouncedIsAnswered'
  BY <1>1, <1>5 DEF RunInv, AnnouncedIsAnswered, Reading
<1>8. SubmittedReportWins'
  BY <1>1, <1>5 DEF RunInv, SubmittedReportWins, history, reducer
<1>9. NoSilentLeak'
  BY <1>1, <1>5 DEF NoSilentLeak, Disconnected, DisconnectFails, CancelledInDisconnect
<1>10. TypeOK'
  BY <1>1, <1>2, <1>3, <1>5 DEF Applied, RunInv, TypeOK, Places
<1> QED BY <1>3, <1>4, <1>6, <1>7, <1>8, <1>9, <1>10 DEF RunInv, Applied

\* Every step keeps the invariant.
LEMMA NextRunInv == RunInv /\ [Next]_vars => RunInv'
<1> SUFFICES ASSUME RunInv, [Next]_vars PROVE RunInv'
  OBVIOUS
<1>1. role \in {"auditor", "coder"}
  BY RunAssumption DEF RunInv, TypeOK
<1>2. CASE UNCHANGED vars
  BY <1>2 DEF vars, RunInv, TypeOK, LedgerIsObserved, PlacesAgree, Reading, DueIsTheText,
     NestedStateIsHonest, AnnouncedOnce, AnnouncedIsAnswered, SubmittedReportWins, NoSilentLeak
<1>3. CASE Next
  BY <1>1, <1>3, EventsKeepRunInv, ResultKeepsRunInv, EndsKeepRunInv, SetUpKeepsRunInv,
     DisconnectKeepsRunInv DEF Next
<1> QED BY <1>2, <1>3

\* The invariant holds in every state of every behaviour.
THEOREM RunInvariant == Spec => []RunInv
BY InitRunInv, NextRunInv, PTL DEF Spec

\* Every variable has its type.
THEOREM RunTypes == Spec => []TypeOK
BY RunInvariant, PTL DEF RunInv

\* What a run says of its nested tasks is honest, however the settlement ended.
THEOREM NestedStateHonest == Spec => []NestedStateIsHonest
BY RunInvariant, PTL DEF RunInv

\* An announced result comes out of the loops unless the stream itself fails.
THEOREM AnnouncedAnswered == Spec => []AnnouncedIsAnswered
BY RunInvariant, PTL DEF RunInv

\* A submitted report is the one that is returned.
THEOREM ReportWins == Spec => []SubmittedReportWins
BY RunInvariant, PTL DEF RunInv

\* No transport is left open without a word.
THEOREM LeaksAreReported == Spec => []NoSilentLeak
BY RunInvariant, PTL DEF RunInv
=============================================================================
