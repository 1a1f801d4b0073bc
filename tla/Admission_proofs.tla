-------------------------- MODULE Admission_proofs --------------------------
(***************************************************************************)
(* What Admission promises of answers and of choices, for all files, paths *)
(* and edits: nothing is granted before the policy agreed, an answer has   *)
(* the form of its question, an attempt runs with what the user's file and *)
(* the catalog allow, a verdict of the preflight holds, and two coders in  *)
(* one tree of directories are known to each other.                        *)
(***************************************************************************)
EXTENDS Admission, SequenceTheorems, TLAPS

\* What may be put before a person: a tool that the policy of the role allows,
\* a form or a link.
Askable(r) ==
  /\ r.kind = "tool" => PolicyAllows(r) /\ r.tool # Submit
  /\ r.kind = "elicitation" => r.mode # "other"

WaitingIsPermitted == Pending => Askable(request)

AskInv ==
  /\ request \in Requests \cup {NoRequest}
  /\ answer \in Responses \cup {NoAnswer}
  /\ request = NoRequest => answer = NoAnswer
  /\ WaitingIsPermitted
  /\ AnswersAreAllowed

\* Whoever refuses grants nothing.
LEMMA RefusalGrantsNothing ==
  ASSUME NEW r \in Requests
  PROVE  /\ Refusal(r) \in Responses
         /\ Refusal(r).action \notin {"allow", "accept"}
         /\ Refusal(r).content = "absent"
         /\ Refusal(r) # NoAnswer
BY DEF Refusal, Responses, NoAnswer

LEMMA RequestIsSome ==
  ASSUME NEW r \in Requests
  PROVE  r # NoRequest /\ r.kind \in {"tool", "elicitation"}
BY DEF Requests, NoRequest

LEMMA AskInit == Init => AskInv
BY DEF Init, AskInv, WaitingIsPermitted, AnswersAreAllowed, GrantsRespectPolicy, AnswersFit,
   Pending, NoAnswer, NoRequest

\* What else happens touches neither the question nor the role.
LEMMA AskUntouched ==
  ASSUME AskInv, UNCHANGED <<role, asking>>
  PROVE  AskInv'
BY DEF AskInv, WaitingIsPermitted, AnswersAreAllowed, GrantsRespectPolicy, AnswersFit,
   Pending, Askable, PolicyAllows, asking

\* An answer that refuses, whoever gives it.
LEMMA Refused ==
  ASSUME AskInv, UNCHANGED role,
         NEW r \in Requests, NEW by, request' = r, Decide(Refusal(r), by)
  PROVE  AskInv'
BY RefusalGrantsNothing, RequestIsSome
   DEF AskInv, WaitingIsPermitted, AnswersAreAllowed, GrantsRespectPolicy, AnswersFit,
   Pending, Decide

\* A question that the policy let through waits, or is refused after all.
LEMMA Asked ==
  ASSUME AskInv, UNCHANGED role,
         NEW r \in Requests, request' = r, AskSupervisor(r),
         Askable(r)
  PROVE  AskInv'
<1>1. CASE Decide(NoAnswer, "nobody")
  BY <1>1, RequestIsSome
     DEF AskInv, WaitingIsPermitted, AnswersAreAllowed, GrantsRespectPolicy, AnswersFit,
     Pending, Decide, NoAnswer, Askable, PolicyAllows
<1>2. CASE Decide(Refusal(r), "supervisor")
  BY <1>2, Refused
<1> QED  BY <1>1, <1>2 DEF AskSupervisor

LEMMA CanUseToolStep ==
  ASSUME AskInv, NEW r \in Requests, CanUseTool(r)
  PROVE  AskInv'
<1>1. UNCHANGED role /\ request' = r /\ r.kind = "tool"
  BY DEF CanUseTool, Asks, AskFrame, worker
<1>2. CASE Decide(Refusal(r), "policy")
  BY <1>1, <1>2, Refused
<1>3. CASE PolicyAllows(r) /\ r.tool = Submit /\ Decide(AllowedTool(r), "policy")
  <2>1. AllowedTool(r) \in Responses /\ AllowedTool(r).content = "absent"
    BY DEF AllowedTool, Responses
  <2>2. role = "auditor" /\ r.tool # "Write" /\ (r.nested => r.tool \notin {Submit, "Agent"})
    BY <1>3 DEF PolicyAllows, AuditorMayUse, Submit
  <2> QED
    BY <1>1, <1>3, <2>1, <2>2, RequestIsSome
       DEF AskInv, WaitingIsPermitted, AnswersAreAllowed, GrantsRespectPolicy, AnswersFit,
       Pending, Decide, AllowedTool, NoAnswer
<1>4. CASE PolicyAllows(r) /\ r.tool # Submit /\ AskSupervisor(r)
  BY <1>1, <1>4, Asked DEF Askable
<1> QED  BY <1>2, <1>3, <1>4 DEF CanUseTool

LEMMA OnElicitationStep ==
  ASSUME AskInv, NEW r \in Requests, OnElicitation(r)
  PROVE  AskInv'
<1>1. UNCHANGED role /\ request' = r /\ r.kind # "tool"
  BY DEF OnElicitation, Asks, AskFrame, worker
<1>2. CASE \E by \in {"policy", "supervisor"} : Decide(Refusal(r), by)
  BY <1>1, <1>2, Refused
<1>3. CASE r.mode # "other" /\ AskSupervisor(r)
  BY <1>1, <1>3, Asked DEF Askable
<1> QED  BY <1>2, <1>3 DEF OnElicitation

LEMMA RespondStep ==
  ASSUME AskInv, NEW response \in Responses, Respond(response)
  PROVE  AskInv'
<1>1. /\ UNCHANGED <<role, request>>
      /\ request \in Requests /\ Pending /\ Fits(request, response)
      /\ answer' = response /\ author' = "person"
  BY DEF Respond, AskFrame, worker, Decide, Pending, AskInv
<1>2. response # NoAnswer
  BY DEF Responses, NoAnswer
<1>3. CASE request.kind = "tool"
  <2>1. response.action \in {"allow", "deny"} /\ response.content = "absent"
    BY <1>1, <1>3 DEF Fits
  <2>2. role = "auditor" /\ request.tool # "Write"
        /\ (request.nested => request.tool \notin {Submit, "Agent"})
    BY <1>1, <1>3 DEF AskInv, WaitingIsPermitted, Askable, PolicyAllows, AuditorMayUse,
       VisibleTools, Submit
  <2> QED
    BY <1>1, <1>2, <1>3, <2>1, <2>2, RequestIsSome
       DEF AskInv, WaitingIsPermitted, AnswersAreAllowed, GrantsRespectPolicy, AnswersFit,
       Pending
<1>4. CASE request.kind = "elicitation"
  <2>1. request.mode \in {"form", "url"}
    BY <1>1, <1>4 DEF Requests, AskInv, WaitingIsPermitted, Askable
  <2>2. CASE response.action = "accept" /\ request.mode = "url"
    <3>1. response.content = "absent"
      BY <1>1, <1>4, <2>2 DEF Fits
    <3> QED
      BY <1>1, <1>2, <1>4, <3>1, RequestIsSome
         DEF AskInv, WaitingIsPermitted, AnswersAreAllowed, GrantsRespectPolicy, AnswersFit,
         Pending
  <2>3. CASE response.action = "accept" /\ request.mode = "form"
    <3>1. \/ response.content = "matching"
          \/ response.content = "mismatching" /\ request.schema = "none"
      BY <1>1, <1>4, <2>3 DEF Fits, Matches
    <3> QED
      BY <1>1, <1>2, <1>4, <2>3, <3>1, RequestIsSome
         DEF AskInv, WaitingIsPermitted, AnswersAreAllowed, GrantsRespectPolicy, AnswersFit,
         Pending
  <2>4. CASE response.action # "accept"
    <3>1. response.action \in {"decline", "cancel"} /\ response.content = "absent"
      BY <1>1, <1>4, <2>4 DEF Fits
    <3> QED
      BY <1>1, <1>2, <1>4, <3>1, RequestIsSome
         DEF AskInv, WaitingIsPermitted, AnswersAreAllowed, GrantsRespectPolicy, AnswersFit,
         Pending
  <2> QED  BY <2>1, <2>2, <2>3, <2>4
<1> QED  BY <1>1, <1>3, <1>4, RequestIsSome

LEMMA ExpireStep ==
  ASSUME AskInv, Expire
  PROVE  AskInv'
<1>1. request \in Requests /\ UNCHANGED <<role, request>>
  BY DEF Expire, AskFrame, worker, Pending, AskInv
<1> QED  BY <1>1, Refused DEF Expire

LEMMA AnsweredStep ==
  ASSUME AskInv, Answered
  PROVE  AskInv'
BY DEF Answered, AskFrame, worker, Decide, AskInv, WaitingIsPermitted, AnswersAreAllowed,
   GrantsRespectPolicy, AnswersFit, Pending, NoAnswer

LEMMA AskStep == AskInv /\ [Next]_vars => AskInv'
<1> SUFFICES ASSUME AskInv, [Next]_vars
             PROVE  AskInv'
  OBVIOUS
<1>1. CASE UNCHANGED vars
  BY <1>1, AskUntouched DEF vars, worker
<1>2. CASE Edit
  BY <1>2, AskUntouched DEF Edit, worker
<1>3. CASE Preflight
  BY <1>3, AskUntouched DEF Preflight, ReadConfig, ResolveRuntime, Control, HangUp,
     LoginStatus, ProbeFrame, worker
<1>4. CASE Create
  BY <1>4, AskUntouched DEF Create, ConflictFrame, worker
<1>5. CASE OtherChanges \/ \E path \in Paths : OtherSpawns(path)
  BY <1>5, AskUntouched DEF OtherChanges, OtherSpawns, ConflictFrame, worker
<1>6. CASE Construct
  BY <1>6, AskUntouched DEF Construct, worker
<1>7. CASE SetUpFails
  BY <1>7, AskUntouched DEF SetUpFails, worker
<1>8. CASE SelectModel
  BY <1>8, AskUntouched DEF SelectModel
<1>9. CASE Ask
  BY <1>9, CanUseToolStep, OnElicitationStep DEF Ask
<1>10. CASE \E response \in Responses : Respond(response)
  BY <1>10, RespondStep
<1>11. CASE Expire
  BY <1>11, ExpireStep
<1>12. CASE Answered
  BY <1>12, AnsweredStep
<1> QED
  BY <1>1, <1>2, <1>3, <1>4, <1>5, <1>6, <1>7, <1>8, <1>9, <1>10, <1>11, <1>12 DEF Next

(***************************************************************************)
(* Whatever the role, the policies and the order of questions, answers and *)
(* ends of attempts, what the SDK is told is what policy and person agreed *)
(* to (can_use_tool, on_elicitation, respond).                             *)
(***************************************************************************)
THEOREM AnswersStayAllowed == Spec => []AnswersAreAllowed
<1>1. AskInv => AnswersAreAllowed
  BY DEF AskInv
<1> QED  BY <1>1, AskInit, AskStep, PTL DEF Spec

-----------------------------------------------------------------------------
LEMMA RankIsANumber == \A mode \in DOMAIN Rank : Rank[mode] \in 0 .. 2
BY DEF Rank

\* A project's file that is accepted narrows (load_config).
LEMMA LoadConfigNarrows ==
  ASSUME NEW user \in UserConfigs, NEW project \in Projects,
         LoadConfig(user, project).ok, ~ user.expansion
  PROVE  LET loaded == LoadConfig(user, project) IN
         /\ Rank[loaded.policy.mode] <= Rank[user.policy.mode]
         /\ user.policy.denied \subseteq loaded.policy.denied
<1> DEFINE candidate == Apply(user.policy, project)
<1>1. LoadConfig(user, project) # Invalid
  BY DEF Invalid
<1>2. user.ok /\ project.ok /\ ~ Expands(user.policy, candidate)
  BY <1>1 DEF LoadConfig
<1>3. user # Invalid /\ project # Invalid
  BY <1>2 DEF Invalid
<1>4. /\ user \in [ok : {TRUE}, expansion : BOOLEAN, runtime : {"bundled", "custom"},
                  methods : SUBSET {"service_account", "qodercli"},
                  policy : [mode : DOMAIN Rank, denied : SUBSET STRING]]
      /\ project \in [ok : {TRUE}, mode : {Unset} \cup DOMAIN Rank, denied : SUBSET STRING]
  BY <1>3, FilesAssumption
<1>5. LoadConfig(user, project).policy = candidate
  BY <1>2, <1>4 DEF LoadConfig
<1>6. candidate.mode \in DOMAIN Rank
  BY <1>4 DEF Apply
<1> QED  BY <1>2, <1>4, <1>5, <1>6, RankIsANumber DEF Expands

LEMMA CandidatesAreThree ==
  /\ DOMAIN Candidates = 1 .. 3
  /\ \A i \in 1 .. 3 : Candidates[i] \in Models
  /\ Alias \notin Models /\ NoModel \notin Models
BY DEF Candidates, Models, Alias, NoModel

\* The least of some indices.
LEMMA FirstOfIsFirst ==
  ASSUME NEW indices \in SUBSET (1 .. 3), indices # {}
  PROVE  FirstOf(indices) \in indices /\ \A j \in indices : FirstOf(indices) <= j
<1>1. \E i \in indices : \A j \in indices : i <= j
  <2>1. CASE 1 \in indices
    BY <2>1
  <2>2. CASE 1 \notin indices /\ 2 \in indices
    BY <2>2
  <2>3. CASE 1 \notin indices /\ 2 \notin indices
    <3>1. \A j \in indices : j = 3
      BY <2>3
    <3>2. PICK i \in indices : TRUE
      OBVIOUS
    <3>3. i = 3
      BY <3>1
    <3> QED  BY <3>1, <3>3
  <2> QED  BY <2>1, <2>2, <2>3
<1> QED  BY <1>1, Zenon DEF FirstOf

\* An exact model or nothing; an alias's first enabled candidate or nothing.
LEMMA ResolveModelIsAllowed ==
  ASSUME NEW asked \in Models \cup {Alias},
         NEW listed \in [Models -> {"absent", "disabled", "enabled"}]
  PROVE  LET places == {i \in DOMAIN Candidates : listed[Candidates[i]] = "enabled"}
             found  == ResolveModel(asked, listed)
         IN  /\ found # NoModel =>
                  /\ listed[found] = "enabled"
                  /\ asked # Alias => found = asked
                  /\ asked = Alias => \E i \in places :
                       Candidates[i] = found /\ \A j \in places : i <= j
             /\ found = NoModel =>
                  IF asked = Alias THEN places = {} ELSE listed[asked] # "enabled"
<1> DEFINE places == {i \in DOMAIN Candidates : listed[Candidates[i]] = "enabled"}
<1>1. {i \in DOMAIN Candidates : Candidates[i] \in Enabled(listed)} = places
  BY CandidatesAreThree DEF Enabled
<1>2. CASE asked = Alias /\ places # {}
  <2>1. FirstOf(places) \in places /\ \A j \in places : FirstOf(places) <= j
    BY <1>2, FirstOfIsFirst, CandidatesAreThree
  <2>2. ResolveModel(asked, listed) = Candidates[FirstOf(places)]
    BY <1>1, <1>2 DEF ResolveModel
  <2> QED  BY <1>2, <2>1, <2>2, CandidatesAreThree
<1>3. CASE asked = Alias /\ places = {}
  BY <1>1, <1>3 DEF ResolveModel
<1>4. CASE asked # Alias
  BY <1>4, CandidatesAreThree DEF ResolveModel, Enabled
<1> QED  BY <1>2, <1>3, <1>4

ChoiceInv ==
  /\ files \in [user      : UserConfigs \cup {NoConfig},
                project   : Projects \cup {NoConfig},
                installed : SUBSET {"bundled", "custom"}]
  /\ ChoicesAreAllowed

LEMMA ChoiceInit == Init => ChoiceInv
BY DEF Init, ChoiceInv, ChoicesAreAllowed, PoliciesOnlyNarrow, ModelIsAllowed

\* Steps that make no choice: the stage stays, or is one of which nothing is said.
LEMMA NothingChosen ==
  ASSUME ChoiceInv, UNCHANGED <<files, role, requested, transport, choice>>,
         stage' \in {stage} \cup (Stages \ {"constructed", "ready", "no_model"})
  PROVE  ChoiceInv'
BY DEF ChoiceInv, ChoicesAreAllowed, PoliciesOnlyNarrow, ModelIsAllowed, transport, choice

LEMMA EditStep ==
  ASSUME ChoiceInv, Edit
  PROVE  ChoiceInv'
<1>1. files' \in [user      : UserConfigs \cup {NoConfig},
                  project   : Projects \cup {NoConfig},
                  installed : SUBSET {"bundled", "custom"}]
  BY DEF ChoiceInv, Edit
<1>2. UNCHANGED <<stage, role, requested, transport, choice>>
  BY DEF Edit, worker
<1> QED
  BY <1>1, <1>2 DEF ChoiceInv, ChoicesAreAllowed, PoliciesOnlyNarrow, ModelIsAllowed,
     transport, choice

\* A coder's options are those of a configuration that was just read.
LEMMA ConstructStep ==
  ASSUME ChoiceInv, Construct
  PROVE  ChoiceInv'
<1> DEFINE loaded == LoadConfig(files.user, files.project)
<1>1. UNCHANGED <<files, role, requested, choice>> /\ stage' \in {"constructed", "unusable"}
  BY DEF Construct, MovesTo, worker, world
<1>2. CASE stage' = "unusable"
  BY <1>1, <1>2
     DEF ChoiceInv, ChoicesAreAllowed, PoliciesOnlyNarrow, ModelIsAllowed, choice
<1>3. CASE stage' = "constructed"
  <2>1. loaded.ok /\ options' = OptionsFor(loaded) /\ basis' = files.user
    BY <1>3 DEF Construct, MovesTo
  <2>2. files.user # NoConfig /\ files.project # NoConfig
    BY <2>1 DEF LoadConfig, NoConfig, Invalid
  <2>3. files.user \in UserConfigs /\ files.project \in Projects
    BY <2>2 DEF ChoiceInv
  <2>4. role = "coder" =>
          options'.mode = loaded.policy.mode /\ options'.denied = loaded.policy.denied
    BY <2>1 DEF OptionsFor
  <2>5. PoliciesOnlyNarrow'
    BY <1>1, <2>1, <2>3, <2>4, LoadConfigNarrows DEF PoliciesOnlyNarrow
  <2> QED
    BY <1>1, <1>3, <2>5 DEF ChoiceInv, ChoicesAreAllowed, ModelIsAllowed, choice
<1> QED  BY <1>1, <1>2, <1>3

LEMMA SelectModelStep ==
  ASSUME SelectModel
  PROVE  ChoiceInv'
<1>1. PICK models \in [Models -> {"absent", "disabled", "enabled"}], m \in Models \cup {Alias} :
        /\ stage' = IF ResolveModel(m, models) = NoModel THEN "no_model" ELSE "ready"
        /\ requested' = m /\ catalog' = models /\ model' = ResolveModel(m, models)
        /\ files' = [user |-> NoConfig, project |-> NoConfig, installed |-> {}]
  BY DEF SelectModel, MovesTo
<1>2. ModelIsAllowed'
  BY <1>1, ResolveModelIsAllowed DEF ModelIsAllowed
<1> QED
  BY <1>1, <1>2 DEF ChoiceInv, ChoicesAreAllowed, PoliciesOnlyNarrow

LEMMA ChoiceStep == ChoiceInv /\ [Next]_vars => ChoiceInv'
<1> SUFFICES ASSUME ChoiceInv, [Next]_vars
             PROVE  ChoiceInv'
  OBVIOUS
<1>1. CASE UNCHANGED vars
  BY <1>1, NothingChosen DEF vars, worker, world
<1>2. CASE Edit
  BY <1>2, EditStep
<1>3. CASE Preflight
  <2>1. UNCHANGED <<files, role, requested, transport, choice>>
    BY <1>3 DEF Preflight, ReadConfig, ResolveRuntime, Control, HangUp, LoginStatus,
       ProbeFrame, worker, world
  <2>2. stage' \in Stages \ {"constructed", "ready", "no_model"}
    BY <1>3 DEF Preflight, ReadConfig, ResolveRuntime, Control, HangUp, LoginStatus,
       MovesTo, Stages
  <2> QED  BY <2>1, <2>2, NothingChosen
<1>4. CASE Create
  BY <1>4, NothingChosen DEF Create, MovesTo, ConflictFrame, worker, world, Stages
<1>5. CASE OtherChanges \/ \E path \in Paths : OtherSpawns(path)
  BY <1>5, NothingChosen DEF OtherChanges, OtherSpawns, ConflictFrame, worker, world
<1>6. CASE Construct
  BY <1>6, ConstructStep
<1>7. CASE SetUpFails
  BY <1>7, NothingChosen DEF SetUpFails, MovesTo, worker, world, Stages
<1>8. CASE SelectModel
  BY <1>8, SelectModelStep
<1>9. CASE Ask \/ (\E response \in Responses : Respond(response)) \/ Expire \/ Answered
  BY <1>9, NothingChosen DEF Ask, CanUseTool, OnElicitation, Respond, Expire, Answered,
     AskFrame, worker, world
<1> QED
  BY <1>1, <1>2, <1>3, <1>4, <1>5, <1>6, <1>7, <1>8, <1>9 DEF Next

(***************************************************************************)
(* Whatever the files say and whenever they change, a coder runs with no   *)
(* more rights than the user's own file gave it, and every attempt with    *)
(* the model it asked for (load_config, resolve_model).                    *)
(***************************************************************************)
THEOREM ChoicesStayAllowed == Spec => []ChoicesAreAllowed
<1>1. ChoiceInv => ChoicesAreAllowed
  BY DEF ChoiceInv
<1> QED  BY <1>1, ChoiceInit, ChoiceStep, PTL DEF Spec

(***************************************************************************)
(* Preflight.                                                              *)
(***************************************************************************)
\* While nothing was edited, the configuration of the preflight is that of the
\* files; from the control connection on, its credentials and runtime work.
ConfigIsCurrent ==
  stage \in {"runtime", "control", "hangup", "accepted", "created", "constructed"} =>
    config = LoadConfig(files.user, files.project) /\ config.ok

RuntimeIsChecked ==
  stage \in {"control", "hangup", "accepted", "created", "constructed"} =>
    /\ auth = SelectAuth(config, token) /\ auth # NoAuth
    /\ config.runtime \in files.installed

PreflightInv ==
  /\ fresh /\ ~ edited => ConfigIsCurrent /\ RuntimeIsChecked
  /\ PreflightIsSound

LEMMA PreflightInit == Init => PreflightInv
BY DEF Init, PreflightInv, ConfigIsCurrent, RuntimeIsChecked, PreflightIsSound,
   PreflightVouches, ProbeIsClosed

\* Steps that leave what the preflight saw as it is.
LEMMA VerdictStays ==
  ASSUME PreflightInv, UNCHANGED <<fresh, token, edited, files, config, auth, client, transport>>,
         \/ stage' = stage
         \/ stage' \in {"refused", "failed"} /\ client # "open"
         \/ stage = "accepted" /\ stage' = "created"
  PROVE  PreflightInv'
BY DEF PreflightInv, ConfigIsCurrent, RuntimeIsChecked, PreflightIsSound, PreflightVouches,
   ProbeIsClosed, transport

LEMMA ReadConfigStep ==
  ASSUME PreflightInv, ReadConfig
  PROVE  PreflightInv'
<1>1. /\ UNCHANGED <<fresh, token, edited, files, auth, client, transport>>
      /\ stage = "start"
      /\ \/ stage' = "refused"
         \/ /\ stage' = "runtime" /\ config' = LoadConfig(files.user, files.project)
            /\ config'.ok
  BY DEF ReadConfig, MovesTo, ProbeFrame, worker, world
<1> QED
  BY <1>1 DEF PreflightInv, ConfigIsCurrent, RuntimeIsChecked, PreflightIsSound,
     PreflightVouches, ProbeIsClosed, transport

LEMMA ResolveRuntimeStep ==
  ASSUME PreflightInv, ResolveRuntime
  PROVE  PreflightInv'
<1>1. /\ UNCHANGED <<fresh, token, edited, files, config, transport>>
      /\ stage = "runtime"
      /\ \/ stage' = "refused" /\ client' = client
         \/ /\ stage' = "control" /\ client' = "open"
            /\ auth' = SelectAuth(config, token) /\ auth' # NoAuth
            /\ config.runtime \in files.installed
  BY DEF ResolveRuntime, MovesTo, ProbeFrame, worker, world
<1> QED
  BY <1>1 DEF PreflightInv, ConfigIsCurrent, RuntimeIsChecked, PreflightIsSound,
     PreflightVouches, ProbeIsClosed, transport

LEMMA ConnectionStep ==
  ASSUME PreflightInv, Control \/ HangUp \/ LoginStatus
  PROVE  PreflightInv'
<1>1. UNCHANGED <<fresh, token, edited, files, config, auth, transport>>
  BY DEF Control, HangUp, LoginStatus, ProbeFrame, probe, worker, world
<1>2. CASE Control
  BY <1>1, <1>2 DEF Control, MovesTo, PreflightInv, ConfigIsCurrent, RuntimeIsChecked,
     PreflightIsSound, PreflightVouches, ProbeIsClosed, transport
<1>3. CASE HangUp
  <2>1. /\ stage = "hangup" /\ client' # "open"
        /\ \/ stage' = "accepted" /\ client' = "closed"
           \/ stage' \in {"status", "refused"}
    BY <1>3 DEF HangUp, MovesTo, DisconnectFailed
  <2> QED
    BY <1>1, <2>1 DEF PreflightInv, ConfigIsCurrent, RuntimeIsChecked, PreflightIsSound,
       PreflightVouches, ProbeIsClosed, transport
<1>4. CASE LoginStatus
  BY <1>1, <1>4 DEF LoginStatus, MovesTo, probe, PreflightInv, ConfigIsCurrent,
     RuntimeIsChecked, PreflightIsSound, PreflightVouches, ProbeIsClosed, transport
<1> QED  BY <1>2, <1>3, <1>4

\* The second reading of files and environment comes to the verdict of the first.
LEMMA SecondReadingStep ==
  ASSUME PreflightInv, Construct
  PROVE  PreflightInv'
<1> DEFINE loaded == LoadConfig(files.user, files.project)
<1>1. /\ UNCHANGED <<fresh, token, edited, files, config, auth, client>>
      /\ stage = "created" /\ stage' \in {"constructed", "unusable"}
      /\ stage' = "constructed" => options' = OptionsFor(loaded)
      /\ loaded.ok /\ SelectAuth(loaded, token) # NoAuth /\ loaded.runtime \in files.installed
           => stage' = "constructed"
  BY DEF Construct, MovesTo, probe, worker, world, RuntimeOf
<1>2. fresh /\ ~ edited =>
        /\ config = loaded /\ config.ok /\ config.runtime \in files.installed
        /\ auth = SelectAuth(loaded, token) /\ auth # NoAuth
  BY <1>1 DEF PreflightInv, ConfigIsCurrent, RuntimeIsChecked
<1>3. OptionsFor(loaded).auth = SelectAuth(loaded, token)
      /\ OptionsFor(loaded).runtime = loaded.runtime
  BY DEF OptionsFor, RuntimeOf
<1>4. PreflightVouches'
  BY <1>1, <1>2, <1>3 DEF PreflightVouches
<1> QED
  BY <1>1, <1>2, <1>4 DEF PreflightInv, ConfigIsCurrent, RuntimeIsChecked, PreflightIsSound,
     ProbeIsClosed

LEMMA PreflightStep == PreflightInv /\ [Next]_vars => PreflightInv'
<1> SUFFICES ASSUME PreflightInv, [Next]_vars
             PROVE  PreflightInv'
  OBVIOUS
<1>1. CASE UNCHANGED vars
  BY <1>1, VerdictStays DEF vars, worker, world, probe
<1>2. CASE Edit
  <2>1. /\ UNCHANGED <<fresh, token, stage, config, auth, client, transport>>
        /\ edited' = (edited \/ stage # "start") /\ stage # "constructed"
    BY <1>2 DEF Edit, worker, probe
  <2> QED
    BY <2>1 DEF PreflightInv, ConfigIsCurrent, RuntimeIsChecked, PreflightIsSound,
       PreflightVouches, ProbeIsClosed, transport
<1>3. CASE Preflight
  BY <1>3, ReadConfigStep, ResolveRuntimeStep, ConnectionStep DEF Preflight
<1>4. CASE Create
  <2>1. UNCHANGED <<fresh, token, edited, files, config, auth, client, transport>>
    BY <1>4 DEF Create, ConflictFrame, worker, world, probe
  <2>2. stage = "accepted" /\ stage' \in {"created", "refused"}
    BY <1>4 DEF Create, MovesTo
  <2>3. client # "open"
    BY <2>2 DEF PreflightInv, PreflightIsSound, ProbeIsClosed
  <2> QED  BY <2>1, <2>2, <2>3, VerdictStays
<1>5. CASE OtherChanges \/ \E path \in Paths : OtherSpawns(path)
  BY <1>5, VerdictStays DEF OtherChanges, OtherSpawns, ConflictFrame, worker, world, probe
<1>6. CASE Construct
  BY <1>6, SecondReadingStep
<1>7. CASE SetUpFails
  <2>1. client # "open"
    BY <1>7 DEF SetUpFails, MovesTo, PreflightInv, PreflightIsSound, ProbeIsClosed
  <2> QED
    BY <1>7, <2>1, VerdictStays DEF SetUpFails, MovesTo, worker, world, probe
<1>8. CASE SelectModel
  <2>1. stage' \in {"no_model", "ready"} /\ client' = "none"
    BY <1>8 DEF SelectModel, MovesTo
  <2> QED
    BY <2>1 DEF PreflightInv, ConfigIsCurrent, RuntimeIsChecked, PreflightIsSound,
       PreflightVouches, ProbeIsClosed
<1>9. CASE Ask \/ (\E response \in Responses : Respond(response)) \/ Expire \/ Answered
  BY <1>9, VerdictStays DEF Ask, CanUseTool, OnElicitation, Respond, Expire, Answered,
     AskFrame, worker, world, probe
<1> QED
  BY <1>1, <1>2, <1>3, <1>4, <1>5, <1>6, <1>7, <1>8, <1>9 DEF Next

(***************************************************************************)
(* Unless a file or a runtime changed after the preflight read them, the   *)
(* transport of a spawned worker is made, and with the credentials and the *)
(* runtime that the preflight accepted; and the preflight's connection is  *)
(* closed by then (create_default_transport, initialize).                  *)
(***************************************************************************)
THEOREM PreflightStaysSound == Spec => []PreflightIsSound
<1>1. PreflightInv => PreflightIsSound
  BY DEF PreflightInv
<1> QED  BY <1>1, PreflightInit, PreflightStep, PTL DEF Spec

-----------------------------------------------------------------------------
(***************************************************************************)
(* Two coders in one tree of directories.                                  *)
(***************************************************************************)
Related(a, b) == a = b \/ b \in Parents(a) \/ a \in Parents(b)

LEMMA ParentsArePaths ==
  ASSUME NEW d \in Seq(STRING), NEW a \in Parents(d)
  PROVE  /\ a \in Seq(STRING) /\ Len(a) \in 0 .. Len(d) - 1
         /\ \A i \in 1 .. Len(a) : a[i] = d[i]
<1>1. PICK n \in 0 .. Len(d) - 1 : a = SubSeq(d, 1, n)
  BY DEF Parents
<1>2. n \in Int /\ 1 \in Int /\ \A i \in 1 .. n : d[i] \in STRING
  OBVIOUS
<1>3. /\ SubSeq(d, 1, n) \in Seq(STRING)
      /\ Len(SubSeq(d, 1, n)) = IF 1 <= n THEN n - 1 + 1 ELSE 0
      /\ \A i \in 1 .. n - 1 + 1 : SubSeq(d, 1, n)[i] = d[1 + i - 1]
  BY <1>2, SubSeqProperties
<1>4. Len(a) = n
  BY <1>1, <1>3
<1> QED BY <1>1, <1>3, <1>4

\* A path that agrees with a longer one is above it.
LEMMA ShorterIsParent ==
  ASSUME NEW a \in Seq(STRING), NEW b \in Seq(STRING), Len(a) < Len(b),
         \A i \in 1 .. Len(a) : a[i] = b[i]
  PROVE  a \in Parents(b)
<1> DEFINE n == Len(a)  c == SubSeq(b, 1, n)
<1>1. n \in Int /\ 1 \in Int /\ n \in 0 .. Len(b) - 1 /\ \A i \in 1 .. n : b[i] \in STRING
  OBVIOUS
<1>2. /\ c \in Seq(STRING)
      /\ Len(c) = IF 1 <= n THEN n - 1 + 1 ELSE 0
      /\ \A i \in 1 .. n - 1 + 1 : c[i] = b[1 + i - 1]
  BY <1>1, SubSeqProperties
<1>3. Len(c) = Len(a) /\ \A i \in 1 .. Len(a) : a[i] = c[i]
  BY <1>1, <1>2
<1> HIDE DEF c
<1>4. a = c
  BY <1>2, <1>3, SeqEqual
<1> QED BY <1>1, <1>4 DEF Parents, c

\* Two workspaces have a directory in common exactly if one lies in the other: what
\* _shared_workspace_warnings looks at is all that there is to look at.
LEMMA RelatedIfShared ==
  ASSUME NEW a \in Paths, NEW b \in Paths
  PROVE  (\E d \in Paths : Contains(a, d) /\ Contains(b, d)) <=> Related(a, b)
<1>0. /\ a \in Seq(STRING) /\ b \in Seq(STRING)
      /\ \A d \in Paths : d \in Seq(STRING)
  BY PathsAssumption
<1>1. ASSUME Related(a, b)
      PROVE  \E d \in Paths : Contains(a, d) /\ Contains(b, d)
  BY <1>1 DEF Related, Contains
<1>2. ASSUME NEW d \in Paths, Contains(a, d), Contains(b, d)
      PROVE  Related(a, b)
  <2>1. CASE a = d \/ b = d
    BY <1>2, <2>1 DEF Contains, Related
  <2>2. CASE a \in Parents(d) /\ b \in Parents(d)
    <3>1. /\ Len(a) \in 0 .. Len(d) - 1 /\ \A i \in 1 .. Len(a) : a[i] = d[i]
          /\ Len(b) \in 0 .. Len(d) - 1 /\ \A i \in 1 .. Len(b) : b[i] = d[i]
      BY <1>0, <2>2, ParentsArePaths
    <3>2. CASE Len(a) = Len(b)
      <4>1. \A i \in 1 .. Len(a) : a[i] = b[i]
        BY <3>1, <3>2
      <4> QED BY <1>0, <3>2, <4>1, SeqEqual DEF Related
    <3>3. CASE Len(a) < Len(b)
      <4>1. \A i \in 1 .. Len(a) : a[i] = b[i]
        BY <3>1, <3>3
      <4> QED BY <1>0, <3>3, <4>1, ShorterIsParent DEF Related
    <3>4. CASE Len(b) < Len(a)
      <4>1. \A i \in 1 .. Len(b) : b[i] = a[i]
        BY <3>1, <3>4
      <4> QED BY <1>0, <3>4, <4>1, ShorterIsParent DEF Related
    <3> QED BY <3>1, <3>2, <3>3, <3>4
  <2> QED BY <1>2, <2>1, <2>2 DEF Contains
<1> QED BY <1>1, <1>2

LEMMA RelationTells ==
  ASSUME NEW a, NEW b
  PROVE  Relation(a, b) # Apart <=> Related(a, b)
BY DEF Relation, Related, Apart

\* Before the worker exists nobody was warned of it, and without another coder
\* it was not warned itself.
BeforeCreation == {"start", "runtime", "control", "hangup", "accepted"}

ConflictInv ==
  /\ cwd \in Paths /\ warned \in BOOLEAN
  /\ other \in {NoOther} \cup [at : {"live", "vanished", "over"}, cwd : Paths, warned : BOOLEAN]
  /\ stage \in BeforeCreation => ~ warned /\ (other # NoOther => ~ other.warned)
  /\ other = NoOther => ~ warned
  /\ fresh /\ role = "coder" /\ stage \in LiveStages /\ other.at = "live" =>
       (Related(cwd, other.cwd) <=> warned \/ other.warned)

LEMMA ConflictInit == Init => ConflictInv
BY DEF Init, ConflictInv, NoOther, LiveStages, BeforeCreation

\* Steps to which the other coder does not matter.
LEMMA ConflictsUntouched ==
  ASSUME ConflictInv, UNCHANGED <<role, fresh, cwd, conflicts>>,
         \/ stage' = stage
         \/ stage \in BeforeCreation /\ stage' \notin LiveStages
         \/ stage' \notin BeforeCreation \cup LiveStages
         \/ stage \in LiveStages /\ stage' \in LiveStages
  PROVE  ConflictInv'
BY DEF ConflictInv, conflicts, BeforeCreation, LiveStages

LEMMA CreateKeepsConflicts ==
  ASSUME ConflictInv, Create
  PROVE  ConflictInv'
<1> DEFINE looks == role = "coder" /\ other.at \in {"live", "vanished"}
<1>1. /\ stage = "accepted" /\ UNCHANGED <<role, fresh, cwd, other>>
      /\ \/ stage' = "refused" /\ warned' = warned
         \/ stage' = "created" /\ warned' = (looks /\ Relation(cwd, other.cwd) # Apart)
  BY DEF Create, MovesTo, ConflictFrame, worker
<1>2. ~ warned /\ (other # NoOther => ~ other.warned)
  BY <1>1 DEF ConflictInv, BeforeCreation
<1>3. CASE stage' = "refused"
  BY <1>1, <1>3 DEF ConflictInv, LiveStages, BeforeCreation
<1>4. CASE stage' = "created"
  <2>1. warned' \in BOOLEAN /\ warned' = (looks /\ Related(cwd, other.cwd))
    BY <1>1, <1>4, RelationTells
  <2>2. other = NoOther => ~ looks
    BY DEF NoOther
  <2> QED BY <1>1, <1>2, <1>4, <2>1, <2>2 DEF ConflictInv, BeforeCreation
<1> QED BY <1>1, <1>3, <1>4

LEMMA OtherKeepsConflicts ==
  ASSUME ConflictInv, OtherChanges \/ \E path \in Paths : OtherSpawns(path)
  PROVE  ConflictInv'
<1>1. UNCHANGED <<role, fresh, cwd, stage, warned>>
  BY DEF OtherChanges, OtherSpawns, ConflictFrame, worker
<1>2. ASSUME NEW path \in Paths, OtherSpawns(path)
      PROVE  ConflictInv'
  <2> DEFINE told == stage \in LiveStages /\ role = "coder" /\ Relation(path, cwd) # Apart
  <2>1. other = NoOther /\ other' = [at |-> "live", cwd |-> path, warned |-> told]
    BY <1>2 DEF OtherSpawns
  <2>2. told <=> stage \in LiveStages /\ role = "coder" /\ Related(cwd, path)
    BY RelationTells DEF Related
  <2>3. ~ warned /\ other'.at = "live" /\ other'.cwd = path /\ other'.warned = told
    BY <2>1 DEF ConflictInv
  <2>4. stage \in BeforeCreation => stage \notin LiveStages
    BY DEF BeforeCreation, LiveStages
  <2>5. other' \in [at : {"live", "vanished", "over"}, cwd : Paths, warned : BOOLEAN]
    BY <2>1
  <2>6. other' # NoOther
    BY <2>3 DEF NoOther
  <2> HIDE DEF told
  <2> QED BY <1>1, <2>2, <2>3, <2>4, <2>5, <2>6 DEF ConflictInv
<1>3. CASE OtherChanges
  <2>1. PICK at \in {"over", "vanished"} : other.at = "live" /\ other' = [other EXCEPT !.at = at]
    BY <1>3 DEF OtherChanges
  <2>2. other \in [at : {"live", "vanished", "over"}, cwd : Paths, warned : BOOLEAN]
    BY <2>1 DEF ConflictInv, NoOther
  <2>3. /\ other'.at = at /\ other'.warned = other.warned
        /\ other' \in [at : {"live", "vanished", "over"}, cwd : Paths, warned : BOOLEAN]
    BY <2>1, <2>2
  <2>4. other # NoOther /\ other' # NoOther
    BY <2>1, <2>3 DEF NoOther
  <2> QED BY <1>1, <2>3, <2>4 DEF ConflictInv
<1> QED BY <1>2, <1>3

LEMMA ConflictStep == ConflictInv /\ [Next]_vars => ConflictInv'
<1> SUFFICES ASSUME ConflictInv, [Next]_vars
             PROVE  ConflictInv'
  OBVIOUS
<1>1. CASE UNCHANGED vars
  BY <1>1, ConflictsUntouched DEF vars, worker
<1>2. CASE Edit
  BY <1>2, ConflictsUntouched DEF Edit, worker
<1>3. CASE Preflight
  <2>1. UNCHANGED <<role, fresh, cwd, conflicts>>
    BY <1>3 DEF Preflight, ReadConfig, ResolveRuntime, Control, HangUp, LoginStatus,
       ProbeFrame, worker
  <2>2. \/ stage \in BeforeCreation /\ stage' \notin LiveStages
        \/ stage' \notin BeforeCreation \cup LiveStages
    BY <1>3 DEF Preflight, ReadConfig, ResolveRuntime, Control, HangUp, LoginStatus,
       MovesTo, BeforeCreation, LiveStages
  <2> QED BY <2>1, <2>2, ConflictsUntouched
<1>4. CASE Create
  BY <1>4, CreateKeepsConflicts
<1>5. CASE OtherChanges \/ \E path \in Paths : OtherSpawns(path)
  BY <1>5, OtherKeepsConflicts
<1>6. CASE Construct
  BY <1>6, ConflictsUntouched DEF Construct, MovesTo, worker, LiveStages, BeforeCreation
<1>7. CASE SetUpFails
  BY <1>7, ConflictsUntouched DEF SetUpFails, MovesTo, worker, LiveStages, BeforeCreation
<1>8. CASE SelectModel
  <2>1. /\ UNCHANGED <<role, fresh, cwd>> /\ warned' = FALSE /\ other' = NoOther
        /\ stage' \in {"no_model", "ready"}
    BY <1>8 DEF SelectModel, MovesTo
  <2> QED BY <2>1 DEF ConflictInv, LiveStages, BeforeCreation
<1>9. CASE Ask \/ (\E response \in Responses : Respond(response)) \/ Expire \/ Answered
  BY <1>9, ConflictsUntouched DEF Ask, CanUseTool, OnElicitation, Respond, Expire, Answered,
     AskFrame, worker
<1> QED
  BY <1>1, <1>2, <1>3, <1>4, <1>5, <1>6, <1>7, <1>8, <1>9 DEF Next

(***************************************************************************)
(* Whatever directories two coders work in, and whichever comes first, the *)
(* second was warned of the first exactly if they share one                *)
(* (_shared_workspace_warnings, classify_workspace_overlap).               *)
(***************************************************************************)
THEOREM ConflictsStayKnown == Spec => []ConflictsAreKnown
<1>1. ConflictInv => ConflictsAreKnown
  <2> SUFFICES ASSUME ConflictInv, fresh, role = "coder", stage \in LiveStages, other.at = "live"
               PROVE  (\E d \in Paths : Contains(cwd, d) /\ Contains(other.cwd, d))
                        <=> warned \/ other.warned
    BY DEF ConflictsAreKnown
  <2>1. cwd \in Paths /\ other.cwd \in Paths
    BY DEF ConflictInv, NoOther
  <2> QED BY <2>1, RelatedIfShared DEF ConflictInv
<1> QED  BY <1>1, ConflictInit, ConflictStep, PTL DEF Spec

-----------------------------------------------------------------------------
(***************************************************************************)
(* Types.                                                                  *)
(***************************************************************************)

\* What is left of the type invariant beside the invariants above.
RestTypes ==
  /\ role \in {"auditor", "coder"} /\ {fresh, token, edited} \subseteq BOOLEAN
  /\ edits \in 0 .. MaxEdits /\ stage \in Stages
  /\ config.ok => config.policy.mode \in DOMAIN Rank
  /\ auth \in {NoAuth, "personal_access_token", "service_account", "qodercli"}
  /\ client \in {"none", "open", "closed", "broken"}
  /\ trouble \in {"none", "initialize_timeout", "error", "cancelled"}
  /\ options.mode \in DOMAIN Rank \cup {Unset}
  /\ basis \in UserConfigs \cup {NoConfig}
  /\ requested \in Models \cup {Alias} /\ model \in Models \cup {NoModel}
  /\ catalog \in [Models -> {"absent", "disabled", "enabled"}]
  /\ author \in {"nobody", "policy", "supervisor", "person"}

\* A configuration that loads has a mode, and is made from usable files.
LEMMA LoadedMode ==
  ASSUME NEW user \in UserConfigs \cup {NoConfig}, NEW project \in Projects \cup {NoConfig},
         LoadConfig(user, project).ok
  PROVE  user \in UserConfigs /\ LoadConfig(user, project).policy.mode \in DOMAIN Rank
<1>1. user.ok /\ project.ok
  BY DEF LoadConfig, Invalid
<1>2. user # NoConfig /\ user # Invalid /\ project # NoConfig /\ project # Invalid
  BY <1>1 DEF NoConfig, Invalid
<1>3. /\ user \in [ok : {TRUE}, expansion : BOOLEAN, runtime : {"bundled", "custom"},
                  methods : SUBSET {"service_account", "qodercli"},
                  policy : [mode : DOMAIN Rank, denied : SUBSET STRING]]
      /\ project \in [ok : {TRUE}, mode : {Unset} \cup DOMAIN Rank, denied : SUBSET STRING]
  BY <1>2, FilesAssumption
<1>4. LoadConfig(user, project) = [user EXCEPT !.policy = Apply(user.policy, project)]
  <2>1. LoadConfig(user, project) # Invalid
    BY DEF Invalid
  <2> QED BY <1>1, <2>1 DEF LoadConfig
<1>5. Apply(user.policy, project).mode \in DOMAIN Rank
  BY <1>3 DEF Apply
<1> QED BY <1>2, <1>3, <1>4, <1>5

LEMMA RestInit == Init => RestTypes
<1> SUFFICES ASSUME Init PROVE RestTypes
  OBVIOUS
<1>1. {fresh, token, edited} \subseteq BOOLEAN
  BY DEF Init
<1>2. edits \in 0 .. MaxEdits
  BY EditsAssumption DEF Init
<1>3. stage \in Stages
  BY DEF Init, Stages
<1>4. ~ NoConfig.ok /\ NoOptions.mode = Unset
  BY DEF NoConfig, NoOptions
<1>5. catalog \in [Models -> {"absent", "disabled", "enabled"}]
  BY DEF Init, NoCatalog
<1>6. /\ role \in {"auditor", "coder"} /\ config = NoConfig /\ auth = NoAuth /\ client = "none"
      /\ trouble = "none" /\ options = NoOptions /\ basis = NoConfig
      /\ requested = Alias /\ model = NoModel /\ author = "nobody"
  BY DEF Init
<1> QED BY <1>1, <1>2, <1>3, <1>4, <1>5, <1>6 DEF RestTypes

LEMMA ResolvedIsAModel ==
  ASSUME NEW asked \in Models \cup {Alias}, NEW listed
  PROVE  ResolveModel(asked, listed) \in Models \cup {NoModel}
<1> DEFINE usable == {i \in DOMAIN Candidates : Candidates[i] \in Enabled(listed)}
<1>1. CASE asked = Alias /\ usable # {}
  <2>1. FirstOf(usable) \in 1 .. 3
    BY <1>1, FirstOfIsFirst, CandidatesAreThree
  <2> QED BY <1>1, <2>1, CandidatesAreThree DEF ResolveModel
<1>2. CASE asked # Alias \/ usable = {}
  BY <1>2 DEF ResolveModel
<1> QED BY <1>1, <1>2

LEMMA RestStep == RestTypes /\ ChoiceInv /\ [Next]_vars => RestTypes'
<1> SUFFICES ASSUME RestTypes, ChoiceInv, [Next]_vars
             PROVE  RestTypes'
  OBVIOUS
<1> DEFINE loaded == LoadConfig(files.user, files.project)
<1>0. files.user \in UserConfigs \cup {NoConfig} /\ files.project \in Projects \cup {NoConfig}
  BY DEF ChoiceInv
<1>a. loaded.ok => files.user \in UserConfigs /\ loaded.policy.mode \in DOMAIN Rank
  BY <1>0, LoadedMode
<1> HIDE DEF loaded
<1>1. CASE UNCHANGED vars
  BY <1>1 DEF RestTypes, vars, worker, world, probe, transport, choice, asking
<1>2. CASE Edit
  <2>1. edits' \in 0 .. MaxEdits /\ edited' \in BOOLEAN
    BY <1>2, EditsAssumption DEF Edit, RestTypes
  <2> QED BY <1>2, <2>1 DEF Edit, RestTypes, worker, probe, transport, choice, asking
<1>3. CASE Preflight
  <2>1. UNCHANGED <<role, fresh, token, edits, edited, options, basis, requested, catalog, model, author>>
    BY <1>3 DEF Preflight, ReadConfig, ResolveRuntime, Control, HangUp, LoginStatus,
       ProbeFrame, worker, world, transport, choice, asking
  <2>2. stage' \in Stages
    BY <1>3 DEF Preflight, ReadConfig, ResolveRuntime, Control, HangUp, LoginStatus, MovesTo, Stages
  <2>3. config' \in {config, loaded}
    BY <1>3 DEF Preflight, ReadConfig, ResolveRuntime, Control, HangUp, LoginStatus, probe, loaded
  <2>4. auth' \in {auth, SelectAuth(config, token)} /\ client' \in {client, "open", "closed", "broken"}
    BY <1>3 DEF Preflight, ReadConfig, ResolveRuntime, Control, HangUp, LoginStatus, probe
  <2>5. trouble' \in {"none", "initialize_timeout", "error", "cancelled"}
    BY <1>3 DEF Preflight, ReadConfig, ResolveRuntime, Control, HangUp, LoginStatus, probe,
       DisconnectFailed, RestTypes
  <2>6. SelectAuth(config, token) \in {NoAuth, "personal_access_token", "service_account", "qodercli"}
    BY DEF SelectAuth
  <2>7. config'.ok => config'.policy.mode \in DOMAIN Rank
    BY <1>a, <2>3 DEF RestTypes
  <2> QED BY <2>1, <2>2, <2>4, <2>5, <2>6, <2>7 DEF RestTypes
<1>4. CASE Create \/ OtherChanges \/ SetUpFails \/ \E path \in Paths : OtherSpawns(path)
  <2>1. UNCHANGED <<worker, world, probe, transport, choice, asking>>
    BY <1>4 DEF Create, OtherChanges, SetUpFails, OtherSpawns, ConflictFrame
  <2>2. stage' \in {stage, "refused", "created", "failed"}
    BY <1>4 DEF Create, OtherChanges, SetUpFails, OtherSpawns, MovesTo
  <2> QED BY <2>1, <2>2 DEF RestTypes, Stages, worker, world, probe, transport, choice, asking
<1>5. CASE Construct
  <2>1. UNCHANGED <<worker, world, probe, choice, asking>> /\ stage' \in {"constructed", "unusable"}
    BY <1>5 DEF Construct, MovesTo
  <2>2. \/ UNCHANGED transport
        \/ loaded.ok /\ options' = OptionsFor(loaded) /\ basis' = files.user
    BY <1>5 DEF Construct, loaded
  <2>3. OptionsFor(loaded).mode \in {loaded.policy.mode, "dontAsk"}
    BY DEF OptionsFor
  <2>4. "dontAsk" \in DOMAIN Rank
    BY DEF Rank
  <2>5. options'.mode \in DOMAIN Rank \cup {Unset} /\ basis' \in UserConfigs \cup {NoConfig}
    BY <1>0, <1>a, <2>2, <2>3, <2>4 DEF RestTypes, transport
  <2> QED BY <2>1, <2>5 DEF RestTypes, Stages, worker, world, probe, choice, asking
<1>6. CASE SelectModel
  <2>1. PICK models \in [Models -> {"absent", "disabled", "enabled"}], m \in Models \cup {Alias} :
          /\ stage' = IF ResolveModel(m, models) = NoModel THEN "no_model" ELSE "ready"
          /\ requested' = m /\ catalog' = models /\ model' = ResolveModel(m, models)
          /\ edits' = 0 /\ edited' = FALSE /\ config' = NoConfig /\ auth' = NoAuth
          /\ client' = "none" /\ trouble' = "none" /\ options' = NoOptions /\ basis' = NoConfig
          /\ UNCHANGED <<role, fresh, token, author>>
    BY <1>6 DEF SelectModel, MovesTo, asking
  <2>2. model' \in Models \cup {NoModel}
    BY <2>1, ResolvedIsAModel
  <2>3. ~ NoConfig.ok /\ NoOptions.mode = Unset /\ 0 \in 0 .. MaxEdits
    BY EditsAssumption DEF NoConfig, NoOptions
  <2>4. stage' \in Stages
    BY <2>1 DEF Stages
  <2> QED BY <2>1, <2>2, <2>3, <2>4 DEF RestTypes
<1>7. CASE Ask \/ (\E response \in Responses : Respond(response)) \/ Expire \/ Answered
  <2>1. UNCHANGED <<worker, world, stage, probe, transport, choice>>
    BY <1>7 DEF Ask, CanUseTool, OnElicitation, Respond, Expire, Answered, AskFrame
  <2>2. author' \in {"nobody", "policy", "supervisor", "person"}
    BY <1>7 DEF Ask, CanUseTool, OnElicitation, Respond, Expire, Answered, Decide, AskSupervisor
  <2> QED BY <2>1, <2>2 DEF RestTypes, worker, world, probe, transport, choice
<1> QED
  BY <1>1, <1>2, <1>3, <1>4, <1>5, <1>6, <1>7 DEF Next

\* Every variable has its type.
THEOREM AdmissionTypes == Spec => []TypeOK
<1>1. RestTypes /\ AskInv /\ ChoiceInv /\ ConflictInv => TypeOK
  BY DEF RestTypes, AskInv, ChoiceInv, ConflictInv, TypeOK
<1> QED
  BY <1>1, RestInit, RestStep, AskInit, AskStep, ChoiceInit, ChoiceStep, ConflictInit,
     ConflictStep, PTL DEF Spec
=============================================================================
