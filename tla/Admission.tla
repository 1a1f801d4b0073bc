----------------------------- MODULE Admission ------------------------------
(***************************************************************************)
(* From a request for a worker to its first tool: the preflight of a spawn *)
(* (preflight.py), its creation beside another coder (supervisor.py), the  *)
(* construction of the transport, which reads the configuration again      *)
(* (qoder_sdk.py), the choice of the model and the permission callbacks of *)
(* the attempt (qoder_sdk.py, supervisor.py).                              *)
(*                                                                         *)
(* The files of the user and of the project and the installed runtimes may *)
(* change at any moment; the environment of the service does not.  The     *)
(* SDK, the runtime and its catalog are external.  Whose request an answer *)
(* reaches is the matter of Supervisor; here there is one at a time.       *)
(***************************************************************************)
EXTENDS Policy, FiniteSets

CONSTANTS
  UserConfigs,   \* contents of the user's file, Invalid among them
  Projects,      \* contents of the project's file, likewise
  Paths,         \* canonical directories
  MaxEdits       \* bound on the changes to files and runtimes

ASSUME EditsAssumption == MaxEdits \in Nat

\* A path is the sequence of its names.
ASSUME PathsAssumption == Paths \subseteq Seq(STRING)

\* What a file that can be used may say (_apply_policy, load_config).
ASSUME FilesAssumption ==
  /\ UserConfigs \subseteq {Invalid} \cup
       [ok : {TRUE}, expansion : BOOLEAN, runtime : {"bundled", "custom"},
        methods : SUBSET {"service_account", "qodercli"},
        policy : [mode : DOMAIN Rank, denied : SUBSET STRING]]
  /\ Projects \subseteq {Invalid} \cup
       [ok : {TRUE}, mode : {Unset} \cup DOMAIN Rank, denied : SUBSET STRING]

VARIABLES
  role,        \* of the worker
  fresh,       \* spawned, or else resumed
  cwd,         \* its workspace
  token,       \* whether the environment has an access token
  files,       \* the user's file, the project's and the runtimes that work
  edits,       \* how many changes there were
  edited,      \* whether one came after the preflight read its configuration
  stage,       \* how far the attempt is
  config,      \* the effective configuration of the preflight
  auth,        \* the credentials that the preflight selected
  client,      \* the control connection of the preflight
  trouble,     \* what went wrong on it
  warned,      \* whether the spawn warned of the other coder
  other,       \* another coder of the supervisor, or none yet
  options,     \* the options of the transport
  basis,       \* the user's configuration that they were made from
  requested,   \* the model of the contract
  catalog,     \* the models of the runtime
  model,       \* the model that was selected
  request,     \* a question of the SDK
  answer,      \* the decision that it got
  author       \* who decided

worker    == <<role, fresh, cwd, token, requested>>
conflicts == <<warned, other>>
world     == <<files, edits, edited>>
probe     == <<config, auth, client, trouble>>
transport == <<options, basis>>
choice    == <<catalog, model>>
asking    == <<request, answer, author>>
vars      == <<worker, world, stage, probe, conflicts, transport, choice, asking>>

Stages == {"start", "runtime", "control", "hangup", "status", "refused", "accepted",
           "created", "unusable", "constructed", "failed", "no_model", "ready"}

NoConfig  == [ok |-> FALSE]
NoOptions == [mode |-> Unset, denied |-> {}, runtime |-> Unset, auth |-> NoAuth]
NoOther   == [at |-> "none"]
NoCatalog == [m \in Models |-> "absent"]
NoRequest == [kind |-> "none"]
NoAnswer  == [action |-> "none", content |-> "absent"]

\* Nothing more happens that is modelled here, but questions.
Ended == {"refused", "unusable", "failed", "no_model", "ready"}

MovesTo(from, to) == stage = from /\ stage' = to

-----------------------------------------------------------------------------
(***************************************************************************)
(* Someone edits a file, or installs or removes a runtime.                 *)
(***************************************************************************)
Edit ==
  /\ edits < MaxEdits
  /\ stage \notin Ended \cup {"constructed"}
  /\ \/ \E user \in UserConfigs : files' = [files EXCEPT !.user = user]
     \/ \E project \in Projects : files' = [files EXCEPT !.project = project]
     \/ \E installed \in SUBSET {"bundled", "custom"} :
          files' = [files EXCEPT !.installed = installed]
  /\ files' # files
  /\ edits' = edits + 1
  /\ edited' = (edited \/ stage # "start")
  /\ UNCHANGED <<worker, stage, probe, conflicts, transport, choice, asking>>

-----------------------------------------------------------------------------
(***************************************************************************)
(* RuntimePreflight.run.                                                   *)
(***************************************************************************)
ProbeFrame == UNCHANGED <<worker, world, conflicts, transport, choice, asking>>

\* The SDK may be missing; then the configuration is read.
ReadConfig ==
  LET loaded == LoadConfig(files.user, files.project)
  IN  /\ \/ MovesTo("start", "refused") /\ UNCHANGED config
         \/ /\ MovesTo("start", IF loaded.ok THEN "runtime" ELSE "refused")
            /\ config' = loaded
      /\ UNCHANGED <<auth, client, trouble>> /\ ProbeFrame

\* resolve_runtime and `-v`, which may fail, be too old or hang until it is
\* killed; then select_auth, without which no client is made.
ResolveRuntime ==
  LET selected == SelectAuth(config, token)
  IN  /\ stage = "runtime"
      /\ \/ MovesTo("runtime", "refused") /\ UNCHANGED <<auth, client>>
         \/ /\ config.runtime \in files.installed
            /\ auth' = selected
            /\ IF selected = NoAuth
               THEN MovesTo("runtime", "refused") /\ UNCHANGED client
               ELSE MovesTo("runtime", "control") /\ client' = "open"
      /\ UNCHANGED <<config, trouble>> /\ ProbeFrame

\* connect and get_server_info return, fail or are cancelled.
Control ==
  /\ MovesTo("control", "hangup")
  /\ trouble' \in {"none", "initialize_timeout", "error", "cancelled"}
  /\ UNCHANGED <<config, auth, client>> /\ ProbeFrame

DisconnectFailed_Ignored == trouble

\* A disconnect that raises fails the preflight, unless that failed already.
DisconnectFailed == IF trouble = "none" THEN "error" ELSE trouble

AskStatus(what) == what = "initialize_timeout" /\ auth = "qodercli"

\* The finally clause: the client is disconnected, whatever happened before;
\* the disconnect may itself raise or be cancelled.
HangUp ==
  /\ \/ client' = "closed" /\ trouble' = trouble
     \/ client' = "broken" /\ trouble' \in {DisconnectFailed, "cancelled"}
  /\ MovesTo("hangup", IF trouble' = "none" THEN "accepted"
                       ELSE IF AskStatus(trouble') THEN "status" ELSE "refused")
  /\ UNCHANGED <<config, auth>> /\ ProbeFrame

\* Whether the login of the CLI works only makes a warning.
LoginStatus ==
  /\ MovesTo("status", "refused")
  /\ UNCHANGED probe /\ ProbeFrame

-----------------------------------------------------------------------------
(***************************************************************************)
(* Supervisor.spawn after the preflight, under the control lock; another   *)
(* coder is spawned likewise at any time, ends, or loses its directory.    *)
(***************************************************************************)
LiveStages == {"created", "constructed"}

ConflictFrame == UNCHANGED <<worker, world, probe, transport, choice, asking>>

\* _shared_workspace_warnings looks at live coders; it raises if the directory
\* of one is gone, whatever its relation, and nothing is created.
Create ==
  LET looks == role = "coder" /\ other.at \in {"live", "vanished"}
  IN  /\ stage = "accepted"
      /\ IF looks /\ other.at = "vanished"
         THEN MovesTo("accepted", "refused") /\ UNCHANGED warned
         ELSE /\ MovesTo("accepted", "created")
              /\ warned' = (looks /\ Relation(cwd, other.cwd) # Apart)
      /\ UNCHANGED other /\ ConflictFrame

OtherSpawns(path) ==
  /\ other = NoOther /\ stage \in Stages \ Ended
  /\ other' = [at     |-> "live",
               cwd    |-> path,
               warned |-> /\ stage \in LiveStages /\ role = "coder"
                          /\ Relation(path, cwd) # Apart]
  /\ UNCHANGED <<stage, warned>> /\ ConflictFrame

OtherChanges ==
  /\ other.at = "live" /\ stage \in Stages \ Ended
  /\ \E at \in {"over", "vanished"} : other' = [other EXCEPT !.at = at]
  /\ UNCHANGED <<stage, warned>> /\ ConflictFrame

-----------------------------------------------------------------------------
(***************************************************************************)
(* build_configured_auditor_options and build_configured_coder_options.    *)
(***************************************************************************)
RuntimeOf_Bundled(loaded) == "bundled"

RuntimeOf(loaded) == loaded.runtime

\* An auditor has fixed permissions, a coder those of the policy.
OptionsFor(loaded) ==
  [mode    |-> IF role = "coder" THEN loaded.policy.mode ELSE "dontAsk",
   denied  |-> IF role = "coder" THEN loaded.policy.denied ELSE DeniedTools,
   runtime |-> RuntimeOf(loaded),
   auth    |-> SelectAuth(loaded, token)]

Construct ==
  LET loaded == LoadConfig(files.user, files.project)
      usable == /\ loaded.ok
                /\ SelectAuth(loaded, token) # NoAuth
                /\ RuntimeOf(loaded) \in files.installed
  IN  /\ stage = "created"
      /\ MovesTo("created", IF usable THEN "constructed" ELSE "unusable")
      /\ IF usable
         THEN options' = OptionsFor(loaded) /\ basis' = files.user
         ELSE UNCHANGED transport
      /\ UNCHANGED <<worker, world, probe, conflicts, choice, asking>>

-----------------------------------------------------------------------------
(***************************************************************************)
(* ForegroundAuditor.run and ForegroundCoder.run up to select_model: each  *)
(* call of the SDK may fail.  What led here is not looked at again.        *)
(***************************************************************************)
SetUpFails ==
  /\ MovesTo("constructed", "failed")
  /\ UNCHANGED <<worker, world, probe, conflicts, transport, choice, asking>>

SelectModel ==
  \E models \in [Models -> {"absent", "disabled", "enabled"}], m \in Models \cup {Alias} :
    LET resolved == ResolveModel(m, models)
    IN  /\ MovesTo("constructed", IF resolved = NoModel THEN "no_model" ELSE "ready")
        /\ requested' = m /\ catalog' = models /\ model' = resolved
        /\ files' = [user |-> NoConfig, project |-> NoConfig, installed |-> {}]
        /\ edits' = 0 /\ edited' = FALSE
        /\ config' = NoConfig /\ auth' = NoAuth /\ client' = "none" /\ trouble' = "none"
        /\ warned' = FALSE /\ other' = NoOther
        /\ options' = NoOptions /\ basis' = NoConfig
        /\ UNCHANGED <<role, fresh, cwd, token, asking>>

-----------------------------------------------------------------------------
(***************************************************************************)
(* The callbacks that bind_control installs.                               *)
(***************************************************************************)
AskFrame == UNCHANGED <<worker, world, stage, probe, conflicts, transport, choice>>

Asks(r) ==
  /\ stage = "ready" /\ request = NoRequest
  /\ request' = r

Decide(decision, by) == answer' = decision /\ author' = by

\* _request_approval: pending, or refused at once since the attempt is not live
\* or the request cannot be shown.
AskSupervisor(r) ==
  \/ Decide(NoAnswer, "nobody")
  \/ Decide(Refusal(r), "supervisor")

AllowedTool(r) == [action |-> "allow", content |-> "absent"]

PolicyAllows(r) == role = "auditor" /\ AuditorMayUse(r.tool, r.nested)

\* can_use_tool: a coder has no policy, which denies; a report is not asked for.
CanUseTool(r) ==
  /\ r.kind = "tool" /\ Asks(r)
  /\ \/ ~ PolicyAllows(r) /\ Decide(Refusal(r), "policy")
     \/ PolicyAllows(r) /\ r.tool = Submit /\ Decide(AllowedTool(r), "policy")
     \/ PolicyAllows(r) /\ r.tool # Submit /\ AskSupervisor(r)
  /\ AskFrame

\* on_elicitation, with the snapshot of the schema that the supervisor makes.
OnElicitation(r) ==
  /\ r.kind = "elicitation" /\ Asks(r)
  /\ \/ r.mode = "other" /\ Decide(Refusal(r), "policy")
     \/ r.mode # "other" /\ r.schema = "unsupported" /\ Decide(Refusal(r), "supervisor")
     \/ r.mode # "other" /\ r.schema # "unsupported" /\ AskSupervisor(r)
  /\ AskFrame

Pending == request # NoRequest /\ answer = NoAnswer

\* A response that does not fit is an error, and the request stays pending.
Respond(response) ==
  /\ Pending /\ Fits(request, response)
  /\ Decide(response, "person")
  /\ UNCHANGED request /\ AskFrame

\* The attempt ends first (_complete_live_attempt).
Expire ==
  /\ Pending
  /\ Decide(Refusal(request), "supervisor")
  /\ UNCHANGED request /\ AskFrame

Answered ==
  /\ request # NoRequest /\ answer # NoAnswer
  /\ request' = NoRequest /\ Decide(NoAnswer, "nobody")
  /\ AskFrame

-----------------------------------------------------------------------------
Init ==
  /\ role \in {"auditor", "coder"} /\ fresh \in BOOLEAN /\ cwd \in Paths /\ token \in BOOLEAN
  /\ files \in [user : UserConfigs, project : Projects,
                installed : SUBSET {"bundled", "custom"}]
  /\ edits = 0 /\ edited = FALSE
  /\ stage = IF fresh THEN "start" ELSE "created"
  /\ config = NoConfig /\ auth = NoAuth /\ client = "none" /\ trouble = "none"
  /\ warned = FALSE /\ other = NoOther
  /\ options = NoOptions /\ basis = NoConfig
  /\ requested = Alias /\ catalog = NoCatalog /\ model = NoModel
  /\ request = NoRequest /\ answer = NoAnswer /\ author = "nobody"

Preflight == ReadConfig \/ ResolveRuntime \/ Control \/ HangUp \/ LoginStatus

Ask == \E r \in Requests : CanUseTool(r) \/ OnElicitation(r)

Next ==
  \/ Edit \/ Preflight \/ Create
  \/ (\E path \in Paths : OtherSpawns(path)) \/ OtherChanges
  \/ Construct \/ SetUpFails \/ SelectModel
  \/ Ask \/ (\E response \in Responses : Respond(response)) \/ Expire \/ Answered

Spec == Init /\ [][Next]_vars

-----------------------------------------------------------------------------
TypeOK ==
  /\ role \in {"auditor", "coder"} /\ {fresh, token, edited} \subseteq BOOLEAN
  /\ files.user \in UserConfigs \cup {NoConfig}
  /\ files.project \in Projects \cup {NoConfig}
  /\ files.installed \subseteq {"bundled", "custom"}
  /\ edits \in 0 .. MaxEdits /\ stage \in Stages
  /\ config.ok => config.policy.mode \in DOMAIN Rank
  /\ auth \in {NoAuth, "personal_access_token", "service_account", "qodercli"}
  /\ client \in {"none", "open", "closed", "broken"}
  /\ trouble \in {"none", "initialize_timeout", "error", "cancelled"}
  /\ cwd \in Paths /\ warned \in BOOLEAN
  /\ other \in {NoOther} \cup [at : {"live", "vanished", "over"}, cwd : Paths, warned : BOOLEAN]
  /\ options.mode \in DOMAIN Rank \cup {Unset}
  /\ basis \in UserConfigs \cup {NoConfig}
  /\ requested \in Models \cup {Alias} /\ model \in Models \cup {NoModel}
  /\ catalog \in [Models -> {"absent", "disabled", "enabled"}]
  /\ request \in Requests \cup {NoRequest}
  /\ answer \in Responses \cup {NoAnswer}
  /\ author \in {"nobody", "policy", "supervisor", "person"}

\* A coder never runs with more rights than the user's own file gives it, unless
\* that file lets projects expand them (_expanded_policy_field): whatever the
\* project's file says, and whenever either was edited.
PoliciesOnlyNarrow ==
  stage = "constructed" /\ role = "coder" /\ ~ basis.expansion =>
    /\ Rank[options.mode] <= Rank[basis.policy.mode]
    /\ basis.policy.denied \subseteq options.denied

\* What the preflight of a spawn accepted is what the attempt gets, unless a file
\* or a runtime changed in between: the two read and decide on their own
\* (create_default_transport promises "the same config/auth policy as preflight").
PreflightVouches ==
  fresh /\ ~ edited =>
    /\ stage # "unusable"
    /\ stage = "constructed" => options.auth = auth /\ options.runtime = config.runtime

\* The control connection of a preflight is over before its worker is accepted or
\* refused, and closed without an error before it is accepted (initialize).
ProbeIsClosed ==
  /\ client = "open" => stage \in {"control", "hangup"}
  /\ fresh /\ stage \in {"accepted", "created", "constructed", "unusable"} => client = "closed"

\* Of two spawned coders that live at a time, the second was warned of the first
\* exactly if some directory belongs to the workspaces of both
\* (_shared_workspace_warnings, called with the lock that creates workers).
Contains(path, directory) == path = directory \/ path \in Parents(directory)

ConflictsAreKnown ==
  fresh /\ role = "coder" /\ stage \in LiveStages /\ other.at = "live" =>
    (\E d \in Paths : Contains(cwd, d) /\ Contains(other.cwd, d)) <=> warned \/ other.warned

\* A model that was asked for by name is used or the attempt fails; an alias means
\* its first enabled candidate, and only fails without one (resolve_model).
ModelIsAllowed ==
  LET offered(m) == catalog[m] = "enabled"
      places     == {i \in DOMAIN Candidates : offered(Candidates[i])}
  IN  /\ stage = "ready" =>
           /\ offered(model)
           /\ requested # Alias => model = requested
           /\ requested = Alias => \E i \in places :
                Candidates[i] = model /\ \A j \in places : i <= j
      /\ stage = "no_model" =>
           IF requested = Alias THEN places = {} ELSE ~ offered(requested)

\* No tool is allowed to a nested agent of an auditor to spawn or to report with,
\* none that writes to anyone, none at all to a coder's question; and without a
\* person's answer nothing is granted but the report of the auditor itself.
GrantsRespectPolicy ==
  answer.action \in {"allow", "accept"} =>
    /\ author # "person" => request.kind = "tool" /\ request.tool = Submit
    /\ request.kind = "tool" =>
         /\ role = "auditor" /\ request.tool # "Write"
         /\ request.nested => request.tool \notin {Submit, "Agent"}

\* Content reaches the SDK only from an accepted form, and only if the schema of
\* that form, where it has one, admits it (parse_approval_response).
AnswersFit ==
  answer.content # "absent" =>
    /\ request.kind = "elicitation" /\ request.mode = "form" /\ answer.action = "accept"
    /\ answer.content # "text"
    /\ answer.content = "mismatching" => request.schema = "none"

\* What an attempt runs with is what the user's file and the catalog allow.
ChoicesAreAllowed == PoliciesOnlyNarrow /\ ModelIsAllowed

\* The verdict of a preflight holds for the worker, and nothing else is left of it.
PreflightIsSound == PreflightVouches /\ ProbeIsClosed

\* What the SDK is told is what policy and person agreed to, in a form that its
\* question has.
AnswersAreAllowed == GrantsRespectPolicy /\ AnswersFit
=============================================================================
