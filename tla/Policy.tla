------------------------------- MODULE Policy -------------------------------
(***************************************************************************)
(* The pure decisions behind a worker: its effective configuration         *)
(* (config.py), its credentials (preflight.py), its model                  *)
(* (model_policy.py), the tools of an auditor (auditor_policy.py), the     *)
(* answers that an approval takes (control.py) and the overlap of two      *)
(* workspaces (workspace.py).                                              *)
(*                                                                         *)
(* A policy is the coder's permission mode and denied tools.  The flags    *)
(* for proactive workers and web access are narrowed alike, but nothing in *)
(* the package reads them.                                                 *)
(***************************************************************************)
EXTENDS Naturals, Sequences

Unset == "unset"

\* A configuration file that cannot be used, for whatever reason.
Invalid == [ok |-> FALSE]

Rank == [dontAsk |-> 0, default |-> 1, acceptEdits |-> 2]

-----------------------------------------------------------------------------
(***************************************************************************)
(* load_config: the project's file on top of the user's.                   *)
(***************************************************************************)
Apply(base, values) ==
  [mode   |-> IF values.mode = Unset THEN base.mode ELSE values.mode,
   denied |-> IF values.denied = {Unset} THEN base.denied ELSE values.denied]

Expands_ModeOnly(current, candidate) == Rank[candidate.mode] > Rank[current.mode]

\* _expanded_policy_field.
Expands(current, candidate) ==
  \/ Rank[candidate.mode] > Rank[current.mode]
  \/ ~ current.denied \subseteq candidate.denied

LoadConfig(user, project) ==
  IF ~ user.ok \/ ~ project.ok THEN Invalid
  ELSE LET candidate == Apply(user.policy, project)
       IN  IF ~ user.expansion /\ Expands(user.policy, candidate) THEN Invalid
           ELSE [user EXCEPT !.policy = candidate]

NoAuth == "none"

\* select_auth: a token in the environment, a configured service account, the
\* login of the CLI.
SelectAuth(config, token) ==
  IF token THEN "personal_access_token"
  ELSE IF "service_account" \in config.methods THEN "service_account"
  ELSE IF "qodercli" \in config.methods THEN "qodercli"
  ELSE NoAuth

-----------------------------------------------------------------------------
(***************************************************************************)
(* resolve_model.  A request is an alias, which stands for its candidates, *)
(* or an exact model; a catalog says of each model whether it is enabled,  *)
(* disabled or not in it.                                                  *)
(***************************************************************************)
Alias == "alias"
Candidates == <<"max", "prior", "auto">>
Models == {Candidates[i] : i \in DOMAIN Candidates} \cup {"other"}

NoModel == "none"

Enabled_Listed(catalog) == {m \in Models : catalog[m] # "absent"}

Enabled(catalog) == {m \in Models : catalog[m] = "enabled"}

FirstOf(indices) == CHOOSE i \in indices : \A j \in indices : i <= j

ResolveModel(requested, catalog) ==
  LET usable == {i \in DOMAIN Candidates : Candidates[i] \in Enabled(catalog)}
  IN  IF requested # Alias
      THEN IF requested \in Enabled(catalog) THEN requested ELSE NoModel
      ELSE IF usable # {} THEN Candidates[FirstOf(usable)] ELSE NoModel

-----------------------------------------------------------------------------
(***************************************************************************)
(* classify_workspace_overlap.  A path is the sequence of its names.       *)
(***************************************************************************)
Parents(path) == {SubSeq(path, 1, n) : n \in 0 .. Len(path) - 1}

Apart == "apart"

Relation_SameOnly(asked, live) == IF asked = live THEN "same" ELSE Apart

Relation(asked, live) ==
  CASE asked = live           -> "same"
    [] live \in Parents(asked) -> "ancestor"
    [] asked \in Parents(live) -> "descendant"
    [] OTHER                  -> Apart

-----------------------------------------------------------------------------
(***************************************************************************)
(* AuditorToolPolicy.                                                      *)
(***************************************************************************)
Submit == "submit_audit"
VisibleTools == {"Read", "Agent"}
DeniedTools == {"Write"}
Tools == VisibleTools \cup DeniedTools \cup {Submit}

AuditorMayUse_Anyone(tool, nested) == tool \in VisibleTools \cup {Submit}

AuditorMayUse(tool, nested) ==
  IF tool = Submit THEN ~ nested
  ELSE tool \in VisibleTools /\ ~ (nested /\ tool = "Agent")

-----------------------------------------------------------------------------
(***************************************************************************)
(* What may be asked, and parse_approval_response.  The content of a       *)
(* response is absent, an object that the schema admits or not, or no      *)
(* object at all.                                                          *)
(***************************************************************************)
Requests ==
  [kind : {"tool"}, tool : Tools, nested : BOOLEAN] \cup
  [kind : {"elicitation"}, mode : {"form", "url", "other"},
   schema : {"none", "supported", "unsupported"}]

Responses ==
  [action  : {"allow", "deny", "accept", "decline", "cancel"},
   content : {"absent", "matching", "mismatching", "text"}]

Matches_Any(request, content) == content \in {"matching", "mismatching"}

\* _validate_elicitation_content.
Matches(request, content) ==
  content = "matching" \/ (content = "mismatching" /\ request.schema = "none")

Fits(request, response) ==
  CASE request.kind = "tool" ->
         response.action \in {"allow", "deny"} /\ response.content = "absent"
    [] request.kind = "elicitation" /\ response.action = "accept" ->
         IF request.mode = "url" THEN response.content = "absent"
                                 ELSE Matches(request, response.content)
    [] OTHER ->
         response.action \in {"decline", "cancel"} /\ response.content = "absent"

Refusal_Expired(request) == [action |-> "expired", content |-> "absent"]

\* The answer when nobody answers.
Refusal(request) ==
  [action |-> IF request.kind = "tool" THEN "deny" ELSE "cancel", content |-> "absent"]
=============================================================================
