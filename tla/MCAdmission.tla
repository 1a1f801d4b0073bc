----------------------------- MODULE MCAdmission ----------------------------
EXTENDS Admission

MCUserConfigs == {
  Invalid,
  [ok |-> TRUE, expansion |-> FALSE, runtime |-> "bundled", methods |-> {"qodercli"},
   policy |-> [mode |-> "default", denied |-> {"Bash"}]],
  [ok |-> TRUE, expansion |-> TRUE, runtime |-> "custom",
   methods |-> {"service_account", "qodercli"},
   policy |-> [mode |-> "dontAsk", denied |-> {"Bash"}]],
  [ok |-> TRUE, expansion |-> FALSE, runtime |-> "custom", methods |-> {},
   policy |-> [mode |-> "acceptEdits", denied |-> {}]]}

MCPaths == {<<"a">>, <<"a", "b">>, <<"c">>}

MCProjects == {
  Invalid,
  [ok |-> TRUE, mode |-> Unset, denied |-> {Unset}],
  [ok |-> TRUE, mode |-> "dontAsk", denied |-> {"Bash", "Write"}],
  [ok |-> TRUE, mode |-> "acceptEdits", denied |-> {Unset}],
  [ok |-> TRUE, mode |-> Unset, denied |-> {}]}
=============================================================================
