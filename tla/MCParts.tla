------------------------------ MODULE MCParts ------------------------------
(***************************************************************************)
(* Parts for TLC: the registry of MCSettingsPage and the jobs and rows of  *)
(* MCJobConfigPage; one webhook of either sort to begin with; two tabs on  *)
(* the sign-in panel; the inbox and a label.                               *)
(***************************************************************************)
EXTENDS Parts, MCSettingsPage, MCJobConfigPage, MCRunLogPage

Notifies == [label |-> "one", family |-> "update", kind |-> "notification", prefix |-> Empty,
             job |-> TheJob, lookup |-> "url", routes |-> Absent]
Commands == [label |-> "one", family |-> Absent, kind |-> "command", prefix |-> Absent,
             job |-> Absent, lookup |-> Absent, routes |-> "routes"]
MCStoredHooks == {[h \in {"a"} |-> Notifies], [h \in {"a"} |-> Commands]}
MCStoredRecords == [i \in {"r1"} |-> [text |-> "one", enabled |-> TRUE]]

==============================================================================
