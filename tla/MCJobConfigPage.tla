--------------------------- MODULE MCJobConfigPage ---------------------------
(***************************************************************************)
(* JobConfigPage for TLC: what a card and a row may be set to.             *)
(***************************************************************************)
EXTENDS JobConfigPage

MCDeclared == [j \in {"feeds", "mail"} |->
    [schedule |-> "every", timeoutMs |-> "a minute", onFailure |-> "nothing", retry |-> "off"]]
MCPicks == [schedule |-> {"manual"}, timeoutMs |-> {OutOfRange}, onFailure |-> {"mail"},
            retry |-> {Policy, "twice"}]
MCRows == [dryRun |-> {"on", "off"}, historyCapacity |-> {"200", "50"}]
MCStoredGlobals == {[dryRun |-> "on", historyCapacity |-> "200"]}

JobsSlice == JobsInit(MCStoredGlobals) /\ [][JobsNext]_jobsVars

==============================================================================
