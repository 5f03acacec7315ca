---------------------------- MODULE MCRunLogPage ----------------------------
(***************************************************************************)
(* RunLogPage for TLC: the log of all jobs, and the one of two of them.    *)
(***************************************************************************)
EXTENDS RunLogPage

MCScopes == {<<>>, <<"read", "send">>}

RunLogSlice == RunLogInit(Scopes) /\ [][RunLogNext]_runVars

==============================================================================
