----------------------------- MODULE MCJobRows -----------------------------
(***************************************************************************)
(* JobRows for TLC: four jobs, which is what it takes for the filter to be *)
(* drawn; one has a schedule, one a webhook, and one is another's handler. *)
(***************************************************************************)
EXTENDS JobRows

MCCards == <<"feeds", "hook", "notify", "prune">>
MCInputsOf == [feeds |-> {"feeds"}, hook |-> {}, notify |-> {"format"}, prune |-> {"path", "maxAgeDays"}]
MCCalls == [mail |-> "notify"]
==============================================================================
