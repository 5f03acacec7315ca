---------------------------- MODULE MCJobRunner ----------------------------
(***************************************************************************)
(* JobRunner for TLC.  Job a retries, is its own failure handler and tells *)
(* b of its changes, or has one attempt and the wrong id for its failures; *)
(* job b has one attempt and tells a of its failures.                      *)
(***************************************************************************)
EXTENDS JobRunner, TLC

CONSTANTS a, b, typo

MCPolicies ==
    (a :> { [onFailure |-> a, onChange |-> b, attempts |-> 2],
            [onFailure |-> typo, onChange |-> NoJob, attempts |-> 0] })
    @@ (b :> { [onFailure |-> a, onChange |-> NoJob, attempts |-> 1] })

Symmetry == Permutations(Runs) \cup Permutations(Ids)
=============================================================================
