----------------------------- MODULE Supervisor -----------------------------
(***************************************************************************)
(* What launchers promise of the one process each supervises               *)
(* (launcher/src/main.rs, `--help` and the comments of shutdown.rs): one   *)
(* child at a time, none after a stop but the one that was on its way, and *)
(* no child left behind, unless it was abandoned: the user insisted, the   *)
(* launcher lost track of it, or was killed.                               *)
(***************************************************************************)
EXTENDS Naturals

CONSTANTS
    Launchers,
    MaxLate         \* children a launcher may still start after a stop

VARIABLES
    phase,          \* "out", "up", "stopping", and "gone" or "abandoned"
    child,          \* there is one, alive
    late            \* children started after a stop was asked for

vars == <<phase, child, late>>

TypeOK ==
    /\ phase \in [Launchers -> {"out", "up", "stopping", "gone", "abandoned"}]
    /\ child \in [Launchers -> BOOLEAN]
    /\ late \in [Launchers -> 0..MaxLate]

Init ==
    /\ phase = [l \in Launchers |-> "out"]
    /\ child = [l \in Launchers |-> FALSE]
    /\ late = [l \in Launchers |-> 0]

Turn(l, p) == phase' = [phase EXCEPT ![l] = p] /\ UNCHANGED <<child, late>>

Launch(l) == phase[l] = "out" /\ \E p \in {"up", "stopping", "gone"} : Turn(l, p)

Start(l) ==
    /\ phase[l] = "up" \/ (phase[l] = "stopping" /\ late[l] < MaxLate)
    /\ ~child[l]
    /\ child' = [child EXCEPT ![l] = TRUE]
    /\ late' = IF phase[l] = "up" THEN late ELSE [late EXCEPT ![l] = @ + 1]
    /\ UNCHANGED phase

Die(l) == child[l] /\ child' = [child EXCEPT ![l] = FALSE] /\ UNCHANGED <<phase, late>>

Stop(l) == phase[l] = "up" /\ Turn(l, "stopping")

Leave(l) == phase[l] \in {"up", "stopping"} /\ ~child[l] /\ Turn(l, "gone")

Abandon(l) == phase[l] # "abandoned" /\ Turn(l, "abandoned")

Next == \E l \in Launchers :
    Launch(l) \/ Start(l) \/ Die(l) \/ Stop(l) \/ Leave(l) \/ Abandon(l)

Spec == Init /\ [][Next]_vars

\* A launcher that is gone, and was not made to go, leaves no child behind.
NoneLeft == \A l \in Launchers : phase[l] = "gone" => ~child[l]
==============================================================================
