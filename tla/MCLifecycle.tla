----------------------------- MODULE MCLifecycle -----------------------------
(* Lifecycle for TLC: a job every minute, and one without a schedule that   *)
(* may be given the same or one that comes daily, in days of two minutes.   *)
EXTENDS Lifecycle, TLC

CONSTANTS a, b

MCOrder == <<a, b>>
EveryMinute == [kind |-> "everyMinutes", n |-> 1]
Daily == [kind |-> "dailyAt", n |-> 1]
MCSchedules == {EveryMinute, Daily}
MCDeclared == (a :> EveryMinute) @@ (b :> Manual)
==============================================================================
