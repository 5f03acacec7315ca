------------------------------ MODULE Launcher ------------------------------
(***************************************************************************)
(* The launcher (launcher/src/): `rn` starts, refuses a second copy,       *)
(* records itself in a pidfile, supervises the back end and restarts it    *)
(* (main.rs), forwards a stop to it (shutdown.rs), and is stopped by       *)
(* another `rn --stop` (pidfile.rs).                                       *)
(*                                                                         *)
(* A launcher goes                                                         *)
(*                                                                         *)
(*   off -> checked -> installed -> build -> spawned -> waiting -> reaped  *)
(*                                    ^                              |     *)
(*                                    +------- sleeping <------------+     *)
(*                                                                         *)
(* and from there by way of "finish", where the pidfile is removed, to     *)
(* "exited".  The signal handler runs on a thread of its own, beside it.   *)
(*                                                                         *)
(* Time is counted in ticks, which the durations of the code are multiples *)
(* of; what takes less than a tick is over before the next one comes.      *)
(***************************************************************************)
EXTENDS Naturals

CONSTANTS
    Launchers, Stoppers,
    NoOne,
    MaxRapid, RapidWindow,  \* MAX_RAPID_RESTARTS, RAPID_WINDOW
    Grace,                  \* GRACE
    StopWait,               \* what `--stop` gives a launcher
    MaxSignals,             \* bound: interrupts by a user or a service manager
    MaxKills,               \* bound: launchers killed, or that lose track
    MaxLives                \* bound: children started

ASSUME LauncherAssumption ==
    /\ NoOne \notin Launchers
    /\ MaxRapid \in Nat \ {0} /\ RapidWindow \in Nat \ {0} /\ Grace \in Nat \ {0}
    /\ StopWait \in Nat /\ MaxSignals \in Nat /\ MaxKills \in Nat /\ MaxLives \in Nat

VARIABLES
    pc,         \* where each launcher is
    rapid,      \* `rapid`, which only matters up to MaxRapid
    age,        \* of `window_start` and of `started`, as far as they matter
    shutting,   \* SHUTTING_DOWN
    childPid,   \* CHILD_PID is that of the child
    handler,    \* the handler of a first interrupt is about to signal the child
    pending,    \* signals on their way to a launcher
    grace,      \* wait_for's deadline: Unset, or one more than the ticks since
    node,       \* the last child of each launcher
    pidfile,    \* whose record it holds
    stop,       \* what each `rn --stop` is doing
    signals, kills, lives,
    late,       \* children started since a stop was asked for
    owed,       \* the child was on record when it was
    abandoned,  \* why a launcher left that was not done
    deaths      \* how long ago the last crashes were, since a restart was asked for

launcherVars == <<pc, rapid, shutting, childPid, handler, grace>>
ghosts == <<late, owed, abandoned, deaths>>
bounds == <<signals, kills, lives>>
vars == <<launcherVars, age, pending, node, pidfile, stop, bounds, ghosts>>

Unset == 0
Window == RapidWindow * 3

EXIT_RESTART == 75
EXIT_FATAL == 78
Crashed == 1
ByTerm == 15        \* no code at all: SIGTERM before there was a handler
Killed == 9
ExitCodes == {0, EXIT_RESTART, EXIT_FATAL, Crashed, ByTerm, Killed}

None == [st |-> "none", code |-> 0, termed |-> FALSE]
Booting == [st |-> "booting", code |-> 0, termed |-> FALSE]
Becomes(n, st) == [st |-> st, code |-> 0, termed |-> n.termed]
ToldTo(st) == [st |-> st, code |-> 0, termed |-> TRUE]
Alive(l) == node[l].st \in {"booting", "serving", "hung", "closing"}
Code(l) == node[l].code
\* Mutant: what a shell makes of a signal.
Dead_shell(n, code) == [st |-> "dead", code |-> code + 128, termed |-> n.termed]

Dead(n, code) == [st |-> "dead", code |-> code, termed |-> n.termed]

AtMostOf(n, max) == IF n < max THEN n ELSE max

\* The newest first; Window is long ago, or never.
NoDeaths == [i \in 1..MaxRapid + 1 |-> Window]
OneMore(d) == [i \in 1..MaxRapid + 1 |-> IF i = 1 THEN 0 ELSE d[i - 1]]
Later(d) == [i \in 1..MaxRapid + 1 |-> AtMostOf(d[i] + 1, Window)]

is_alive(l) == pc[l] \notin {"off", "exited"}
\* There is a handler; before, a signal takes its default action.
install(l) == pc[l] \notin {"off", "checked", "exited"}
running_pid == IF pidfile # NoOne /\ is_alive(pidfile) THEN pidfile ELSE NoOne

TypeOK ==
    /\ pc \in [Launchers -> {"off", "checked", "installed", "build", "spawned", "waiting",
                             "reaped", "sleeping", "finish", "exited"}]
    /\ rapid \in [Launchers -> 0..MaxRapid]
    /\ age \in [Launchers -> [window : 0..Window, life : 0..RapidWindow + 1]]
    /\ shutting \in [Launchers -> BOOLEAN] /\ childPid \in [Launchers -> BOOLEAN]
    /\ handler \in [Launchers -> BOOLEAN] /\ pending \in [Launchers -> Nat]
    /\ grace \in [Launchers -> 0..Grace + 1]
    /\ node \in [Launchers -> [st : {"none", "booting", "serving", "hung", "closing", "dead"},
                               code : ExitCodes, termed : BOOLEAN]]
    /\ pidfile \in Launchers \cup {NoOne}
    /\ stop \in [Stoppers -> [at : {"idle", "none", "error", "stopped", "overdue"}]
                 \cup [at : {"found", "waiting"}, pid : Launchers, age : 0..StopWait]]
    /\ signals \in Nat /\ kills \in Nat /\ lives \in Nat
    /\ late \in [Launchers -> Nat] /\ owed \in [Launchers -> BOOLEAN]
    /\ abandoned \in [Launchers -> {"no", "insisted", "lost", "killed", "gaveUp"}]
    /\ deaths \in [Launchers -> [1..MaxRapid + 1 -> 0..Window]]

Init ==
    /\ pc = [l \in Launchers |-> "off"]
    /\ rapid = [l \in Launchers |-> 0]
    /\ age = [l \in Launchers |-> [window |-> 0, life |-> 0]]
    /\ shutting = [l \in Launchers |-> FALSE] /\ childPid = [l \in Launchers |-> FALSE]
    /\ handler = [l \in Launchers |-> FALSE] /\ pending = [l \in Launchers |-> 0]
    /\ grace = [l \in Launchers |-> Unset]
    /\ node = [l \in Launchers |-> None]
    /\ pidfile = NoOne
    /\ stop = [s \in Stoppers |-> [at |-> "idle"]]
    /\ signals = 0 /\ kills = 0 /\ lives = 0
    /\ late = [l \in Launchers |-> 0] /\ owed = [l \in Launchers |-> FALSE]
    /\ abandoned = [l \in Launchers |-> "no"]
    /\ deaths = [l \in Launchers |-> NoDeaths]

-----------------------------------------------------------------------------
(* Starting: run() of main.rs. *)

Start(l) ==
    /\ pc[l] = "off"
    /\ pc' = [pc EXCEPT ![l] = IF running_pid = NoOne THEN "checked" ELSE "exited"]
    /\ UNCHANGED <<rapid, age, shutting, childPid, handler, pending, grace, node, pidfile, stop, bounds, ghosts>>

Install(l) ==
    /\ pc[l] = "checked"
    /\ pc' = [pc EXCEPT ![l] = "installed"]
    /\ UNCHANGED <<rapid, age, shutting, childPid, handler, pending, grace, node, pidfile, stop, bounds, ghosts>>

write_own(l) ==
    /\ pc[l] = "installed"
    /\ pc' = [pc EXCEPT ![l] = "build"]
    /\ pidfile' = l
    /\ age' = [age EXCEPT ![l] = [window |-> 0, life |-> 0]]
    /\ UNCHANGED <<rapid, shutting, childPid, handler, pending, grace, node, stop, bounds, ghosts>>

\* remove(), and run() returns.
Finish(l) ==
    /\ pc[l] = "finish"
    /\ pc' = [pc EXCEPT ![l] = "exited"]
    /\ pidfile' = NoOne
    /\ pending' = [pending EXCEPT ![l] = 0]
    /\ handler' = [handler EXCEPT ![l] = FALSE]
    /\ UNCHANGED <<rapid, age, shutting, childPid, grace, node, stop, bounds, ghosts>>

-----------------------------------------------------------------------------
(* The loop of supervise(), with wait_for() of shutdown.rs. *)

Spawn(l) ==
    /\ pc[l] = "build" /\ lives < MaxLives
    /\ lives' = lives + 1
    /\ pc' = [pc EXCEPT ![l] = "spawned"]
    /\ node' = [node EXCEPT ![l] = Booting]
    /\ age' = [age EXCEPT ![l].life = 0]
    /\ late' = [late EXCEPT ![l] = @ + (IF shutting[l] THEN 1 ELSE 0)]
    /\ owed' = [owed EXCEPT ![l] = FALSE]
    /\ UNCHANGED <<rapid, shutting, childPid, handler, pending, grace, pidfile, stop, signals, kills,
                   abandoned, deaths>>

SpawnFails(l) ==
    /\ pc[l] = "build"
    /\ pc' = [pc EXCEPT ![l] = "finish"]
    /\ UNCHANGED <<rapid, age, shutting, childPid, handler, pending, grace, node, pidfile, stop, bounds, ghosts>>

set_child(l) ==
    /\ pc[l] = "spawned"
    /\ pc' = [pc EXCEPT ![l] = "waiting"]
    /\ childPid' = [childPid EXCEPT ![l] = TRUE]
    /\ grace' = [grace EXCEPT ![l] = Unset]
    /\ UNCHANGED <<rapid, age, shutting, handler, pending, node, pidfile, stop, bounds, ghosts>>

Reap(l) ==
    /\ pc[l] = "waiting" /\ node[l].st = "dead"
    /\ pc' = [pc EXCEPT ![l] = "reaped"]
    /\ UNCHANGED <<rapid, age, shutting, childPid, handler, pending, grace, node, pidfile, stop, bounds, ghosts>>

\* Mutant: twice the grace.
Expired_late(l) == grace[l] > 2 * Grace

Expired(l) == grace[l] > Grace

\* The poll that first sees the flag sets the deadline.
SetDeadline(l) ==
    /\ pc[l] = "waiting" /\ Alive(l) /\ shutting[l] /\ grace[l] = Unset
    /\ grace' = [grace EXCEPT ![l] = 1]
    /\ UNCHANGED <<pc, rapid, age, shutting, childPid, handler, pending, node, pidfile, stop, bounds, ghosts>>

\* Mutant: it is left to wait, however long.
Kill_waits(l) ==
    /\ pc[l] = "waiting" /\ Alive(l) /\ shutting[l] /\ Expired(l)
    /\ grace' = [grace EXCEPT ![l] = 1]
    /\ UNCHANGED <<pc, rapid, age, shutting, childPid, handler, pending, node, pidfile, stop, bounds, ghosts>>

Kill(l) ==
    /\ pc[l] = "waiting" /\ Alive(l) /\ shutting[l] /\ Expired(l)
    /\ pc' = [pc EXCEPT ![l] = "reaped"]
    /\ node' = [node EXCEPT ![l] = Dead(@, Killed)]
    /\ UNCHANGED <<rapid, age, shutting, childPid, handler, pending, grace, pidfile, stop, bounds, ghosts>>

LoseTrack(l) ==
    /\ pc[l] = "waiting" /\ kills < MaxKills
    /\ pc' = [pc EXCEPT ![l] = "finish"]
    /\ kills' = kills + 1
    /\ abandoned' = [abandoned EXCEPT ![l] = "lost"]
    /\ UNCHANGED <<rapid, age, shutting, childPid, handler, pending, grace, node, pidfile, stop, signals, lives,
                   late, owed, deaths>>

\* set_child(None), the flag, then the match on the exit code.
Ends(l) ==
    /\ pc[l] = "reaped" /\ (shutting[l] \/ Code(l) \in {0, EXIT_FATAL})
    /\ pc' = [pc EXCEPT ![l] = "finish"]
    /\ childPid' = [childPid EXCEPT ![l] = FALSE]
    /\ UNCHANGED <<rapid, age, shutting, handler, pending, grace, node, pidfile, stop, bounds, ghosts>>

\* Mutant: the code is looked at before the flag.
Restart_first(l) ==
    /\ pc[l] = "reaped" /\ Code(l) = EXIT_RESTART
    /\ pc' = [pc EXCEPT ![l] = "build"]
    /\ childPid' = [childPid EXCEPT ![l] = FALSE]
    /\ rapid' = [rapid EXCEPT ![l] = 0]
    /\ deaths' = [deaths EXCEPT ![l] = NoDeaths]
    /\ UNCHANGED <<age, shutting, handler, pending, grace, node, pidfile, stop, bounds,
                   late, owed, abandoned>>

\* Mutant: the count of crashes survives a restart.
Restart_counts(l) ==
    /\ pc[l] = "reaped" /\ ~shutting[l] /\ Code(l) = EXIT_RESTART
    /\ pc' = [pc EXCEPT ![l] = "build"]
    /\ childPid' = [childPid EXCEPT ![l] = FALSE]
    /\ deaths' = [deaths EXCEPT ![l] = NoDeaths]
    /\ UNCHANGED <<rapid, age, shutting, handler, pending, grace, node, pidfile, stop, bounds,
                   late, owed, abandoned>>

Restart(l) ==
    /\ pc[l] = "reaped" /\ ~shutting[l] /\ Code(l) = EXIT_RESTART
    /\ pc' = [pc EXCEPT ![l] = "build"]
    /\ childPid' = [childPid EXCEPT ![l] = FALSE]
    /\ rapid' = [rapid EXCEPT ![l] = 0]
    /\ deaths' = [deaths EXCEPT ![l] = NoDeaths]
    /\ UNCHANGED <<age, shutting, handler, pending, grace, node, pidfile, stop, bounds,
                   late, owed, abandoned>>

Crash(l) ==
    LET lived == age[l].life > RapidWindow
        window == IF lived THEN 0 ELSE age[l].window
        count == (IF lived THEN 0 ELSE rapid[l]) + 1
        giveUp == count >= MaxRapid /\ window < Window
    IN  /\ pc[l] = "reaped" /\ ~shutting[l] /\ Code(l) \notin {0, EXIT_RESTART, EXIT_FATAL}
        /\ pc' = [pc EXCEPT ![l] = IF giveUp THEN "finish" ELSE "sleeping"]
        /\ childPid' = [childPid EXCEPT ![l] = FALSE]
        /\ rapid' = [rapid EXCEPT ![l] = AtMostOf(count, MaxRapid)]
        /\ age' = [age EXCEPT ![l].window = window]
        /\ abandoned' = [abandoned EXCEPT ![l] = IF giveUp THEN "gaveUp" ELSE @]
        /\ deaths' = [deaths EXCEPT ![l] = OneMore(@)]
        /\ UNCHANGED <<shutting, handler, pending, grace, node, pidfile, stop, bounds, late, owed>>

Wake(l) ==
    /\ pc[l] = "sleeping"
    /\ pc' = [pc EXCEPT ![l] = "build"]
    /\ UNCHANGED <<rapid, age, shutting, childPid, handler, pending, grace, node, pidfile, stop, bounds, ghosts>>

-----------------------------------------------------------------------------
(* Signals. *)

\* SIGTERM reaches a child: one that boots has no handler yet and dies of it.
Term(l) ==
    node' = [node EXCEPT ![l] =
        IF @.st = "booting" THEN Dead(@, ByTerm)
        ELSE IF @.st = "serving" THEN ToldTo("closing")
        ELSE IF Alive(l) THEN ToldTo(@.st) ELSE @]

\* A user or a service manager; a Ctrl-C reaches the group, the child with it.
Interrupt(l) ==
    /\ is_alive(l) /\ signals < MaxSignals
    /\ signals' = signals + 1
    /\ pending' = [pending EXCEPT ![l] = @ + 1]
    /\ Term(l) \/ UNCHANGED node
    /\ UNCHANGED <<launcherVars, age, pidfile, stop, kills, lives, ghosts>>

Unhandled(l) ==
    /\ pending[l] > 0 /\ is_alive(l) /\ ~install(l)
    /\ pc' = [pc EXCEPT ![l] = "exited"]
    /\ pending' = [pending EXCEPT ![l] = 0]
    /\ UNCHANGED <<rapid, age, shutting, childPid, handler, grace, node, pidfile, stop, bounds, ghosts>>

FirstInterrupt(l) ==
    /\ pending[l] > 0 /\ install(l) /\ ~handler[l] /\ ~shutting[l]
    /\ pending' = [pending EXCEPT ![l] = @ - 1]
    /\ shutting' = [shutting EXCEPT ![l] = TRUE]
    /\ handler' = [handler EXCEPT ![l] = TRUE]
    /\ owed' = [owed EXCEPT ![l] = childPid[l]]
    /\ UNCHANGED <<pc, rapid, age, childPid, grace, node, pidfile, stop, bounds,
                   late, abandoned, deaths>>

\* Mutant: the child is left to find out by itself.
signal_child_not(l) ==
    /\ handler[l] /\ install(l)
    /\ handler' = [handler EXCEPT ![l] = FALSE]
    /\ UNCHANGED <<pc, rapid, age, shutting, childPid, grace, pending, node, pidfile, stop, bounds, ghosts>>

signal_child(l) ==
    /\ handler[l] /\ install(l)
    /\ handler' = [handler EXCEPT ![l] = FALSE]
    /\ IF childPid[l] THEN Term(l) ELSE UNCHANGED node
    /\ UNCHANGED <<pc, rapid, age, shutting, childPid, grace, pending, pidfile, stop, bounds, ghosts>>

SecondInterrupt(l) ==
    /\ pending[l] > 0 /\ install(l) /\ ~handler[l] /\ shutting[l]
    /\ pending' = [pending EXCEPT ![l] = 0]
    /\ pidfile' = NoOne
    /\ pc' = [pc EXCEPT ![l] = "exited"]
    /\ abandoned' = [abandoned EXCEPT ![l] = "insisted"]
    /\ UNCHANGED <<rapid, age, shutting, childPid, handler, grace, node, stop, bounds,
                   late, owed, deaths>>

\* The launcher is killed: its record stays, and so does its child.
KillLauncher(l) ==
    /\ is_alive(l) /\ kills < MaxKills
    /\ kills' = kills + 1
    /\ pc' = [pc EXCEPT ![l] = "exited"]
    /\ pending' = [pending EXCEPT ![l] = 0]
    /\ handler' = [handler EXCEPT ![l] = FALSE]
    /\ abandoned' = [abandoned EXCEPT ![l] = "killed"]
    /\ UNCHANGED <<rapid, age, shutting, childPid, grace, node, pidfile, stop, signals, lives,
                   late, owed, deaths>>

-----------------------------------------------------------------------------
(* The child, as far as the launcher sees it: be/src/server.ts. *)

Dies(l, code) ==
    /\ node' = [node EXCEPT ![l] = Dead(@, code)]
    /\ UNCHANGED <<launcherVars, age, pending, pidfile, stop, bounds, ghosts>>

\* The port is taken by one; of another that binds it, and of one that may not
\* or finds a stranger there, the API's listen fails.
Listen(l) ==
    /\ node[l].st = "booting"
    /\ \A k \in Launchers : node[k].st \notin {"serving", "hung"}
    /\ node' = [node EXCEPT ![l] = Becomes(@, "serving")]
    /\ UNCHANGED <<launcherVars, age, pending, pidfile, stop, bounds, ghosts>>

ListenFails(l) == node[l].st = "booting" /\ Dies(l, EXIT_FATAL)

\* A crash at any time; /api/restart and /api/stop while it serves.
Exits(l) == \E code \in {Crashed, EXIT_RESTART, 0} :
    /\ node[l].st = "serving" \/ (code = Crashed /\ Alive(l))
    /\ Dies(l, code)

\* Work that never gives the event loop back keeps every handler from running.
Hangs(l) ==
    /\ node[l].st = "serving"
    /\ node' = [node EXCEPT ![l] = Becomes(@, "hung")]
    /\ UNCHANGED <<launcherVars, age, pending, pidfile, stop, bounds, ghosts>>

Closes(l) == node[l].st = "closing" /\ Dies(l, 0)

-----------------------------------------------------------------------------
(* `rn --stop`: main.rs, and stop() of pidfile.rs. *)

StopFinds(s) ==
    /\ stop[s].at = "idle"
    /\ stop' = [stop EXCEPT ![s] = IF running_pid = NoOne THEN [at |-> "none"]
                                   ELSE [at |-> "found", pid |-> running_pid, age |-> 0]]
    /\ UNCHANGED <<launcherVars, age, pending, node, pidfile, bounds, ghosts>>

StopSignals(s) ==
    /\ stop[s].at = "found"
    /\ IF is_alive(stop[s].pid)
       THEN /\ stop' = [stop EXCEPT ![s].at = "waiting"]
            /\ pending' = [pending EXCEPT ![stop[s].pid] = @ + 1]
       ELSE /\ stop' = [stop EXCEPT ![s] = [at |-> "error"]]
            /\ UNCHANGED pending
    /\ UNCHANGED <<launcherVars, age, node, pidfile, bounds, ghosts>>

\* The poll: the deadline is looked at before the launcher is.
StopLooks(s) ==
    LET over == stop[s].age = StopWait
    IN  /\ stop[s].at = "waiting" /\ (over \/ ~is_alive(stop[s].pid))
        /\ stop' = [stop EXCEPT ![s] = [at |-> IF over THEN "overdue" ELSE "stopped"]]
        /\ pidfile' = IF over THEN pidfile ELSE NoOne
        /\ UNCHANGED <<launcherVars, age, pending, node, bounds, ghosts>>

-----------------------------------------------------------------------------
\* Nothing that takes less than a tick is under way.
Quiet ==
    /\ \A l \in Launchers :
        /\ pending[l] = 0 /\ ~handler[l]
        /\ \/ pc[l] \in {"off", "exited"}
           \/ pc[l] = "waiting" /\ node[l].st # "dead" /\ (shutting[l] => grace[l] # Unset /\ ~Expired(l))
        /\ node[l].st # "closing"
    /\ \A s \in Stoppers :
        stop[s].at = "waiting" => stop[s].age < StopWait /\ is_alive(stop[s].pid)

Tick ==
    /\ Quiet
    /\ age' = [l \in Launchers |->
            IF is_alive(l) THEN [window |-> AtMostOf(age[l].window + 1, Window),
                                 life |-> AtMostOf(age[l].life + 1, RapidWindow + 1)]
            ELSE [window |-> 0, life |-> 0]]
    /\ grace' = [l \in Launchers |-> IF shutting[l] /\ pc[l] = "waiting" THEN grace[l] + 1 ELSE grace[l]]
    /\ stop' = [s \in Stoppers |-> IF stop[s].at = "waiting" THEN [stop[s] EXCEPT !.age = @ + 1] ELSE stop[s]]
    /\ deaths' = [l \in Launchers |-> IF is_alive(l) THEN Later(deaths[l]) ELSE deaths[l]]
    /\ UNCHANGED <<pc, rapid, shutting, childPid, handler, pending, node, pidfile, bounds,
                   late, owed, abandoned>>

Supervise(l) ==
    \/ Spawn(l) \/ SpawnFails(l) \/ set_child(l) \/ Reap(l) \/ SetDeadline(l) \/ Kill(l)
    \/ Ends(l) \/ Restart(l) \/ Crash(l) \/ Wake(l) \/ Finish(l)

Launch(l) == Start(l) \/ Install(l) \/ write_own(l)
Signalled(l) == Unhandled(l) \/ FirstInterrupt(l) \/ signal_child(l) \/ SecondInterrupt(l)
Child(l) == Listen(l) \/ ListenFails(l) \/ Exits(l) \/ Hangs(l) \/ Closes(l)
Stopping(s) == StopFinds(s) \/ StopSignals(s) \/ StopLooks(s)

Next ==
    \/ \E l \in Launchers :
        Launch(l) \/ Supervise(l) \/ LoseTrack(l) \/ Interrupt(l) \/ Signalled(l)
        \/ KillLauncher(l) \/ Child(l)
    \/ \E s \in Stoppers : Stopping(s)
    \/ Tick

Spec == Init /\ [][Next]_vars

\* The launcher's own code runs, a signal that was sent is handled, and time
\* passes; what a child does, and the user, is nobody's promise but that a
\* child which closes exits, by the timer of its handler at the latest.
Fairness ==
    /\ \A l \in Launchers :
        WF_vars(Supervise(l) \/ Signalled(l) \/ Install(l) \/ write_own(l) \/ Closes(l))
    /\ \A s \in Stoppers : WF_vars(stop[s].at # "idle" /\ Stopping(s))
    /\ SF_vars(Tick)

FairSpec == Spec /\ Fairness

-----------------------------------------------------------------------------
(* Properties. *)

\* A child the launcher knew of when it was told to stop is asked to close
\* before it is killed: no interleaving of the handler's thread with the loop
\* loses the signal (shutdown.rs: set_child, install, wait_for).
PoliteFirst == \A l \in Launchers :
    node[l].code = Killed /\ owed[l] => node[l].termed

\* A launcher gives up only on a crash loop: MaxRapid crashes within three
\* windows, whatever restarts and longer lives came between (supervise()).
GaveUpForCause == \A l \in Launchers :
    abandoned[l] = "gaveUp" => \A i \in 1..MaxRapid : deaths[l][i] < Window

\* The grace a child is given is over before `rn --stop` runs out of patience,
\* so that a stop is never reported overdue of a launcher that does stop
\* (GRACE in shutdown.rs, the ten seconds of main.rs).
StopInTime == Grace < StopWait => \A s \in Stoppers : stop[s].at # "overdue"

\* A launcher that was told to stop, stops, its child hung or not.
StopEnds == \A l \in Launchers : shutting[l] ~> pc[l] = "exited"

\* "Give up if the child dies this many times in quick succession" (main.rs):
\* of children that die in a row within one tick there are MaxRapid at most.
CrashLoopSurfaces == \A l \in Launchers : deaths[l][MaxRapid + 1] # 0

\* The launchers are supervisors: of one child at a time, of none after a stop
\* but the one that was on its way, and they leave none behind unless they are
\* insisted upon, lose track of it, or are killed.
Phase(l) ==
    IF pc[l] \in {"off", "checked", "installed"} THEN "out"
    ELSE IF abandoned[l] \in {"insisted", "lost", "killed"} THEN "abandoned"
    ELSE IF pc[l] \in {"finish", "exited"} THEN "gone"
    ELSE IF shutting[l] THEN "stopping" ELSE "up"

S == INSTANCE Supervisor WITH
    MaxLate <- 1,
    phase <- [l \in Launchers |-> Phase(l)],
    child <- [l \in Launchers |-> Alive(l)],
    late <- late

ImplementsSupervisor == S!Spec
==============================================================================
