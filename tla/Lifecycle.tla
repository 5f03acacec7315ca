------------------------------ MODULE Lifecycle ------------------------------
(***************************************************************************)
(* One life of the back-end process: the scheduler                         *)
(* (be/src/jobs/scheduler.ts), the doors of the API, the registry of work  *)
(* in flight with its idle waiters (be/src/running.ts), and the four ways  *)
(* the process ends (be/src/server.ts): a restart now, a restart when      *)
(* idle, a stop, a signal.                                                 *)
(*                                                                         *)
(* What happens inside a run is JobRunner's; here a run is                 *)
(*                                                                         *)
(*   over -> (reading) -> fresh -> flying -> over                          *)
(*                                                                         *)
(* "reading" awaits the body of an accepted request, "fresh" awaits the    *)
(* token check and is in no registry, "flying" is inside track(), with the *)
(* handler it may await.  An actor is a tick of the scheduler, which       *)
(* awaits the runs it starts one after the other, or a door: a request on  *)
(* its way through the API.  setTickMs only changes how often a tick       *)
(* comes, and a tick comes at any time here.  A handler's runs are part of *)
(* the run that awaits them, and do not make their own jobs look busy.     *)
(***************************************************************************)
EXTENDS Integers, Sequences, FiniteSets, Functions, Bags, BagsExt, SequencesExt

CONSTANTS
    Jobs,
    Order,          \* the catalogue in its order
    Schedules,      \* schedules a job may be given
    Manual,         \* no schedule
    Declared,       \* the effective schedules the process starts with
    Day,            \* the clock units of a day
    Ticks,          \* ticks that are under way at one time (bound)
    Doors,          \* requests that are under way at one time (bound)
    MaxTime,        \* bound: the clock
    MaxPlans,       \* bound: how often the schedule is built
    MaxExits        \* bound: how many exits are asked for

ASSUME LifecycleAssumption ==
    /\ Order \in Seq(Jobs) /\ IsInjective(Order) /\ Range(Order) = Jobs
    /\ Day \in Nat \ {0}
    /\ Schedules \subseteq [kind : {"everyMinutes"}, n : Nat \ {0}]
                      \cup [kind : {"dailyAt"}, n : 0..Day - 1]
    /\ Manual \notin Schedules
    /\ Declared \in [Jobs -> Schedules \cup {Manual}]
    /\ Ticks \subseteq Nat
    /\ Ticks \cap Doors = {}
    /\ MaxTime \in Nat /\ MaxPlans \in Nat \ {0} /\ MaxExits \in Nat

VARIABLES
    now,            \* the clock
    schedule,       \* the effective schedule of each job
    entries,        \* every `entries` array built so far, the last in force
    timer,          \* setInterval is armed
    tick,           \* what each tick is doing
    run,            \* the run each actor has under way: [phase, job]
    fired,          \* the slots that were fired, a bag
    restartWhenIdle, idleWaiters,
    awaited,        \* of the runs a queued restart was asked to wait for,
                    \* those still in flight
    open,           \* the doors a request can come through
    stopping,       \* a signal was taken
    exits,          \* process.exit timers, in the order they were set
    exited          \* why the process is gone

schedulerVars == <<schedule, entries, timer, tick, fired>>
restartVars == <<restartWhenIdle, idleWaiters, awaited>>
exitVars == <<open, stopping, exits, exited>>
vars == <<now, schedulerVars, run, restartVars, exitVars>>

Actors == Ticks \cup Doors
Idle == [plan |-> 0, at |-> 0, from |-> 0]

Over == [phase |-> "over"]
Reading == [phase |-> "reading"]
Fresh(j) == [phase |-> "fresh", job |-> j]
Flight(j) == [phase |-> "flying", job |-> j]

Up == exited = "no"
Flying == {x \in Actors : run[x].phase = "flying"}
IsRunning(j) == \E x \in Flying : run[x].job = j
Settle(x) == run' = [run EXCEPT ![x] = Over]

-----------------------------------------------------------------------------
(* The schedule.                                                           *)

\* nextRun: strictly after the time it is given.
NextRun(s, time) ==
    IF s.kind = "everyMinutes" THEN time + s.n
    ELSE LET candidate == (time \div Day) * Day + s.n
         IN IF candidate > time THEN candidate ELSE candidate + Day

\* start(): an entry for each job that has a schedule, from now.
Plan(schedules) ==
    [j \in {i \in Jobs : schedules[i] # Manual} |->
        [schedule |-> schedules[j], next |-> NextRun(schedules[j], now)]]

Unscheduled == [j \in Jobs |-> Manual]

\* Faulty: stop() after the new interval was armed instead of before.
StartThenStop(schedules) ==
    /\ entries' = Append(entries, Plan(Unscheduled))
    /\ timer' = FALSE

Start(schedules) ==
    /\ entries' = Append(entries, Plan(schedules))
    /\ timer' = (DOMAIN Plan(schedules) # {})

Init ==
    /\ now = 0
    /\ schedule = Declared
    /\ entries = <<Plan(Declared)>>
    /\ timer = (DOMAIN Plan(Declared) # {})
    /\ tick = [t \in Ticks |-> Idle]
    /\ run = [x \in Actors |-> Over]
    /\ fired = EmptyBag
    /\ restartWhenIdle = FALSE /\ idleWaiters = 0 /\ awaited = {}
    /\ open = Doors /\ stopping = FALSE /\ exits = <<>>
    /\ exited = "no"

\* Entries from the one at index `from` on whose time has come.
Due(p, at, from) ==
    {k \in from..Len(Order) :
        Order[k] \in DOMAIN entries[p] /\ entries[p][Order[k]].next <= at}

\* Faulty: a slot that is fired is left for the end of its run to advance.
AdvanceSkipped(p, at, passed) ==
    entries' = [entries EXCEPT ![p] = [j \in DOMAIN entries[p] |->
        IF IsRunning(j) /\ \E k \in passed : Order[k] = j
        THEN [entries[p][j] EXCEPT !.next = NextRun(entries[p][j].schedule, at)]
        ELSE entries[p][j]]]

\* nextRunAt moves first, whatever comes of the slot.
Advance(p, at, passed) ==
    entries' = [entries EXCEPT ![p] = [j \in DOMAIN entries[p] |->
        IF \E k \in passed : Order[k] = j
        THEN [entries[p][j] EXCEPT !.next = NextRun(entries[p][j].schedule, at)]
        ELSE entries[p][j]]]

\* tick(), from one await to the next: entries of a job in flight lose their
\* slot, the first other one that is due is run and awaited.
Scan(t, p, at, from) ==
    LET due == Due(p, at, from)
        free == {k \in due : ~IsRunning(Order[k])}
    IN  \/ /\ free = {}
           /\ Advance(p, at, due)
           /\ tick' = [tick EXCEPT ![t] = Idle]
           /\ UNCHANGED <<fired, run>>
        \/ \E k \in free :
           /\ \A i \in free : k <= i
           /\ Advance(p, at, {i \in due : i <= k})
           /\ tick' = [tick EXCEPT ![t] = [plan |-> p, at |-> at, from |-> k + 1]]
           /\ fired' = BagAdd(fired, <<p, Order[k], entries[p][Order[k]].next>>)
           /\ run' = [run EXCEPT ![t] = Fresh(Order[k])]

\* The interval fires.  Ticks differ in nothing but their numbers.
Tick(t) ==
    /\ Up /\ timer
    /\ tick[t] = Idle
    /\ \A u \in Ticks : tick[u] = Idle => t <= u
    /\ Scan(t, Len(entries), now, 1)
    /\ UNCHANGED <<now, schedule, timer, restartVars, exitVars>>

\* The run it awaited is over: on down the entries it began with.
TickResumes(t) ==
    /\ Up
    /\ tick[t] # Idle
    /\ run[t] = Over
    /\ Scan(t, tick[t].plan, tick[t].at, tick[t].from)
    /\ UNCHANGED <<now, schedule, timer, restartVars, exitVars>>

\* The clock, or a laptop that slept.
Pass ==
    /\ Up
    /\ now < MaxTime
    /\ now' = now + 1
    /\ UNCHANGED <<schedulerVars, run, restartVars, exitVars>>

-----------------------------------------------------------------------------
(* Requests and runs.                                                      *)

Accept(d) ==
    /\ Up
    /\ d \in open /\ run[d] = Over
    /\ run' = [run EXCEPT ![d] = Reading]
    /\ UNCHANGED <<now, schedulerVars, restartVars, exitVars>>

\* POST /api/jobs/:id, a webhook, the mail watcher.
Call(d, j) ==
    /\ Up
    /\ run[d] = Reading
    /\ run' = [run EXCEPT ![d] = Fresh(j)]
    /\ UNCHANGED <<now, schedulerVars, restartVars, exitVars>>

\* Any answer that changes nothing modelled here.
Answer(d) ==
    /\ Up
    /\ run[d] = Reading
    /\ Settle(d)
    /\ UNCHANGED <<now, schedulerVars, restartVars, exitVars>>

\* PUT /api/jobs/:id/config with a schedule that moved.
EditSchedule(d, j, s) ==
    /\ Up
    /\ run[d] = Reading
    /\ Len(entries) < MaxPlans
    /\ Settle(d)
    /\ schedule' = [schedule EXCEPT ![j] = s]
    /\ Start(schedule')
    /\ UNCHANGED <<now, tick, fired, restartVars, exitVars>>

\* runJob after the token check: registered, or a recorded skip.
Begin(x) ==
    /\ Up
    /\ run[x].phase = "fresh"
    /\ IF IsRunning(run[x].job) THEN Settle(x)
       ELSE run' = [run EXCEPT ![x] = Flight(@.job)]
    /\ UNCHANGED <<now, schedulerVars, restartVars, exitVars>>

\* runJob throws before the run exists.
Refuse(x) ==
    /\ Up
    /\ run[x].phase = "fresh"
    /\ Settle(x)
    /\ UNCHANGED <<now, schedulerVars, restartVars, exitVars>>

\* closeListeners: no connection comes in and the idle ones are closed; one
\* that is busy with a request can still bring another.
Close == open' = {d \in open : run[d] # Over}

\* doRestart and the last lines of /api/stop: 100 ms for the answer to leave.
Leave(reason) ==
    /\ Close
    /\ exits' = Append(exits, reason)
    /\ UNCHANGED <<stopping, exited>>

\* Faulty: the size is looked at before the run is deleted.
EndCountsItself(x) ==
    /\ Up
    /\ x \in Flying
    /\ Settle(x)
    /\ awaited' = awaited \ {x}
    /\ IF Flying = {} /\ idleWaiters > 0
       THEN idleWaiters' = 0 /\ Leave("queued")
       ELSE UNCHANGED <<idleWaiters, exitVars>>
    /\ UNCHANGED <<now, schedulerVars, restartWhenIdle>>

\* Faulty: the first run that ends wakes those who wait for all of them.
EndWakesAtOnce(x) ==
    /\ Up
    /\ x \in Flying
    /\ Settle(x)
    /\ awaited' = awaited \ {x}
    /\ IF idleWaiters > 0
       THEN idleWaiters' = 0 /\ Leave("queued")
       ELSE UNCHANGED <<idleWaiters, exitVars>>
    /\ UNCHANGED <<now, schedulerVars, restartWhenIdle>>

\* end(): the last run in flight calls the idle waiters.
End(x) ==
    /\ Up
    /\ x \in Flying
    /\ Settle(x)
    /\ awaited' = awaited \ {x}
    /\ IF Flying = {x} /\ idleWaiters > 0
       THEN idleWaiters' = 0 /\ Leave("queued")
       ELSE UNCHANGED <<idleWaiters, exitVars>>
    /\ UNCHANGED <<now, schedulerVars, restartWhenIdle>>

-----------------------------------------------------------------------------
(* The ways out.                                                           *)

\* One waiter, however often it is asked for.
Queue ==
    /\ restartWhenIdle' = TRUE
    /\ IF restartWhenIdle THEN UNCHANGED <<idleWaiters, awaited>>
       ELSE idleWaiters' = idleWaiters + 1 /\ awaited' = Flying
    /\ UNCHANGED exitVars

\* POST /api/restart
AskRestart(d, when) ==
    /\ Up
    /\ run[d] = Reading
    /\ Len(exits) < MaxExits
    /\ Settle(d)
    /\ IF when = "idle" /\ Flying # {}
       THEN Queue
       ELSE Leave(when) /\ UNCHANGED restartVars
    /\ UNCHANGED <<now, schedulerVars>>

\* POST /api/stop: refused over work in flight unless it is forced.
AskStop(d, force) ==
    /\ Up
    /\ run[d] = Reading
    /\ Len(exits) < MaxExits
    /\ Flying = {} \/ force
    /\ Settle(d)
    /\ Leave("stop")
    /\ UNCHANGED <<now, schedulerVars, restartVars>>

\* SIGTERM or SIGINT: scheduler.stop(), and the listeners are closed.
Signal ==
    /\ Up
    /\ ~stopping
    /\ stopping' = TRUE
    /\ timer' = FALSE
    /\ entries' = Append(entries, Plan(Unscheduled))
    /\ Close
    /\ UNCHANGED <<now, schedule, tick, fired, run, restartVars, exits, exited>>

\* Timers of 100 ms fire in the order they were set; after a signal the
\* process goes when its connections have, or after three seconds.  Its memory
\* is gone; the runs it takes with it stay in `run`.
Exit ==
    /\ Up
    /\ \/ exits # <<>> /\ exited' = Head(exits)
       \/ stopping /\ exited' = "signal"
    /\ entries' = <<Plan(Unscheduled)>> /\ timer' = FALSE
    /\ tick' = [t \in Ticks |-> Idle] /\ fired' = EmptyBag
    /\ restartWhenIdle' = FALSE /\ idleWaiters' = 0
    /\ open' = {} /\ stopping' = FALSE /\ exits' = <<>>
    /\ UNCHANGED <<now, schedule, run, awaited>>

Next ==
    \/ Pass \/ Signal \/ Exit
    \/ \E t \in Ticks : Tick(t) \/ TickResumes(t)
    \/ \E d \in Doors :
          \/ Accept(d) \/ Answer(d)
          \/ \E j \in Jobs : Call(d, j)
          \/ \E j \in Jobs, s \in Schedules \cup {Manual} : EditSchedule(d, j, s)
          \/ \E when \in {"idle", "now"} : AskRestart(d, when)
          \/ \E force \in BOOLEAN : AskStop(d, force)
    \/ \E x \in Actors : Begin(x) \/ Refuse(x) \/ End(x)

\* The interval fires, awaits come back (a token check has a timeout), and
\* every run ends (JobRunner's EveryRunEnds).
Fairness ==
    /\ WF_vars(\E t \in Ticks : Tick(t))
    /\ \A t \in Ticks : WF_vars(TickResumes(t))
    /\ \A x \in Actors : WF_vars(Begin(x) \/ Refuse(x)) /\ WF_vars(End(x))

Spec == Init /\ [][Next]_vars
FairSpec == Spec /\ Fairness

-----------------------------------------------------------------------------
(* Properties.                                                             *)

Entry == [schedule : Schedules, next : Nat]

\* Types, and the counter behind `idleWaiters`: one waiter at most.
TypeOK ==
    /\ now \in 0..MaxTime
    /\ schedule \in [Jobs -> Schedules \cup {Manual}]
    /\ \A p \in 1..Len(entries) :
          DOMAIN entries[p] \subseteq Jobs /\ entries[p] \in [DOMAIN entries[p] -> Entry]
    /\ timer \in BOOLEAN
    /\ tick \in [Ticks -> [plan : 0..Len(entries), at : 0..now,
                           from : 0..Len(Order) + 1]]
    /\ run \in [Actors -> {Over, Reading} \cup [phase : {"fresh", "flying"}, job : Jobs]]
    /\ IsABag(fired)
    /\ restartWhenIdle \in BOOLEAN
    /\ idleWaiters \in 0..1
    /\ awaited \in SUBSET Actors
    /\ open \subseteq Doors /\ stopping \in BOOLEAN
    /\ exits \in Seq({"idle", "queued", "now", "stop"})
    /\ exited \in {"no", "idle", "queued", "now", "stop", "signal"}

(***************************************************************************)
(* running.ts:88: a restart that waits is never stranded.  Whoever waits   *)
(* for the runner to be idle waits for something that is still in flight.  *)
(***************************************************************************)
NoWaiterStranded == idleWaiters > 0 => Flying # {}

(***************************************************************************)
(* server.ts:1635, "the default waits for running work": a process that    *)
(* goes down for a queued restart takes none of the runs with it that were *)
(* in flight when the restart was asked for.                               *)
(***************************************************************************)
RestartWaits == exited = "queued" => awaited = {}

(***************************************************************************)
(* scheduler.ts:155, "a job that throws must still advance": no slot of a  *)
(* schedule is fired twice, with ticks that overlap because one awaits a   *)
(* long run, and with runs that end early or are refused.                  *)
(***************************************************************************)
SlotFiresOnce == \A slot \in BagToSet(fired) : fired[slot] = 1

(***************************************************************************)
(* scheduler.ts:178, "one failing job must not stop the loop": what the    *)
(* effective schedules owe is taken, whatever the jobs before it in the    *)
(* catalogue do and however the schedules are edited, until a signal.  A   *)
(* job with a schedule that no entry carries is owed too.                  *)
(***************************************************************************)
IsOwed(j) ==
    /\ Up /\ ~stopping
    /\ schedule[j] # Manual
    /\ j \in DOMAIN Last(entries) => Last(entries)[j].next <= now
EverySlotIsTaken == \A j \in Jobs : IsOwed(j) ~> ~IsOwed(j)

(***************************************************************************)
(* running.ts:4: "a restart cannot silently abort a running automation".   *)
(* It can: a run that is still fresh when the registry is found empty, or  *)
(* one that a tick starts in the 100 ms before the exit, is in flight when *)
(* the process goes.                                                       *)
(***************************************************************************)
RestartAbortsNothing == exited \in {"idle", "queued"} => Flying = {}
=============================================================================
