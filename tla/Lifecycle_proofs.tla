--------------------------- MODULE Lifecycle_proofs ---------------------------
(***************************************************************************)
(* Proofs about Lifecycle: a queued restart is neither stranded nor early, *)
(* and no slot is fired twice, for any jobs, schedules, ticks and doors.   *)
(***************************************************************************)
EXTENDS Lifecycle, TLAPS

\* What of the type the arguments below use.
Shape ==
    /\ run \in [Actors -> {Over, Reading} \cup [phase : {"fresh", "flying"}, job : Jobs]]
    /\ idleWaiters \in {0, 1}
    /\ exits \in Seq({"idle", "queued", "now", "stop"})
    /\ tick = [t \in Ticks |-> tick[t]]
    /\ \A t \in Ticks : tick[t] # Idle => tick[t].from \in Nat \ {0}

\* A tick that is idle awaits no run.
TickRests == Up => \A t \in Ticks : tick[t] = Idle => run[t] = Over

\* Those a queued restart waits for are in flight: end() takes them out, and
\* nothing else ends them.
Waited == awaited \subseteq Flying

\* A restart is queued once, and the wait is over before it is under way.
Queued == \E i \in 1..Len(exits) : exits[i] = "queued"
Underway ==
    /\ Queued \/ exited = "queued" => awaited = {}
    /\ Up /\ (Queued \/ idleWaiters > 0) => restartWhenIdle

Restarts ==
    /\ Shape /\ TickRests /\ Waited /\ Underway /\ NoWaiterStranded

-----------------------------------------------------------------------------
LEMMA PhaseFacts ==
    ASSUME NEW j
    PROVE  /\ Over.phase = "over" /\ Reading.phase = "reading"
           /\ Fresh(j).phase = "fresh" /\ Flight(j).phase = "flying"
           /\ Fresh(j).job = j /\ Flight(j).job = j
BY DEF Over, Reading, Fresh, Flight

LEMMA InitRestarts == Init => Restarts
<1> SUFFICES ASSUME Init PROVE Restarts
  OBVIOUS
<1>1. run \in [Actors -> {Over}] /\ Flying = {}
  BY DEF Init, Flying, Over
<1>2. exits = <<>> /\ Len(exits) = 0 /\ exits \in Seq({"idle", "queued", "now", "stop"})
  BY DEF Init
<1>4. tick = [t \in Ticks |-> tick[t]] /\ \A t \in Ticks : tick[t] = Idle
  BY DEF Init
<1>5. Shape
  BY <1>1, <1>2, <1>4 DEF Init, Shape
<1>6. TickRests
  BY <1>1, <1>4 DEF TickRests, Actors
<1>7. Underway
  BY <1>2 DEF Init, Underway, Queued
<1> QED
  BY <1>1, <1>5, <1>6, <1>7 DEF Init, Restarts, Waited, NoWaiterStranded

\* A step that moves one actor between phases that are not in flight, or into
\* flight, loses nobody who is in flight.
LEMMA RunMoves ==
    ASSUME Shape, NEW x \in Actors, x \notin Flying,
           NEW r \in {Over, Reading} \cup [phase : {"fresh", "flying"}, job : Jobs],
           run' = [run EXCEPT ![x] = r]
    PROVE  /\ run' \in [Actors -> {Over, Reading}
                                  \cup [phase : {"fresh", "flying"}, job : Jobs]]
           /\ Flying \subseteq Flying'
<1>1. run' \in [Actors -> {Over, Reading} \cup [phase : {"fresh", "flying"}, job : Jobs]]
  BY DEF Shape
<1>2. \A y \in Flying : y \in Flying'
  <2> SUFFICES ASSUME NEW y \in Flying PROVE y \in Flying'
    OBVIOUS
  <2>1. y \in Actors /\ y # x
    BY DEF Flying
  <2>2. run'[y] = run[y]
    BY <2>1 DEF Shape
  <2> QED
    BY <2>1, <2>2 DEF Flying
<1> QED
  BY <1>1, <1>2

\* A step of a door, or of an actor that has a run, leaves the idle ticks be.
LEMMA RunMovesRest ==
    ASSUME Restarts, Up, NEW x \in Actors, x \in Doors \/ run[x] # Over, NEW r,
           run' = [run EXCEPT ![x] = r], tick' = tick
    PROVE  TickRests'
<1> SUFFICES ASSUME NEW t \in Ticks, tick[t] = Idle PROVE run'[t] = Over
  BY DEF TickRests
<1>1. run[t] = Over
  BY DEF Restarts, TickRests
<1>2. t # x
  BY <1>1, LifecycleAssumption
<1> QED
  BY <1>1, <1>2 DEF Restarts, Shape, Actors

\* Such a step keeps the invariant when it touches neither waiters nor exits.
LEMMA RunMovesKeeps ==
    ASSUME Restarts, Up, NEW x \in Actors, x \notin Flying,
           x \in Doors \/ run[x] # Over,
           NEW r \in {Over, Reading} \cup [phase : {"fresh", "flying"}, job : Jobs],
           run' = [run EXCEPT ![x] = r],
           UNCHANGED <<tick, restartVars, exitVars>>
    PROVE  Restarts'
<1>1. Shape' /\ Flying \subseteq Flying'
  BY RunMoves DEF Restarts, Shape, restartVars, exitVars
<1>2. TickRests'
  BY RunMovesRest
<1>3. Underway'
  BY DEF Restarts, Underway, Queued, Up, restartVars, exitVars
<1> QED
  BY <1>1, <1>2, <1>3 DEF Restarts, Waited, NoWaiterStranded, restartVars

LEMMA OrderJobs == \A k \in 1..Len(Order) : Order[k] \in Jobs
BY LifecycleAssumption

\* A scan leaves the runs alone, or gives the tick a fresh one.
LEMMA ScanMoves ==
    ASSUME Restarts, NEW t \in Ticks, NEW p, NEW at, NEW from \in Nat \ {0},
           Scan(t, p, at, from)
    PROVE  /\ tick' = [u \in Ticks |-> tick'[u]]
           /\ \A u \in Ticks \ {t} : tick'[u] = tick[u]
           /\ \/ tick'[t] = Idle /\ run' = run
              \/ /\ tick'[t] # Idle /\ tick'[t].from \in Nat \ {0}
                 /\ \E j \in Jobs : run' = [run EXCEPT ![t] = Fresh(j)]
<1>1. Len(Order) \in Nat
  BY LifecycleAssumption
<1>2. CASE run' = run /\ tick' = [tick EXCEPT ![t] = Idle]
  BY <1>2 DEF Restarts, Shape
<1>3. ASSUME NEW k \in from..Len(Order),
             tick' = [tick EXCEPT ![t] = [plan |-> p, at |-> at, from |-> k + 1]],
             run' = [run EXCEPT ![t] = Fresh(Order[k])]
      PROVE  /\ tick' = [u \in Ticks |-> tick'[u]]
             /\ \A u \in Ticks \ {t} : tick'[u] = tick[u]
             /\ tick'[t] # Idle /\ tick'[t].from \in Nat \ {0}
             /\ \E j \in Jobs : run' = [run EXCEPT ![t] = Fresh(j)]
  <2>1. Order[k] \in Jobs
    BY <1>1, <1>3, OrderJobs
  <2>2. tick'[t].from = k + 1 /\ k + 1 \in Nat \ {0}
    BY <1>1, <1>3 DEF Restarts, Shape
  <2>3. tick'[t] # Idle
    BY <2>2 DEF Idle
  <2>4. tick' = [u \in Ticks |-> tick'[u]] /\ \A u \in Ticks \ {t} : tick'[u] = tick[u]
    BY <1>3 DEF Restarts, Shape
  <2> QED
    BY <1>3, <2>1, <2>2, <2>3, <2>4
<1>4. \/ run' = run /\ tick' = [tick EXCEPT ![t] = Idle]
      \/ \E k \in from..Len(Order) :
            /\ tick' = [tick EXCEPT ![t] = [plan |-> p, at |-> at, from |-> k + 1]]
            /\ run' = [run EXCEPT ![t] = Fresh(Order[k])]
  BY DEF Scan, Due
<1> QED
  BY <1>2, <1>3, <1>4

-----------------------------------------------------------------------------
(* One step per action.                                                    *)

LEMMA ScanKeeps ==
    ASSUME Restarts, Up, NEW t \in Ticks, run[t] = Over,
           NEW p, NEW at, NEW from \in Nat \ {0},
           Scan(t, p, at, from), UNCHANGED <<restartVars, exitVars>>
    PROVE  Restarts'
<1>1. /\ tick' = [u \in Ticks |-> tick'[u]]
      /\ \A u \in Ticks \ {t} : tick'[u] = tick[u]
      /\ \/ tick'[t] = Idle /\ run' = run
         \/ /\ tick'[t] # Idle /\ tick'[t].from \in Nat \ {0}
            /\ \E j \in Jobs : run' = [run EXCEPT ![t] = Fresh(j)]
  BY ScanMoves
<1>2. t \in Actors /\ t \notin Flying
  BY PhaseFacts DEF Actors, Flying
<1>3. /\ run' \in [Actors -> {Over, Reading}
                              \cup [phase : {"fresh", "flying"}, job : Jobs]]
      /\ Flying \subseteq Flying'
  <2>1. CASE run' = run
    BY <2>1 DEF Restarts, Shape, Flying
  <2>2. CASE \E j \in Jobs : run' = [run EXCEPT ![t] = Fresh(j)]
    <3>1. PICK j \in Jobs : run' = [run EXCEPT ![t] = Fresh(j)]
      BY <2>2
    <3>2. Fresh(j) \in [phase : {"fresh", "flying"}, job : Jobs]
      BY DEF Fresh
    <3> QED
      BY <1>2, <3>1, <3>2, RunMoves DEF Restarts
  <2> QED
    BY <1>1, <2>1, <2>2
<1>4. TickRests'
  <2> SUFFICES ASSUME NEW u \in Ticks, tick'[u] = Idle PROVE run'[u] = Over
    BY DEF TickRests
  <2>1. CASE u # t
    <3>1. run[u] = Over
      BY <1>1, <2>1 DEF Restarts, TickRests
    <3> QED
      BY <1>1, <2>1, <3>1 DEF Restarts, Shape, Actors
  <2>2. CASE u = t
    BY <1>1, <2>2
  <2> QED
    BY <2>1, <2>2
<1>5. \A u \in Ticks : tick'[u] # Idle => tick'[u].from \in Nat \ {0}
  BY <1>1 DEF Restarts, Shape
<1>6. Shape'
  BY <1>1, <1>3, <1>5 DEF Restarts, Shape, restartVars, exitVars
<1>7. Underway'
  BY DEF Restarts, Underway, Queued, Up, restartVars, exitVars
<1> QED
  BY <1>3, <1>4, <1>6, <1>7 DEF Restarts, Waited, NoWaiterStranded, restartVars

\* doRestart: one more exit.
LEMMA LeaveFacts ==
    ASSUME Shape, NEW reason \in {"idle", "queued", "now", "stop"}, Leave(reason)
    PROVE  /\ exits' \in Seq({"idle", "queued", "now", "stop"})
           /\ exited' = exited
           /\ Queued' => Queued \/ reason = "queued"
BY DEF Leave, Shape, Queued

LEMMA EndKeeps ==
    ASSUME Restarts, NEW x \in Actors, End(x)
    PROVE  Restarts'
<1>1. /\ Up /\ x \in Flying /\ run' = [run EXCEPT ![x] = Over]
      /\ awaited' = awaited \ {x} /\ tick' = tick
      /\ restartWhenIdle' = restartWhenIdle
  BY DEF End, Settle, schedulerVars
<1>2. run' \in [Actors -> {Over, Reading}
                          \cup [phase : {"fresh", "flying"}, job : Jobs]]
  BY <1>1 DEF Restarts, Shape
<1>3. Flying' = Flying \ {x}
  <2>1. \A y \in Actors : (run'[y].phase = "flying") <=> (run[y].phase = "flying" /\ y # x)
    BY <1>1, PhaseFacts DEF Restarts, Shape, Flying
  <2> QED
    BY <2>1 DEF Flying
<1>4. Waited'
  BY <1>1, <1>3 DEF Restarts, Waited
<1>5. TickRests'
  BY <1>1, PhaseFacts, RunMovesRest DEF Flying
<1>6. CASE Flying = {x} /\ idleWaiters > 0
  <2>1. idleWaiters' = 0 /\ Leave("queued")
    BY <1>6 DEF End
  <2>2. awaited' = {} /\ restartWhenIdle'
    BY <1>1, <1>6 DEF Restarts, Waited, Underway
  <2>3. exits' \in Seq({"idle", "queued", "now", "stop"})
    BY <2>1, LeaveFacts DEF Restarts
  <2>4. Underway'
    BY <2>2 DEF Underway
  <2> QED
    BY <1>1, <1>2, <1>4, <1>5, <2>1, <2>3, <2>4 DEF Restarts, Shape, NoWaiterStranded
<1>7. CASE ~(Flying = {x} /\ idleWaiters > 0)
  <2>1. UNCHANGED <<idleWaiters, exitVars>>
    BY <1>7 DEF End
  <2>2. NoWaiterStranded'
    BY <1>1, <1>3, <1>7, <2>1 DEF NoWaiterStranded
  <2>3. Underway'
    BY <1>1, <2>1 DEF Restarts, Underway, Queued, Up, exitVars
  <2> QED
    BY <1>1, <1>2, <1>4, <1>5, <2>1, <2>2, <2>3 DEF Restarts, Shape, exitVars
<1> QED
  BY <1>6, <1>7

\* What a request to leave does to the runs: only its own is over.
LEMMA AskMoves ==
    ASSUME Restarts, Up, NEW d \in Doors, run[d] = Reading, Settle(d), tick' = tick
    PROVE  /\ run' \in [Actors -> {Over, Reading}
                                  \cup [phase : {"fresh", "flying"}, job : Jobs]]
           /\ Flying \subseteq Flying'
           /\ TickRests'
<1>1. d \in Actors /\ d \notin Flying
  BY PhaseFacts DEF Actors, Flying
<1>2. run' = [run EXCEPT ![d] = Over]
  BY DEF Settle
<1> QED
  BY <1>1, <1>2, RunMoves, RunMovesRest DEF Restarts

LEMMA AskRestartKeeps ==
    ASSUME Restarts, NEW d \in Doors, NEW when \in {"idle", "now"}, AskRestart(d, when)
    PROVE  Restarts'
<1>1. Up /\ run[d] = Reading /\ Settle(d) /\ tick' = tick
  BY DEF AskRestart, schedulerVars
<1>2. /\ run' \in [Actors -> {Over, Reading}
                              \cup [phase : {"fresh", "flying"}, job : Jobs]]
      /\ Flying \subseteq Flying'
      /\ TickRests'
  BY <1>1, AskMoves
<1>3. CASE when = "idle" /\ Flying # {}
  <2>1. Queue
    BY <1>3 DEF AskRestart
  <2>2. exits' = exits /\ exited' = exited
    BY <2>1 DEF Queue, exitVars
  <2>3. NoWaiterStranded'
    BY <1>2, <1>3 DEF NoWaiterStranded
  <2>4. CASE restartWhenIdle
    <3>2. restartWhenIdle' /\ UNCHANGED <<idleWaiters, awaited>>
      BY <2>1, <2>4 DEF Queue
    <3>3. Waited' /\ Underway'
      BY <1>2, <2>2, <3>2 DEF Restarts, Waited, Underway, Queued, Up
    <3> QED
      BY <1>1, <1>2, <2>2, <2>3, <3>2, <3>3 DEF Restarts, Shape
  <2>5. CASE ~restartWhenIdle
    <3>1. restartWhenIdle' /\ idleWaiters' = idleWaiters + 1 /\ awaited' = Flying
      BY <2>1, <2>5 DEF Queue
    <3>2. ~Queued /\ idleWaiters = 0 /\ exited = "no"
      BY <1>1, <2>5 DEF Restarts, Shape, Underway, Up
    <3>3. Waited' /\ Underway'
      BY <1>2, <2>2, <3>1, <3>2 DEF Waited, Underway, Queued
    <3> QED
      BY <1>1, <1>2, <2>2, <2>3, <3>1, <3>2, <3>3 DEF Restarts, Shape
  <2> QED
    BY <2>4, <2>5
<1>4. CASE ~(when = "idle" /\ Flying # {})
  <2>1. Leave(when) /\ UNCHANGED restartVars
    BY <1>4 DEF AskRestart
  <2>2. /\ exits' \in Seq({"idle", "queued", "now", "stop"})
        /\ exited' = exited /\ (Queued' => Queued)
    BY <2>1, LeaveFacts DEF Restarts
  <2>3. Underway' /\ Waited' /\ NoWaiterStranded'
    BY <1>2, <2>1, <2>2 DEF Restarts, Underway, Waited, NoWaiterStranded, Up, restartVars
  <2> QED
    BY <1>1, <1>2, <2>1, <2>2, <2>3 DEF Restarts, Shape, restartVars
<1> QED
  BY <1>3, <1>4

LEMMA AskStopKeeps ==
    ASSUME Restarts, NEW d \in Doors, NEW force \in BOOLEAN, AskStop(d, force)
    PROVE  Restarts'
<1>1. /\ Up /\ run[d] = Reading /\ Settle(d) /\ tick' = tick
      /\ Leave("stop") /\ UNCHANGED restartVars
  BY DEF AskStop, schedulerVars
<1>2. /\ run' \in [Actors -> {Over, Reading}
                              \cup [phase : {"fresh", "flying"}, job : Jobs]]
      /\ Flying \subseteq Flying'
      /\ TickRests'
  BY <1>1, AskMoves
<1>3. /\ exits' \in Seq({"idle", "queued", "now", "stop"})
      /\ exited' = exited /\ (Queued' => Queued)
  BY <1>1, LeaveFacts DEF Restarts
<1>4. Underway' /\ Waited' /\ NoWaiterStranded'
  BY <1>1, <1>2, <1>3 DEF Restarts, Underway, Waited, NoWaiterStranded, Up, restartVars
<1> QED
  BY <1>1, <1>2, <1>3, <1>4 DEF Restarts, Shape, restartVars

LEMMA ExitKeeps ==
    ASSUME Restarts, Exit
    PROVE  Restarts'
<1>1. /\ run' = run /\ tick' = [t \in Ticks |-> Idle] /\ Flying' = Flying
      /\ idleWaiters' = 0 /\ exits' = <<>> /\ awaited' = awaited
  BY DEF Exit, Flying
<1>2. exited' # "no" /\ (exited' = "queued" => Queued)
  <2>1. CASE exits # <<>> /\ exited' = Head(exits)
    <3>1. Len(exits) \in Nat \ {0} /\ Head(exits) = exits[1]
          /\ exits[1] \in {"idle", "queued", "now", "stop"}
      BY <2>1 DEF Restarts, Shape
    <3> QED
      BY <2>1, <3>1 DEF Queued
  <2>2. CASE exited' = "signal"
    BY <2>2
  <2> QED
    BY <2>1, <2>2 DEF Exit
<1>3. exits' \in Seq({"idle", "queued", "now", "stop"}) /\ Len(exits') = 0
  BY <1>1
<1>4. ~Queued'
  BY <1>3 DEF Queued
<1>5. Shape'
  BY <1>1, <1>3 DEF Restarts, Shape
<1>6. TickRests' /\ Underway'
  BY <1>1, <1>2, <1>4 DEF Restarts, TickRests, Up, Underway
<1> QED
  BY <1>1, <1>5, <1>6 DEF Restarts, Waited, NoWaiterStranded

LEMMA DoorKeeps ==
    ASSUME Restarts, NEW d \in Doors,
           \/ Accept(d) \/ Answer(d)
           \/ \E j \in Jobs : Call(d, j)
           \/ \E j \in Jobs, s \in Schedules \cup {Manual} : EditSchedule(d, j, s)
    PROVE  Restarts'
<1>1. d \in Actors /\ Up
  BY DEF Actors, Accept, Answer, Call, EditSchedule
<1>2. UNCHANGED <<tick, restartVars, exitVars>>
  BY DEF Accept, Answer, Call, EditSchedule, schedulerVars
<1>3. d \notin Flying
  BY PhaseFacts DEF Accept, Answer, Call, EditSchedule, Flying
<1>4. \E r \in {Over, Reading} \cup [phase : {"fresh", "flying"}, job : Jobs] :
        run' = [run EXCEPT ![d] = r]
  BY DEF Accept, Answer, Call, EditSchedule, Settle, Fresh
<1> QED
  BY <1>1, <1>2, <1>3, <1>4, RunMovesKeeps

LEMMA BeginKeeps ==
    ASSUME Restarts, NEW x \in Actors, Begin(x) \/ Refuse(x)
    PROVE  Restarts'
<1>1. /\ Up /\ run[x].phase = "fresh"
      /\ UNCHANGED <<tick, restartVars, exitVars>>
  BY DEF Begin, Refuse, schedulerVars
<1>2. x \notin Flying /\ run[x] # Over
  BY <1>1, PhaseFacts DEF Flying
<1>3. run[x] \in [phase : {"fresh", "flying"}, job : Jobs]
  BY <1>1, PhaseFacts DEF Restarts, Shape
<1>4. Flight(run[x].job) \in [phase : {"fresh", "flying"}, job : Jobs]
  BY <1>3 DEF Flight
<1>5. \/ run' = [run EXCEPT ![x] = Over]
      \/ run' = [run EXCEPT ![x] = Flight(run[x].job)]
  BY DEF Begin, Refuse, Settle
<1> QED
  BY <1>1, <1>2, <1>4, <1>5, RunMovesKeeps

LEMMA TickKeeps ==
    ASSUME Restarts, NEW t \in Ticks, Tick(t) \/ TickResumes(t)
    PROVE  Restarts'
<1>1. CASE Tick(t)
  <2>1. run[t] = Over
    BY <1>1 DEF Tick, Restarts, TickRests
  <2>2. 1 \in Nat \ {0}
    OBVIOUS
  <2> QED
    BY <1>1, <2>1, <2>2, ScanKeeps DEF Tick
<1>2. CASE TickResumes(t)
  <2>1. tick[t].from \in Nat \ {0}
    BY <1>2 DEF TickResumes, Restarts, Shape
  <2> QED
    BY <1>2, <2>1, ScanKeeps DEF TickResumes
<1> QED
  BY <1>1, <1>2

LEMMA NextKeeps == Restarts /\ [Next]_vars => Restarts'
<1> SUFFICES ASSUME Restarts, [Next]_vars PROVE Restarts'
  OBVIOUS
<1>1. CASE UNCHANGED vars
  BY <1>1 DEF vars, schedulerVars, restartVars, exitVars, Restarts, Shape, TickRests,
      Waited, Underway, Queued, NoWaiterStranded, Flying, Up
<1>2. CASE Pass
  BY <1>2 DEF Pass, schedulerVars, restartVars, exitVars, Restarts, Shape, TickRests,
      Waited, Underway, Queued, NoWaiterStranded, Flying, Up
<1>3. CASE Signal
  BY <1>3 DEF Signal, restartVars, Restarts, Shape, TickRests,
      Waited, Underway, Queued, NoWaiterStranded, Flying, Up
<1>4. CASE Exit
  BY <1>4, ExitKeeps
<1>5. CASE \E t \in Ticks : Tick(t) \/ TickResumes(t)
  BY <1>5, TickKeeps
<1>6. CASE \E d \in Doors :
          \/ Accept(d) \/ Answer(d)
          \/ \E j \in Jobs : Call(d, j)
          \/ \E j \in Jobs, s \in Schedules \cup {Manual} : EditSchedule(d, j, s)
          \/ \E when \in {"idle", "now"} : AskRestart(d, when)
          \/ \E force \in BOOLEAN : AskStop(d, force)
  BY <1>6, DoorKeeps, AskRestartKeeps, AskStopKeeps
<1>7. CASE \E x \in Actors : Begin(x) \/ Refuse(x) \/ End(x)
  BY <1>7, BeginKeeps, EndKeeps
<1> QED
  BY <1>1, <1>2, <1>3, <1>4, <1>5, <1>6, <1>7 DEF Next

-----------------------------------------------------------------------------
(***************************************************************************)
(* running.ts:88: whoever waits for the runner to be idle waits for        *)
(* something that is still in flight, so that some end() will wake it.     *)
(***************************************************************************)
THEOREM NobodyIsStranded == Spec => []NoWaiterStranded
<1>1. Restarts => NoWaiterStranded
  BY DEF Restarts
<1> QED
  BY InitRestarts, NextKeeps, <1>1, PTL DEF Spec

(***************************************************************************)
(* server.ts:1635: a process that goes down for a queued restart takes     *)
(* with it none of the runs that were in flight when it was asked for.     *)
(***************************************************************************)
THEOREM QueuedRestartsWait == Spec => []RestartWaits
<1>1. Restarts => RestartWaits
  BY DEF Restarts, Underway, RestartWaits
<1> QED
  BY InitRestarts, NextKeeps, <1>1, PTL DEF Spec

-----------------------------------------------------------------------------
(* Slots. *)

APlan(e) == DOMAIN e \subseteq Jobs /\ e \in [DOMAIN e -> Entry]
Plans == UNION {[D -> Entry] : D \in SUBSET Jobs}

LEMMA PlansFacts == \A e : e \in Plans <=> APlan(e)
<1>1. ASSUME NEW e, e \in Plans PROVE APlan(e)
  BY <1>1 DEF Plans, APlan
<1>2. ASSUME NEW e, APlan(e) PROVE e \in Plans
  BY <1>2 DEF Plans, APlan
<1> QED
  BY <1>1, <1>2

\* What of the types the slots are about: the plans built so far, and the one
\* each tick is on, which may have been replaced since.
Timetable ==
    /\ now \in Nat /\ schedule \in [Jobs -> Schedules \cup {Manual}]
    /\ entries \in Seq(Plans) /\ Len(entries) > 0
    /\ \A t \in Ticks : tick[t] # Idle =>
          tick[t].plan \in 1..Len(entries) /\ tick[t].at \in Nat

\* A slot that was fired is behind its entry, for good: `next` only moves on.
Spent(slot) ==
    \E p \in 1..Len(entries) : \E j \in DOMAIN entries[p] :
        slot[1] = p /\ slot[2] = j /\ slot[3] < entries[p][j].next
Behind == \A slot \in DOMAIN fired : slot \in Nat \X Jobs \X Nat /\ Spent(slot) /\ fired[slot] = 1

Slots == Timetable /\ Behind

LEMMA NextRunMoves ==
    ASSUME NEW s \in Schedules, NEW time \in Nat
    PROVE  NextRun(s, time) \in Nat /\ NextRun(s, time) > time
<1>1. CASE s \in [kind : {"everyMinutes"}, n : Nat \ {0}]
  BY <1>1 DEF NextRun
<1>2. CASE s \in [kind : {"dailyAt"}, n : 0..Day - 1]
  <2>1. (time \div Day) * Day \in Nat /\ time < (time \div Day) * Day + Day
    BY LifecycleAssumption
  <2>2. s.n \in Nat /\ s.kind = "dailyAt" /\ Day \in Nat
    BY <1>2, LifecycleAssumption
  <2> QED
    BY <2>1, <2>2 DEF NextRun
<1> QED
  BY <1>1, <1>2, LifecycleAssumption

LEMMA PlanTypes ==
    ASSUME now \in Nat, NEW schedules \in [Jobs -> Schedules \cup {Manual}]
    PROVE  APlan(Plan(schedules))
<1> DEFINE D == {i \in Jobs : schedules[i] # Manual}
<1>1. Plan(schedules) = [j \in D |->
        [schedule |-> schedules[j], next |-> NextRun(schedules[j], now)]]
  BY DEF Plan
<1>2. ASSUME NEW j \in D
      PROVE  [schedule |-> schedules[j], next |-> NextRun(schedules[j], now)] \in Entry
  <2>1. schedules[j] \in Schedules
    OBVIOUS
  <2> QED
    BY <2>1, NextRunMoves DEF Entry
<1>3. D \subseteq Jobs
  OBVIOUS
<1> HIDE DEF D
<1> QED
  BY <1>1, <1>2, <1>3 DEF APlan

\* A new plan leaves the ones before it, and their slots, as they were.
LEMMA AppendKeeps ==
    ASSUME Slots, now' = now, NEW schedules \in [Jobs -> Schedules \cup {Manual}],
           entries' = Append(entries, Plan(schedules)),
           schedule' \in [Jobs -> Schedules \cup {Manual}], tick' = tick, fired' = fired
    PROVE  Slots'
<1>1. APlan(Plan(schedules))
  BY PlanTypes DEF Slots, Timetable
<1> DEFINE e == Plan(schedules)
<1> HIDE DEF e
<1>2. entries \in Seq(Plans) /\ e \in Plans /\ entries' = Append(entries, e)
  BY <1>1, PlansFacts DEF Slots, Timetable, e
<1>3. /\ entries' \in Seq(Plans) /\ Len(entries') = Len(entries) + 1 /\ Len(entries) \in Nat
      /\ \A p \in 1..Len(entries) : entries'[p] = entries[p]
  BY <1>2
<1>4. Timetable'
  BY <1>3 DEF Slots, Timetable
<1>5. Behind'
  BY <1>3 DEF Slots, Behind, Spent
<1> QED
  BY <1>4, <1>5 DEF Slots

\* Entries only move on, and those that are passed at a time move beyond it.
LEMMA AdvanceMoves ==
    ASSUME Slots, NEW p \in 1..Len(entries), NEW at \in Nat, NEW from \in Nat, NEW passed,
           passed \subseteq Due(p, at, from), Advance(p, at, passed)
    PROVE  /\ entries' \in Seq(Plans) /\ Len(entries') = Len(entries)
           /\ \A q \in 1..Len(entries) :
                 /\ APlan(entries'[q]) /\ DOMAIN entries'[q] = DOMAIN entries[q]
                 /\ \A j \in DOMAIN entries[q] : entries'[q][j].next >= entries[q][j].next
           /\ \A k \in passed :
                 /\ Order[k] \in DOMAIN entries[p] /\ entries[p][Order[k]].next <= at
                 /\ entries'[p][Order[k]].next > at
<1>1. entries \in Seq(Plans) /\ Len(entries) \in Nat /\ \A q \in 1..Len(entries) : APlan(entries[q])
  BY PlansFacts DEF Slots, Timetable
<1> DEFINE new == [j \in DOMAIN entries[p] |->
                    IF \E k \in passed : Order[k] = j
                    THEN [entries[p][j] EXCEPT !.next = NextRun(entries[p][j].schedule, at)]
                    ELSE entries[p][j]]
<1>2. entries' = [entries EXCEPT ![p] = new]
  BY DEF Advance
<1>3. \A k \in passed : Order[k] \in DOMAIN entries[p] /\ entries[p][Order[k]].next <= at
  BY DEF Due
<1>4. ASSUME NEW j \in DOMAIN entries[p]
      PROVE  /\ new[j] \in Entry /\ new[j].next >= entries[p][j].next
             /\ (\E k \in passed : Order[k] = j) => new[j].next > at
  <2>1. entries[p][j] \in Entry
    BY <1>1 DEF APlan
  <2>2. entries[p][j].schedule \in Schedules /\ entries[p][j].next \in Nat
    BY <2>1 DEF Entry
  <2>3. /\ NextRun(entries[p][j].schedule, at) \in Nat
        /\ NextRun(entries[p][j].schedule, at) > at
    BY <2>2, NextRunMoves
  <2>4. CASE \E k \in passed : Order[k] = j
    <3>1. entries[p][j].next <= at
      BY <1>3, <2>4
    <3>2. new[j] = [entries[p][j] EXCEPT !.next = NextRun(entries[p][j].schedule, at)]
      BY <2>4
    <3>3. new[j] \in Entry /\ new[j].next = NextRun(entries[p][j].schedule, at)
      BY <2>1, <2>3, <3>2 DEF Entry
    <3> QED
      BY <2>2, <2>3, <3>1, <3>3
  <2>5. CASE ~\E k \in passed : Order[k] = j
    <3>1. new[j] = entries[p][j]
      BY <2>5
    <3> QED
      BY <2>1, <2>2, <2>5, <3>1
  <2> QED
    BY <2>4, <2>5
<1>5. DOMAIN new = DOMAIN entries[p] /\ new = [j \in DOMAIN new |-> new[j]]
  OBVIOUS
<1> HIDE DEF new
<1>6. APlan(new)
  BY <1>1, <1>4, <1>5 DEF APlan
<1>7. entries = [q \in 1..Len(entries) |-> entries[q]]
  BY <1>1
<1>8. /\ entries' = [q \in 1..Len(entries) |-> entries'[q]]
      /\ entries'[p] = new /\ \A q \in 1..Len(entries) : q # p => entries'[q] = entries[q]
  BY <1>2, <1>7
<1>9. entries' \in Seq(Plans) /\ Len(entries') = Len(entries)
  BY <1>1, <1>2, <1>6, PlansFacts
<1>10. ASSUME NEW q \in 1..Len(entries)
       PROVE  /\ APlan(entries'[q]) /\ DOMAIN entries'[q] = DOMAIN entries[q]
              /\ \A j \in DOMAIN entries[q] : entries'[q][j].next >= entries[q][j].next
  <2>1. CASE q = p
    BY <1>4, <1>5, <1>6, <1>8, <2>1
  <2>2. CASE q # p
    <3>1. \A j \in DOMAIN entries[q] : entries[q][j].next \in Nat
      BY <1>1 DEF APlan, Entry
    <3> QED
      BY <1>1, <1>8, <2>2, <3>1
  <2> QED
    BY <2>1, <2>2
<1>11. \A k \in passed : entries'[p][Order[k]].next > at
  BY <1>3, <1>4, <1>8
<1> QED
  BY <1>3, <1>9, <1>10, <1>11

LEMMA ScanSpends ==
    ASSUME Slots, Shape, NEW t \in Ticks, NEW p \in 1..Len(entries), NEW at \in Nat,
           NEW from \in Nat \ {0}, Scan(t, p, at, from), UNCHANGED <<now, schedule>>
    PROVE  Slots'
<1>1. /\ Len(entries) \in Nat \ {0} /\ Len(Order) \in Nat
      /\ \A q \in 1..Len(entries) : APlan(entries[q])
  BY LifecycleAssumption, PlansFacts DEF Slots, Timetable
<1>2. PICK passed :
        /\ passed \subseteq Due(p, at, from) /\ Advance(p, at, passed)
        /\ \/ tick' = [tick EXCEPT ![t] = Idle] /\ fired' = fired
           \/ \E k \in passed :
                 /\ tick' = [tick EXCEPT ![t] = [plan |-> p, at |-> at, from |-> k + 1]]
                 /\ fired' = BagAdd(fired, <<p, Order[k], entries[p][Order[k]].next>>)
  <2>1. CASE Advance(p, at, Due(p, at, from)) /\ tick' = [tick EXCEPT ![t] = Idle] /\ fired' = fired
    BY <2>1
  <2>2. ASSUME NEW k \in Due(p, at, from),
               Advance(p, at, {i \in Due(p, at, from) : i <= k}),
               tick' = [tick EXCEPT ![t] = [plan |-> p, at |-> at, from |-> k + 1]],
               fired' = BagAdd(fired, <<p, Order[k], entries[p][Order[k]].next>>)
        PROVE  \E passed :
                 /\ passed \subseteq Due(p, at, from) /\ Advance(p, at, passed)
                 /\ \E i \in passed :
                     /\ tick' = [tick EXCEPT ![t] = [plan |-> p, at |-> at, from |-> i + 1]]
                     /\ fired' = BagAdd(fired, <<p, Order[i], entries[p][Order[i]].next>>)
    <3> WITNESS {i \in Due(p, at, from) : i <= k}
    <3>1. k \in {i \in Due(p, at, from) : i <= k}
      BY <1>1 DEF Due
    <3> QED
      BY <2>2, <3>1
  <2>3. \/ Advance(p, at, Due(p, at, from)) /\ tick' = [tick EXCEPT ![t] = Idle] /\ fired' = fired
        \/ \E k \in Due(p, at, from) :
              /\ Advance(p, at, {i \in Due(p, at, from) : i <= k})
              /\ tick' = [tick EXCEPT ![t] = [plan |-> p, at |-> at, from |-> k + 1]]
              /\ fired' = BagAdd(fired, <<p, Order[k], entries[p][Order[k]].next>>)
    BY DEF Scan
  <2> QED
    BY <2>1, <2>2, <2>3
<1>3. /\ entries' \in Seq(Plans) /\ Len(entries') = Len(entries)
      /\ \A q \in 1..Len(entries) :
            /\ APlan(entries'[q]) /\ DOMAIN entries'[q] = DOMAIN entries[q]
            /\ \A j \in DOMAIN entries[q] : entries'[q][j].next >= entries[q][j].next
      /\ \A k \in passed :
            /\ Order[k] \in DOMAIN entries[p] /\ entries[p][Order[k]].next <= at
            /\ entries'[p][Order[k]].next > at
  BY <1>2, AdvanceMoves
<1>4. /\ \A u \in Ticks : u # t => tick'[u] = tick[u]
      /\ tick'[t] # Idle => tick'[t].plan = p /\ tick'[t].at = at
  <2>1. tick = [u \in Ticks |-> tick[u]]
    BY DEF Shape
  <2>2. CASE tick' = [tick EXCEPT ![t] = Idle]
    BY <2>1, <2>2
  <2>3. ASSUME NEW k,
               tick' = [tick EXCEPT ![t] = [plan |-> p, at |-> at, from |-> k + 1]]
        PROVE  /\ \A u \in Ticks : u # t => tick'[u] = tick[u]
               /\ tick'[t].plan = p /\ tick'[t].at = at
    BY <2>1, <2>3
  <2> QED
    BY <1>2, <2>2, <2>3
<1>5. Timetable'
  <2>2. \A u \in Ticks : tick'[u] # Idle => tick'[u].plan \in 1..Len(entries') /\ tick'[u].at \in Nat
    BY <1>3, <1>4 DEF Slots, Timetable
  <2> QED
    BY <1>3, <2>2 DEF Slots, Timetable
<1>6. \A slot \in DOMAIN fired : Spent(slot)'
  <2> SUFFICES ASSUME NEW slot \in DOMAIN fired PROVE Spent(slot)'
    OBVIOUS
  <2>1. Spent(slot) /\ slot[3] \in Nat
    BY DEF Slots, Behind
  <2>2. PICK q \in 1..Len(entries) : \E j \in DOMAIN entries[q] :
            slot[1] = q /\ slot[2] = j /\ slot[3] < entries[q][j].next
    BY <2>1 DEF Spent
  <2>3. PICK j \in DOMAIN entries[q] :
            slot[1] = q /\ slot[2] = j /\ slot[3] < entries[q][j].next
    BY <2>2
  <2>4. entries[q][j].next \in Nat /\ entries'[q][j].next \in Nat
    BY <1>1, <1>3 DEF APlan, Entry
  <2>5. slot[3] < entries'[q][j].next
    BY <1>3, <2>1, <2>3, <2>4
  <2> QED
    BY <1>3, <2>3, <2>5 DEF Spent
<1>7. CASE fired' = fired
  BY <1>5, <1>6, <1>7 DEF Slots, Behind
<1>8. ASSUME NEW k \in passed,
             fired' = BagAdd(fired, <<p, Order[k], entries[p][Order[k]].next>>)
      PROVE  Behind'
  <2>0. PICK x : x = <<p, Order[k], entries[p][Order[k]].next>>
    OBVIOUS
  <2>1. /\ Order[k] \in DOMAIN entries[p] /\ entries[p][Order[k]].next \in Nat
        /\ entries'[p][Order[k]].next \in Nat
        /\ entries[p][Order[k]].next <= at /\ entries'[p][Order[k]].next > at
    BY <1>1, <1>3, <1>8 DEF APlan, Entry
  <2>2. x[1] = p /\ x[2] = Order[k] /\ x[3] = entries[p][Order[k]].next
    BY <2>0
  <2>3. x \in Nat \X Jobs \X Nat
    BY <1>1, <2>0, <2>1 DEF APlan
  <2>4. x[3] < entries'[p][Order[k]].next
    <3>1. x[3] \in Nat /\ x[3] <= at /\ at \in Nat
      BY <2>1, <2>2
    <3>2. \A m, n \in Nat : m <= at /\ n > at => m < n
      BY <3>1
    <3> QED
      BY <2>1, <3>1, <3>2
  <2>5. Spent(x)'
    <3>1. p \in 1..Len(entries') /\ Order[k] \in DOMAIN entries'[p]
      BY <1>3, <2>1
    <3> QED
      BY <2>2, <2>4, <3>1 DEF Spent
  <2>6. x \notin DOMAIN fired
    <3> SUFFICES ASSUME x \in DOMAIN fired PROVE FALSE
      OBVIOUS
    <3>1. Spent(x)
      BY DEF Slots, Behind
    <3>2. x[3] < entries[p][Order[k]].next
      BY <2>2, <3>1 DEF Spent
    <3> QED
      BY <2>1, <2>2, <3>2
  <2>7. fired' = BagAdd(fired, x)
    BY <1>8, <2>0
  <2>8. /\ DOMAIN fired' = DOMAIN fired \cup {x} /\ fired'[x] = 1
        /\ \A e \in DOMAIN fired : fired'[e] = fired[e]
    BY <2>6, <2>7 DEF BagAdd
  <2> QED
    BY <1>6, <2>3, <2>5, <2>8 DEF Slots, Behind
<1> QED
  BY <1>2, <1>5, <1>7, <1>8 DEF Slots

LEMMA InitSlots == Init => Slots
<1> SUFFICES ASSUME Init PROVE Slots
  OBVIOUS
<1>1. APlan(Plan(Declared))
  BY PlanTypes, LifecycleAssumption DEF Init
<1> DEFINE e == Plan(Declared)
<1> HIDE DEF e
<1>2. entries = <<e>>
  BY DEF Init, e
<1>3. Len(entries) = 1 /\ entries \in Seq(Plans)
  BY <1>1, <1>2, PlansFacts DEF e
<1>4. \A t \in Ticks : tick[t] = Idle
  BY DEF Init
<1>5. now \in Nat /\ schedule \in [Jobs -> Schedules \cup {Manual}]
  BY LifecycleAssumption DEF Init
<1>6. DOMAIN fired = {}
  BY DEF Init, EmptyBag, SetToBag
<1> QED
  BY <1>3, <1>4, <1>5, <1>6 DEF Slots, Timetable, Behind

LEMMA NextSlots == Restarts /\ Slots /\ [Next]_vars => Slots'
<1> SUFFICES ASSUME Restarts, Slots, [Next]_vars PROVE Slots'
  OBVIOUS
<1>0. Unscheduled \in [Jobs -> Schedules \cup {Manual}] /\ now \in Nat
      /\ schedule \in [Jobs -> Schedules \cup {Manual}]
  BY DEF Unscheduled, Slots, Timetable
<1>1. CASE UNCHANGED <<now, schedule, entries, tick, fired>>
  BY <1>1 DEF Slots, Timetable, Behind, Spent
<1>2. CASE Pass
  <2>1. UNCHANGED <<schedule, entries, tick, fired>> /\ now' \in Nat
    BY <1>0, <1>2 DEF Pass, schedulerVars
  <2> QED
    BY <2>1 DEF Slots, Timetable, Behind, Spent
<1>3. CASE Signal
  <2>1. /\ entries' = Append(entries, Plan(Unscheduled))
        /\ UNCHANGED <<now, schedule, tick, fired>>
    BY <1>3 DEF Signal
  <2> QED
    BY <1>0, <2>1, AppendKeeps
<1>4. CASE Exit
  <2> DEFINE e == Plan(Unscheduled)
  <2>1. /\ entries' = <<e>> /\ UNCHANGED <<now, schedule>> /\ fired' = EmptyBag
        /\ \A t \in Ticks : tick'[t] = Idle
    BY <1>4 DEF Exit
  <2>2. APlan(e)
    BY <1>0, PlanTypes
  <2> HIDE DEF e
  <2>3. Len(entries') = 1 /\ entries' \in Seq(Plans)
    BY <2>1, <2>2, PlansFacts
  <2>4. DOMAIN fired' = {}
    BY <2>1 DEF EmptyBag, SetToBag
  <2>5. Timetable'
    BY <1>0, <2>1, <2>3 DEF Timetable
  <2> QED
    BY <2>4, <2>5 DEF Slots, Behind
<1>5. ASSUME NEW t \in Ticks, Tick(t) PROVE Slots'
  <2>1. Scan(t, Len(entries), now, 1) /\ UNCHANGED <<now, schedule>>
    BY <1>5 DEF Tick
  <2>2. Len(entries) \in 1..Len(entries) /\ 1 \in Nat \ {0}
    BY DEF Slots, Timetable
  <2> QED
    BY <1>0, <2>1, <2>2, ScanSpends DEF Restarts
<1>6. ASSUME NEW t \in Ticks, TickResumes(t) PROVE Slots'
  <2>1. /\ Scan(t, tick[t].plan, tick[t].at, tick[t].from)
        /\ UNCHANGED <<now, schedule>> /\ tick[t] # Idle
    BY <1>6 DEF TickResumes
  <2>2. /\ tick[t].plan \in 1..Len(entries) /\ tick[t].at \in Nat
        /\ tick[t].from \in Nat \ {0}
    BY <2>1 DEF Slots, Timetable, Restarts, Shape
  <2> QED
    BY <2>1, <2>2, ScanSpends DEF Restarts
<1>7. ASSUME NEW d \in Doors, NEW j \in Jobs, NEW s \in Schedules \cup {Manual},
             EditSchedule(d, j, s)
      PROVE  Slots'
  <2>1. schedule' = [schedule EXCEPT ![j] = s] /\ UNCHANGED <<now, tick, fired>>
        /\ entries' = Append(entries, Plan(schedule'))
    BY <1>7 DEF EditSchedule, Start
  <2>2. schedule' \in [Jobs -> Schedules \cup {Manual}]
    BY <1>0, <2>1
  <2> QED
    BY <2>1, <2>2, AppendKeeps
<1>8. CASE \/ UNCHANGED vars
           \/ \E d \in Doors :
                 \/ Accept(d) \/ Answer(d) \/ \E j \in Jobs : Call(d, j)
                 \/ \E when \in {"idle", "now"} : AskRestart(d, when)
                 \/ \E force \in BOOLEAN : AskStop(d, force)
           \/ \E x \in Actors : Begin(x) \/ Refuse(x) \/ End(x)
  <2>1. UNCHANGED <<now, schedulerVars>>
    BY <1>8 DEF vars, Accept, Answer, Call, AskRestart, AskStop, Begin, Refuse, End
  <2> QED
    BY <1>1, <2>1 DEF schedulerVars
<1> QED
  BY <1>2, <1>3, <1>4, <1>5, <1>6, <1>7, <1>8 DEF Next

(***************************************************************************)
(* scheduler.ts:155: no slot is fired twice, though ticks overlap and go   *)
(* on down entries that were replaced since: a slot that was fired is      *)
(* behind its entry, whose `next` only ever moves on.                      *)
(***************************************************************************)
THEOREM NoSlotTwice == Spec => []SlotFiresOnce
<1>1. Restarts /\ Slots /\ [Next]_vars => (Restarts /\ Slots)'
  BY NextKeeps, NextSlots
<1>2. Slots => SlotFiresOnce
  BY DEF Slots, Behind, SlotFiresOnce, BagToSet
<1> QED
  BY InitRestarts, InitSlots, <1>1, <1>2, PTL DEF Spec

===============================================================================
