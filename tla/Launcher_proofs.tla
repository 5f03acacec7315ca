--------------------------- MODULE Launcher_proofs ---------------------------
(***************************************************************************)
(* Proofs about Launcher: a child is asked before it is killed, and the    *)
(* launchers implement supervisors, for any launchers and stops and any    *)
(* durations.                                                              *)
(***************************************************************************)
EXTENDS Launcher, TLAPS

Forsaken == {"insisted", "lost", "killed"}

\* What of the type the arguments below use.
IsOf(f) == f = [l \in Launchers |-> f[l]]
Shape ==
    /\ IsOf(pc) /\ IsOf(shutting) /\ IsOf(childPid) /\ IsOf(handler)
    /\ IsOf(node) /\ IsOf(late) /\ IsOf(owed) /\ IsOf(abandoned)
    /\ grace \in [Launchers -> Nat]

\* Where a launcher has no child, and which one it answers for.
Childless(l) ==
    /\ pc[l] \in {"off", "checked", "installed", "build", "reaped", "sleeping"} => ~Alive(l)
    /\ pc[l] \in {"finish", "exited"} /\ abandoned[l] \notin Forsaken => ~Alive(l)
    /\ abandoned[l] \in Forsaken => pc[l] \in {"finish", "exited"}

\* One child at most is started after a stop.
LateOnce(l) == late[l] = 0 \/ (late[l] = 1 /\ shutting[l]
    /\ pc[l] \in {"spawned", "waiting", "reaped", "finish", "exited"})

\* What the handler's thread and the loop know of the child.
Known(l) ==
    /\ pc[l] \in {"off", "checked", "installed", "build", "spawned", "sleeping"} => ~childPid[l]
    /\ pc[l] = "spawned" => ~owed[l]
    /\ pc[l] = "waiting" /\ owed[l] /\ Alive(l) => childPid[l]

\* The child is told by the time its grace begins to run.
Told(l) ==
    /\ grace[l] # Unset => shutting[l]
    /\ handler[l] => grace[l] < 2
    /\ pc[l] = "waiting" /\ owed[l] /\ Alive(l) /\ ~handler[l] => node[l].termed
    /\ node[l].code = Killed => shutting[l] /\ (owed[l] => node[l].termed)

Local(l) == Childless(l) /\ LateOnce(l) /\ Known(l) /\ Told(l)

IInv == Shape /\ \A l \in Launchers : Local(l)

\* Nothing of a launcher that the invariant speaks of changes.
Same(l) ==
    /\ pc'[l] = pc[l] /\ shutting'[l] = shutting[l] /\ childPid'[l] = childPid[l]
    /\ handler'[l] = handler[l] /\ grace'[l] = grace[l] /\ node'[l] = node[l]
    /\ late'[l] = late[l] /\ owed'[l] = owed[l] /\ abandoned'[l] = abandoned[l]

-----------------------------------------------------------------------------
LEMMA SameLocal ==
    ASSUME NEW l \in Launchers, Local(l), Same(l)
    PROVE  Local(l)'
BY DEF Same, Local, Childless, LateOnce, Known, Told, Alive

LEMMA InitIInv == Init => IInv
<1> SUFFICES ASSUME Init PROVE IInv
  OBVIOUS
<1>1. Shape
  BY DEF Init, Shape, IsOf, Unset
<1>2. ASSUME NEW l \in Launchers PROVE Local(l)
  BY DEF Init, Local, Childless, LateOnce, Known, Told, Alive, None, Forsaken, Unset, Killed
<1> QED
  BY <1>1, <1>2 DEF IInv

\* A step of one launcher keeps the invariant if it keeps its part of it.
LEMMA OneMoves ==
    ASSUME IInv, NEW l \in Launchers, Shape', Local(l)',
           \A k \in Launchers : k # l => Same(k)
    PROVE  IInv'
<1>1. ASSUME NEW k \in Launchers PROVE Local(k)'
  <2>1. CASE k = l
    BY <2>1
  <2>2. CASE k # l
    BY <2>2, SameLocal DEF IInv
  <2> QED
    BY <2>1, <2>2
<1> QED
  BY <1>1 DEF IInv

\* Steps of the loop that leave the child alone.
LEMMA PcIInv ==
    ASSUME IInv, NEW l \in Launchers,
           Start(l) \/ Install(l) \/ write_own(l) \/ SpawnFails(l) \/ Reap(l) \/ Wake(l)
    PROVE  IInv'
<1>1. /\ UNCHANGED <<shutting, childPid, handler, grace, node, ghosts>>
      /\ pc' = [pc EXCEPT ![l] = pc'[l]]
  BY DEF IInv, Shape, IsOf, Start, Install, write_own, SpawnFails, Reap, Wake, ghosts
<1>2. Shape' /\ \A k \in Launchers : k # l => Same(k)
  BY <1>1 DEF IInv, Shape, IsOf, Same, ghosts
<1>3. Local(l)'
  BY <1>1 DEF IInv, Shape, IsOf, Start, Install, write_own, SpawnFails, Reap, Wake, ghosts,
     Local, Childless, LateOnce, Known, Told, Alive, Forsaken
<1> QED
  BY <1>2, <1>3, OneMoves

LEMMA WaitIInv ==
    ASSUME IInv, NEW l \in Launchers,
           set_child(l) \/ SetDeadline(l) \/ Finish(l) \/ LoseTrack(l)
    PROVE  IInv'
<1>1. /\ UNCHANGED <<shutting, node, late, owed>>
      /\ pc' = [pc EXCEPT ![l] = pc'[l]] /\ childPid' = [childPid EXCEPT ![l] = childPid'[l]]
      /\ handler' = [handler EXCEPT ![l] = handler'[l]]
      /\ grace' = [grace EXCEPT ![l] = grace'[l]] /\ grace'[l] \in Nat
      /\ abandoned' = [abandoned EXCEPT ![l] = abandoned'[l]]
  BY DEF IInv, Shape, IsOf, set_child, SetDeadline, Finish, LoseTrack, ghosts, Unset
<1>2. Shape' /\ \A k \in Launchers : k # l => Same(k)
  BY <1>1 DEF IInv, Shape, IsOf, Same
<1>3. Local(l)'
  BY <1>1 DEF IInv, Shape, IsOf, set_child, SetDeadline, Finish, LoseTrack, ghosts, Unset,
     Local, Childless, LateOnce, Known, Told, Alive, Forsaken
<1> QED
  BY <1>2, <1>3, OneMoves

LEMMA SpawnIInv ==
    ASSUME IInv, NEW l \in Launchers, Spawn(l)
    PROVE  IInv'
<1>1. Shape' /\ \A k \in Launchers : k # l => Same(k)
  BY DEF IInv, Shape, IsOf, Same, Spawn
<1>2. Local(l)'
  BY DEF IInv, Shape, IsOf, Spawn, Booting, Killed,
     Local, Childless, LateOnce, Known, Told, Alive, Forsaken
<1> QED
  BY <1>1, <1>2, OneMoves

LEMMA KillIInv ==
    ASSUME IInv, NEW l \in Launchers, Kill(l)
    PROVE  IInv'
<1>1. Shape' /\ \A k \in Launchers : k # l => Same(k)
  BY DEF IInv, Shape, IsOf, Same, Kill, ghosts
<1>2. ~handler[l]
  <2>1. grace[l] \in Nat /\ grace[l] > Grace /\ (handler[l] => grace[l] < 2)
    BY DEF IInv, Shape, Kill, Expired, Local, Told
  <2> QED
    BY <2>1, LauncherAssumption
<1>3. Local(l)'
  BY <1>2 DEF IInv, Shape, IsOf, Kill, Dead, ghosts,
     Local, Childless, LateOnce, Known, Told, Alive, Forsaken
<1> QED
  BY <1>1, <1>3, OneMoves

\* After the child has ended.
LEMMA DecideIInv ==
    ASSUME IInv, NEW l \in Launchers, Ends(l) \/ Restart(l) \/ Crash(l)
    PROVE  IInv'
<1>1. /\ UNCHANGED <<shutting, handler, grace, node, late, owed>>
      /\ pc' = [pc EXCEPT ![l] = pc'[l]]
      /\ childPid' = [childPid EXCEPT ![l] = FALSE]
      /\ abandoned' = [abandoned EXCEPT ![l] = abandoned'[l]]
      /\ abandoned'[l] \in {abandoned[l], "gaveUp"}
      /\ pc[l] = "reaped" /\ pc'[l] \in {"build", "sleeping", "finish"}
      /\ pc'[l] # "finish" => ~shutting[l]
  BY DEF IInv, Shape, IsOf, Ends, Restart, Crash, ghosts
<1>2. Shape' /\ \A k \in Launchers : k # l => Same(k)
  BY <1>1 DEF IInv, Shape, IsOf, Same
<1>3. Local(l)'
  BY <1>1 DEF IInv, Shape, IsOf, Local, Childless, LateOnce, Known, Told, Alive, Forsaken
<1> QED
  BY <1>2, <1>3, OneMoves

\* SIGTERM tells a child that is alive, or ends one that boots.
LEMMA TermTells ==
    ASSUME IsOf(node), NEW l \in Launchers, Term(l)
    PROVE  /\ IsOf(node)'
           /\ \A k \in Launchers : k # l => node'[k] = node[k]
           /\ ~Alive(l) => node'[l] = node[l]
           /\ Alive(l)' => Alive(l) /\ node'[l].termed
           /\ Alive(l) => node'[l].code # Killed
<1> DEFINE n == IF node[l].st = "booting" THEN Dead(node[l], ByTerm)
                ELSE IF node[l].st = "serving" THEN ToldTo("closing")
                ELSE IF Alive(l) THEN ToldTo(node[l].st) ELSE node[l]
<1>1. node' = [node EXCEPT ![l] = n]
  BY DEF Term
<1>2. /\ ~Alive(l) => n = node[l]
      /\ n.st \in {"booting", "serving", "hung", "closing"} => Alive(l) /\ n.termed
      /\ Alive(l) => n.code # Killed
  BY DEF Alive, Dead, ToldTo, ByTerm, Killed
<1> HIDE DEF n
<1>3. IsOf(node)' /\ node'[l] = n /\ \A k \in Launchers : k # l => node'[k] = node[k]
  BY <1>1 DEF IsOf
<1> QED
  BY <1>2, <1>3 DEF Alive

LEMMA TermIInv ==
    ASSUME IInv, NEW l \in Launchers, Interrupt(l) \/ signal_child(l)
    PROVE  IInv'
<1>1. /\ UNCHANGED <<pc, shutting, childPid, grace, ghosts>>
      /\ handler' = [handler EXCEPT ![l] = handler'[l]]
      /\ handler'[l] # handler[l] => childPid[l] = FALSE \/ Term(l)
      /\ handler'[l] => handler[l]
      /\ Term(l) \/ UNCHANGED node
  BY DEF IInv, Shape, IsOf, Interrupt, signal_child, launcherVars, ghosts
<1>2. Shape' /\ \A k \in Launchers : k # l => Same(k)
  BY <1>1, TermTells DEF IInv, Shape, IsOf, Same, ghosts
<1>3. CASE Term(l)
  <2>1. Local(l)'
    BY <1>1, <1>3, TermTells DEF IInv, Shape, IsOf, ghosts,
       Local, Childless, LateOnce, Known, Told, Alive, Killed
  <2> QED
    BY <1>2, <2>1, OneMoves
<1>4. CASE UNCHANGED node /\ ~Term(l)
  <2>1. Local(l)'
    BY <1>1, <1>4 DEF IInv, Shape, IsOf, ghosts,
       Local, Childless, LateOnce, Known, Told, Alive
  <2> QED
    BY <1>2, <2>1, OneMoves
<1> QED
  BY <1>1, <1>3, <1>4

LEMMA SignalIInv ==
    ASSUME IInv, NEW l \in Launchers,
           Unhandled(l) \/ FirstInterrupt(l) \/ SecondInterrupt(l) \/ KillLauncher(l)
    PROVE  IInv'
<1>1. Shape' /\ \A k \in Launchers : k # l => Same(k)
  BY DEF IInv, Shape, IsOf, Same, Unhandled, FirstInterrupt, SecondInterrupt, KillLauncher, ghosts
<1>2. Local(l)'
  BY DEF IInv, Shape, IsOf, Unhandled, FirstInterrupt, SecondInterrupt, KillLauncher, ghosts,
     install, is_alive, Unset, Local, Childless, LateOnce, Known, Told, Alive, Forsaken
<1> QED
  BY <1>1, <1>2, OneMoves

LEMMA ChildIInv ==
    ASSUME IInv, NEW l \in Launchers, Child(l)
    PROVE  IInv'
<1>1. /\ UNCHANGED <<launcherVars, ghosts>>
      /\ node' = [node EXCEPT ![l] = node'[l]]
      /\ Alive(l) /\ node'[l].termed = node[l].termed /\ node'[l].code # Killed
  BY DEF IInv, Shape, IsOf, Child, Listen, ListenFails, Exits, Hangs, Closes, Dies, Dead, Becomes,
     Alive, EXIT_RESTART, EXIT_FATAL, Crashed, Killed
<1>2. Shape' /\ \A k \in Launchers : k # l => Same(k)
  BY <1>1 DEF IInv, Shape, IsOf, Same, launcherVars, ghosts
<1>3. Local(l)'
  BY <1>1 DEF IInv, Shape, IsOf, launcherVars, ghosts,
     Local, Childless, LateOnce, Known, Told, Alive
<1> QED
  BY <1>2, <1>3, OneMoves

LEMMA StopIInv ==
    ASSUME IInv, NEW s \in Stoppers, Stopping(s)
    PROVE  IInv'
<1>1. UNCHANGED <<launcherVars, node, ghosts>>
  BY DEF Stopping, StopFinds, StopSignals, StopLooks
<1>2. \A k \in Launchers : Same(k)
  BY <1>1 DEF Same, launcherVars, ghosts
<1>3. Shape'
  BY <1>1 DEF IInv, Shape, IsOf, launcherVars, ghosts
<1> QED
  BY <1>2, <1>3, SameLocal DEF IInv

LEMMA TickIInv ==
    ASSUME IInv, Tick
    PROVE  IInv'
<1>1. UNCHANGED <<pc, shutting, childPid, handler, node, late, owed, abandoned>>
  BY DEF Tick
<1>2. Shape'
  BY <1>1 DEF IInv, Shape, IsOf, Tick
<1>3. ASSUME NEW k \in Launchers PROVE Local(k)'
  <2>1. ~handler[k] /\ (grace'[k] # Unset => grace[k] # Unset \/ shutting[k])
    BY DEF IInv, Shape, Tick, Quiet, Unset
  <2> QED
    BY <1>1, <2>1 DEF IInv, Local, Childless, LateOnce, Known, Told, Alive
<1> QED
  BY <1>2, <1>3 DEF IInv

LEMMA NextIInv ==
    ASSUME IInv, [Next]_vars
    PROVE  IInv'
<1>1. CASE UNCHANGED vars
  <2>1. Shape' /\ \A k \in Launchers : Same(k)
    BY <1>1 DEF IInv, Shape, IsOf, Same, vars, launcherVars, ghosts
  <2> QED
    BY <2>1, SameLocal DEF IInv
<1>2. ASSUME NEW l \in Launchers,
             Launch(l) \/ Supervise(l) \/ LoseTrack(l) \/ Interrupt(l) \/ Signalled(l)
             \/ KillLauncher(l) \/ Child(l)
      PROVE  IInv'
  <2>1. CASE Launch(l)
    BY <2>1, PcIInv DEF Launch
  <2>2. CASE Supervise(l)
    BY <2>2, PcIInv, WaitIInv, SpawnIInv, KillIInv, DecideIInv DEF Supervise
  <2>3. CASE LoseTrack(l)
    BY <2>3, WaitIInv
  <2>4. CASE Interrupt(l)
    BY <2>4, TermIInv
  <2>5. CASE Signalled(l)
    BY <2>5, TermIInv, SignalIInv DEF Signalled
  <2>6. CASE KillLauncher(l)
    BY <2>6, SignalIInv
  <2>7. CASE Child(l)
    BY <2>7, ChildIInv
  <2> QED
    BY <1>2, <2>1, <2>2, <2>3, <2>4, <2>5, <2>6, <2>7
<1> QED
  BY <1>1, <1>2, StopIInv, TickIInv DEF Next

-----------------------------------------------------------------------------
\* A child the launcher knew of when it was told to stop is asked to close
\* before it is killed: see PoliteFirst in Launcher.
THEOREM Politeness == Spec => []PoliteFirst
<1>1. IInv => PoliteFirst
  BY DEF IInv, Local, Told, PoliteFirst
<1> QED
  BY <1>1, InitIInv, NextIInv, PTL DEF Spec

(* The refinement. *)

phases == [l \in Launchers |-> Phase(l)]
children == [l \in Launchers |-> Alive(l)]

\* What a step does to the supervisor it moves.
LEMMA OnePhase ==
    ASSUME NEW l \in Launchers, \A k \in Launchers : k # l => Same(k)
    PROVE  /\ phases' = [phases EXCEPT ![l] = Phase(l)']
           /\ children' = [children EXCEPT ![l] = Alive(l)']
<1>1. ASSUME NEW k \in Launchers, k # l
      PROVE  Phase(k)' = Phase(k) /\ Alive(k)' = Alive(k)
  BY <1>1 DEF Same, Phase, Alive
<1> QED
  BY <1>1 DEF phases, children

LEMMA InitS == Init => S!Init
<1> SUFFICES ASSUME Init PROVE S!Init
  OBVIOUS
<1>0. \A l \in Launchers : pc[l] = "off" /\ node[l] = None
  BY DEF Init
<1>1. \A l \in Launchers : Phase(l) = "out" /\ Alive(l) = FALSE
  <2> SUFFICES ASSUME NEW k \in Launchers PROVE Phase(k) = "out" /\ Alive(k) = FALSE
    OBVIOUS
  <2>1. pc[k] = "off" /\ node[k] = None
    BY <1>0
  <2> QED
    BY <2>1 DEF Phase, Alive, None
<1>2. late = [l \in Launchers |-> 0]
  BY DEF Init
<1> QED
  BY <1>1, <1>2 DEF S!Init

\* The steps of a supervisor, seen at the launcher that takes them.
Turns(l, p) == Phase(l)' = p /\ Alive(l)' = Alive(l) /\ late'[l] = late[l]

Step(l) ==
    \/ Turns(l, Phase(l))
    \/ Phase(l) = "out" /\ \E p \in {"up", "stopping", "gone"} : Turns(l, p)
    \/ /\ \/ Phase(l) = "up" /\ late'[l] = late[l]
          \/ Phase(l) = "stopping" /\ late[l] < 1 /\ late'[l] = late[l] + 1
       /\ Phase(l)' = Phase(l) /\ Alive(l) = FALSE /\ Alive(l)' = TRUE
    \/ Alive(l) /\ Alive(l)' = FALSE /\ Phase(l)' = Phase(l) /\ late'[l] = late[l]
    \/ Phase(l) = "up" /\ Turns(l, "stopping")
    \/ Phase(l) \in {"up", "stopping"} /\ ~Alive(l) /\ Turns(l, "gone")
    \/ Phase(l) # "abandoned" /\ Turns(l, "abandoned")

LEMMA StepIsS ==
    ASSUME IInv, IInv', NEW l \in Launchers, \A k \in Launchers : k # l => Same(k), Step(l)
    PROVE  S!Next \/ UNCHANGED S!vars
<1>1. /\ phases' = [phases EXCEPT ![l] = Phase(l)']
      /\ children' = [children EXCEPT ![l] = Alive(l)']
      /\ late' = [late EXCEPT ![l] = late'[l]]
  <2>1. late' = [late EXCEPT ![l] = late'[l]]
    BY DEF IInv, Shape, IsOf, Same
  <2> QED
    BY <2>1, OnePhase
<1>2. phases[l] = Phase(l) /\ children[l] = Alive(l)
  BY DEF phases, children
<1>3. /\ IsOf(phases) /\ IsOf(children) /\ IsOf(late)
  BY DEF IsOf, phases, children, IInv, Shape
<1>4. CASE Turns(l, Phase(l))
  BY <1>1, <1>2, <1>3, <1>4 DEF Turns, IsOf, S!vars, phases, children
<1>5. CASE Phase(l) = "out" /\ \E p \in {"up", "stopping", "gone"} : Turns(l, p)
  <2>1. children' = children /\ late' = late
    BY <1>1, <1>2, <1>3, <1>5 DEF Turns, IsOf
  <2> QED
    BY <1>1, <1>2, <1>5, <2>1 DEF Turns, S!Next, S!Launch, S!Turn, phases, children
<1>6. CASE /\ \/ Phase(l) = "up" /\ late'[l] = late[l]
              \/ Phase(l) = "stopping" /\ late[l] < 1 /\ late'[l] = late[l] + 1
           /\ Phase(l)' = Phase(l) /\ Alive(l) = FALSE /\ Alive(l)' = TRUE
  <2>1. phases' = phases /\ children' = [children EXCEPT ![l] = TRUE]
    BY <1>1, <1>2, <1>3, <1>6 DEF IsOf
  <2>2. IF Phase(l) = "up" THEN late' = late ELSE late' = [late EXCEPT ![l] = @ + 1]
    BY <1>1, <1>3, <1>6 DEF IsOf
  <2>3. S!Start(l)
    BY <1>2, <1>6, <2>1, <2>2 DEF S!Start, phases, children
  <2> QED
    BY <2>3 DEF S!Next
<1>7. CASE Alive(l) /\ Alive(l)' = FALSE /\ Phase(l)' = Phase(l) /\ late'[l] = late[l]
  <2>1. phases' = phases /\ late' = late
    BY <1>1, <1>2, <1>3, <1>7 DEF IsOf
  <2>2. S!Die(l)
    BY <1>1, <1>2, <1>7, <2>1 DEF S!Die, phases, children
  <2> QED
    BY <2>2 DEF S!Next
<1>8. CASE Phase(l) = "up" /\ Turns(l, "stopping")
  <2>1. children' = children /\ late' = late
    BY <1>1, <1>2, <1>3, <1>8 DEF Turns, IsOf
  <2> QED
    BY <1>1, <1>2, <1>8, <2>1 DEF Turns, S!Next, S!Stop, S!Turn, phases, children
<1>9. CASE Phase(l) \in {"up", "stopping"} /\ ~Alive(l) /\ Turns(l, "gone")
  <2>1. children' = children /\ late' = late
    BY <1>1, <1>2, <1>3, <1>9 DEF Turns, IsOf
  <2> QED
    BY <1>1, <1>2, <1>9, <2>1 DEF Turns, S!Next, S!Leave, S!Turn, phases, children
<1>10. CASE Phase(l) # "abandoned" /\ Turns(l, "abandoned")
  <2>1. children' = children /\ late' = late
    BY <1>1, <1>2, <1>3, <1>10 DEF Turns, IsOf
  <2> QED
    BY <1>1, <1>2, <1>10, <2>1 DEF Turns, S!Next, S!Abandon, S!Turn, phases, children
<1> QED
  BY <1>4, <1>5, <1>6, <1>7, <1>8, <1>9, <1>10 DEF Step

\* A step of one launcher leaves the others as they are.
LEMMA OthersSame ==
    ASSUME IInv, NEW l \in Launchers,
           Launch(l) \/ Supervise(l) \/ LoseTrack(l) \/ Interrupt(l) \/ Signalled(l)
           \/ KillLauncher(l) \/ Child(l)
    PROVE  \A k \in Launchers : k # l => Same(k)
<1>1. CASE Launch(l)
  BY <1>1 DEF IInv, Shape, IsOf, Same, Launch, Start, Install, write_own, ghosts
<1>2. CASE Supervise(l)
  BY <1>2 DEF IInv, Shape, IsOf, Same, Supervise, Spawn, SpawnFails, set_child, Reap, SetDeadline,
     Kill, Ends, Restart, Crash, Wake, Finish, ghosts
<1>3. CASE LoseTrack(l) \/ KillLauncher(l)
  BY <1>3 DEF IInv, Shape, IsOf, Same, LoseTrack, KillLauncher
<1>4. CASE Interrupt(l)
  BY <1>4, TermTells DEF IInv, Shape, Same, Interrupt, launcherVars, ghosts
<1>5. CASE signal_child(l)
  BY <1>5, TermTells DEF IInv, Shape, IsOf, Same, signal_child, ghosts
<1>6. CASE Unhandled(l) \/ FirstInterrupt(l) \/ SecondInterrupt(l)
  BY <1>6 DEF IInv, Shape, IsOf, Same, Unhandled, FirstInterrupt, SecondInterrupt, ghosts
<1>7. CASE Child(l)
  BY <1>7 DEF IInv, Shape, IsOf, Same, Child, Listen, ListenFails, Exits, Hangs, Closes, Dies,
     launcherVars, ghosts
<1> QED
  BY <1>1, <1>2, <1>3, <1>4, <1>5, <1>6, <1>7 DEF Signalled

\* Every step of a launcher is one of its supervisor, or none.
LEMMA LoopSteps ==
    ASSUME IInv, NEW l \in Launchers, Launch(l) \/ Supervise(l) \/ LoseTrack(l)
    PROVE  Step(l)
<1>1. CASE Launch(l)
  BY <1>1 DEF IInv, Shape, IsOf, Local, Childless, Launch, Start, Install, write_own, ghosts,
     Step, Turns, Phase, Alive, Forsaken
<1>2. CASE Spawn(l)
  BY <1>2 DEF IInv, Shape, IsOf, Local, Childless, LateOnce, Spawn, Booting,
     Step, Turns, Phase, Alive, Forsaken
<1>3. CASE SpawnFails(l) \/ set_child(l) \/ Reap(l) \/ SetDeadline(l) \/ Wake(l) \/ Finish(l)
  BY <1>3 DEF IInv, Shape, IsOf, Local, Childless, SpawnFails, set_child, Reap, SetDeadline, Wake,
     Finish, ghosts, Step, Turns, Phase, Alive, Forsaken
<1>4. CASE Kill(l)
  BY <1>4 DEF IInv, Shape, IsOf, Local, Childless, Kill, Dead, ghosts,
     Step, Turns, Phase, Alive, Forsaken
<1>5. CASE Ends(l) \/ Restart(l) \/ Crash(l)
  BY <1>5 DEF IInv, Shape, IsOf, Local, Childless, Ends, Restart, Crash, ghosts,
     Step, Turns, Phase, Alive, Forsaken
<1>6. CASE LoseTrack(l)
  BY <1>6 DEF IInv, Shape, IsOf, Local, Childless, LoseTrack, Step, Turns, Phase, Alive, Forsaken
<1> QED
  BY <1>1, <1>2, <1>3, <1>4, <1>5, <1>6 DEF Supervise

LEMMA SignalSteps ==
    ASSUME IInv, NEW l \in Launchers,
           Interrupt(l) \/ Signalled(l) \/ KillLauncher(l) \/ Child(l)
    PROVE  Step(l)
<1>1. CASE Interrupt(l) \/ signal_child(l)
  <2>1. UNCHANGED <<pc, shutting, late, abandoned>> /\ (Term(l) \/ UNCHANGED node)
    BY <1>1 DEF Interrupt, signal_child, launcherVars, ghosts
  <2>2. Phase(l)' = Phase(l) /\ late'[l] = late[l]
    BY <2>1 DEF Phase
  <2>3. Alive(l)' => Alive(l)
    BY <2>1, TermTells DEF IInv, Shape, Alive
  <2> QED
    BY <2>2, <2>3 DEF Step, Turns, Alive
<1>2. CASE Unhandled(l) \/ FirstInterrupt(l) \/ SecondInterrupt(l) \/ KillLauncher(l)
  BY <1>2 DEF IInv, Shape, IsOf, Local, Childless, Unhandled, FirstInterrupt, SecondInterrupt,
     KillLauncher, install, is_alive, ghosts, Step, Turns, Phase, Alive, Forsaken
<1>3. CASE Child(l)
  BY <1>3 DEF IInv, Shape, IsOf, Child, Listen, ListenFails, Exits, Hangs, Closes, Dies, Dead,
     Becomes, launcherVars, ghosts, Step, Turns, Phase, Alive
<1> QED
  BY <1>1, <1>2, <1>3 DEF Signalled

LEMMA NextS ==
    ASSUME IInv, IInv', [Next]_vars
    PROVE  S!Next \/ UNCHANGED S!vars
<1>1. CASE \E l \in Launchers :
        Launch(l) \/ Supervise(l) \/ LoseTrack(l) \/ Interrupt(l) \/ Signalled(l)
        \/ KillLauncher(l) \/ Child(l)
  BY <1>1, OthersSame, LoopSteps, SignalSteps, StepIsS
<1>2. CASE UNCHANGED vars \/ Tick \/ \E s \in Stoppers : Stopping(s)
  <2>1. UNCHANGED <<pc, shutting, node, late, abandoned>>
    BY <1>2 DEF vars, launcherVars, ghosts, Tick, Stopping, StopFinds, StopSignals, StopLooks
  <2> QED
    BY <2>1 DEF S!vars, Phase, Alive
<1> QED
  BY <1>1, <1>2 DEF Next

\* The launchers are supervisors: see ImplementsSupervisor in Launcher.
THEOREM LaunchersSupervise == Spec => ImplementsSupervisor
<1>1. IInv /\ IInv' /\ [Next]_vars => [S!Next]_S!vars
  BY NextS
<1> QED
  BY <1>1, InitIInv, NextIInv, InitS, PTL DEF Spec, ImplementsSupervisor, S!Spec

\* A launcher that goes by itself leaves no child behind: Childless says so of
\* "finish" and "exited", which is where it is gone.
THEOREM NoOrphan == Spec => []S!NoneLeft
<1>1. ASSUME IInv PROVE S!NoneLeft
  <2>1. ASSUME NEW l \in Launchers, Phase(l) = "gone" PROVE ~Alive(l)
    BY <1>1, <2>1 DEF IInv, Local, Childless, Phase, Forsaken
  <2> QED
    BY <2>1 DEF S!NoneLeft
<1> QED
  BY <1>1, InitIInv, NextIInv, PTL DEF Spec

-----------------------------------------------------------------------------
(* Types. *)

Places == {"off", "checked", "installed", "build", "spawned", "waiting",
           "reaped", "sleeping", "finish", "exited"}
Node == [st : {"none", "booting", "serving", "hung", "closing", "dead"},
         code : ExitCodes, termed : BOOLEAN]
Patience == [at : {"idle", "none", "error", "stopped", "overdue"}]
            \cup [at : {"found", "waiting"}, pid : Launchers, age : 0..StopWait]
Ages == [window : 0..Window, life : 0..RapidWindow + 1]
Deaths == [1..MaxRapid + 1 -> 0..Window]

LEMMA NodeTypes ==
    ASSUME NEW n \in Node
    PROVE  /\ \A code \in ExitCodes : Dead(n, code) \in Node
           /\ \A st \in {"serving", "hung"} : Becomes(n, st) \in Node
           /\ \A st \in {"booting", "serving", "hung", "closing"} : ToldTo(st) \in Node
           /\ Booting \in Node /\ None \in Node
BY DEF Node, Dead, Becomes, ToldTo, Booting, None, ExitCodes

LEMMA DurationTypes ==
    /\ Window \in Nat /\ Window > 0 /\ MaxRapid \in Nat /\ MaxRapid > 0
    /\ RapidWindow \in Nat /\ Grace \in Nat /\ Grace > 0 /\ StopWait \in Nat
BY LauncherAssumption DEF Window

LEMMA DeathsTypes ==
    ASSUME NEW d \in Deaths
    PROVE  NoDeaths \in Deaths /\ OneMore(d) \in Deaths /\ Later(d) \in Deaths
<1>1. NoDeaths \in Deaths
  BY DurationTypes DEF Deaths, NoDeaths
<1>2. OneMore(d) \in Deaths
  <2>1. ASSUME NEW i \in 1..MaxRapid + 1, i # 1 PROVE d[i - 1] \in 0..Window
    <3>1. i - 1 \in 1..MaxRapid + 1
      BY <2>1, DurationTypes
    <3> QED
      BY <3>1 DEF Deaths
  <2> QED
    BY <2>1, DurationTypes DEF Deaths, OneMore
<1>3. Later(d) \in Deaths
  BY DurationTypes DEF Deaths, Later, AtMostOf
<1> QED
  BY <1>1, <1>2, <1>3

\* TypeOK, in these words.
Typed ==
    /\ pc \in [Launchers -> Places] /\ rapid \in [Launchers -> 0..MaxRapid]
    /\ age \in [Launchers -> Ages]
    /\ shutting \in [Launchers -> BOOLEAN] /\ childPid \in [Launchers -> BOOLEAN]
    /\ handler \in [Launchers -> BOOLEAN] /\ pending \in [Launchers -> Nat]
    /\ grace \in [Launchers -> 0..Grace + 1] /\ node \in [Launchers -> Node]
    /\ pidfile \in Launchers \cup {NoOne} /\ stop \in [Stoppers -> Patience]
    /\ signals \in Nat /\ kills \in Nat /\ lives \in Nat
    /\ late \in [Launchers -> Nat] /\ owed \in [Launchers -> BOOLEAN]
    /\ abandoned \in [Launchers -> {"no", "insisted", "lost", "killed", "gaveUp"}]
    /\ deaths \in [Launchers -> Deaths]

LEMMA InitTypes == Init => Typed
<1> SUFFICES ASSUME Init PROVE Typed
  OBVIOUS
<1>1. None \in Node /\ NoDeaths \in Deaths /\ [window |-> 0, life |-> 0] \in Ages
  BY DurationTypes DEF Node, None, ExitCodes, Deaths, NoDeaths, Ages
<1>2. [at |-> "idle"] \in Patience
  BY DEF Patience
<1>3. Unset \in 0..Grace + 1 /\ 0 \in 0..MaxRapid
  BY DurationTypes DEF Unset
<1> QED
  BY <1>1, <1>2, <1>3 DEF Typed, Init, Places

LEMMA LaunchTypes ==
    ASSUME Typed, NEW l \in Launchers, Launch(l)
    PROVE  Typed'
<1>1. [window |-> 0, life |-> 0] \in Ages
  BY DurationTypes DEF Ages
<1> QED
  BY <1>1 DEF Typed, Launch, Start, Install, write_own, Places, bounds, ghosts

LEMMA SuperviseTypes ==
    ASSUME Typed, NEW l \in Launchers, Supervise(l) \/ LoseTrack(l)
    PROVE  Typed'
<1>1. CASE Spawn(l)
  <2>1. Booting \in Node
    BY DEF Node, Booting, ExitCodes
  <2>2. age' \in [Launchers -> Ages]
    BY <1>1, DurationTypes DEF Typed, Spawn, Ages
  <2> QED
    BY <1>1, <2>1, <2>2 DEF Typed, Spawn, Places
<1>2. CASE SpawnFails(l) \/ Reap(l) \/ Wake(l)
  BY <1>2 DEF Typed, SpawnFails, Reap, Wake, Places, bounds, ghosts
<1>3. CASE set_child(l) \/ SetDeadline(l)
  <2>1. Unset \in 0..Grace + 1 /\ 1 \in 0..Grace + 1
    BY DurationTypes DEF Unset
  <2>2. CASE set_child(l)
    BY <2>1, <2>2 DEF Typed, set_child, Places, bounds, ghosts
  <2>3. CASE SetDeadline(l)
    BY <2>1, <2>3 DEF Typed, SetDeadline, bounds, ghosts
  <2> QED
    BY <1>3, <2>2, <2>3
<1>4. CASE Kill(l)
  <2>1. Dead(node[l], Killed) \in Node
    BY NodeTypes DEF Typed, ExitCodes
  <2> QED
    BY <1>4, <2>1 DEF Typed, Kill, Places, bounds, ghosts
<1>5. CASE Restart(l)
  <2>1. NoDeaths \in Deaths /\ 0 \in 0..MaxRapid
    BY DurationTypes DEF NoDeaths, Deaths
  <2> QED
    BY <1>5, <2>1 DEF Typed, Restart, Places, bounds
<1>6. CASE Crash(l)
  <2>1. deaths' \in [Launchers -> Deaths]
    <3>1. OneMore(deaths[l]) \in Deaths
      BY DeathsTypes DEF Typed
    <3> QED
      BY <1>6, <3>1 DEF Typed, Crash
  <2>2. age' \in [Launchers -> Ages]
    BY <1>6, DurationTypes DEF Typed, Crash, Ages
  <2>3. rapid' \in [Launchers -> 0..MaxRapid]
    BY <1>6, DurationTypes DEF Typed, Crash, AtMostOf
  <2>4. pc' \in [Launchers -> Places]
        /\ abandoned' \in [Launchers -> {"no", "insisted", "lost", "killed", "gaveUp"}]
    BY <1>6 DEF Typed, Crash, Places
  <2> QED
    BY <1>6, <2>1, <2>2, <2>3, <2>4 DEF Typed, Crash, bounds
<1>7. CASE Finish(l)
  BY <1>7 DEF Typed, Finish, Places, bounds, ghosts
<1>8. CASE Ends(l)
  BY <1>8 DEF Typed, Ends, Places, bounds, ghosts
<1>9. CASE LoseTrack(l)
  BY <1>9 DEF Typed, LoseTrack, Places
<1> QED
  BY <1>1, <1>2, <1>3, <1>4, <1>5, <1>6, <1>7, <1>8, <1>9 DEF Supervise

LEMMA TermTypes ==
    ASSUME Typed, NEW l \in Launchers, Term(l)
    PROVE  node' \in [Launchers -> Node]
<1> DEFINE n == IF node[l].st = "booting" THEN Dead(node[l], ByTerm)
                ELSE IF node[l].st = "serving" THEN ToldTo("closing")
                ELSE IF Alive(l) THEN ToldTo(node[l].st) ELSE node[l]
<1>1. n \in Node
  BY NodeTypes DEF Typed, Alive, ExitCodes
<1>2. node' = [node EXCEPT ![l] = n]
  BY DEF Term
<1> HIDE DEF n
<1> QED
  BY <1>1, <1>2 DEF Typed

LEMMA SignalTypes ==
    ASSUME Typed, NEW l \in Launchers, Interrupt(l) \/ Signalled(l) \/ KillLauncher(l)
    PROVE  Typed'
<1>1. CASE Interrupt(l) \/ signal_child(l)
  <2>1. node' \in [Launchers -> Node]
    BY <1>1, TermTypes DEF Typed, Interrupt, signal_child
  <2>2. CASE Interrupt(l)
    BY <2>1, <2>2 DEF Typed, Interrupt, launcherVars, ghosts
  <2>3. CASE signal_child(l)
    BY <2>1, <2>3 DEF Typed, signal_child, bounds, ghosts
  <2> QED
    BY <1>1, <2>2, <2>3
<1>2. CASE Unhandled(l) \/ SecondInterrupt(l) \/ KillLauncher(l)
  <2>1. CASE Unhandled(l)
    BY <2>1 DEF Typed, Unhandled, Places, bounds, ghosts
  <2>2. CASE SecondInterrupt(l)
    BY <2>2 DEF Typed, SecondInterrupt, Places, bounds
  <2>3. CASE KillLauncher(l)
    BY <2>3 DEF Typed, KillLauncher, Places
  <2> QED
    BY <1>2, <2>1, <2>2, <2>3
<1>3. CASE FirstInterrupt(l)
  BY <1>3 DEF Typed, FirstInterrupt, bounds
<1> QED
  BY <1>1, <1>2, <1>3 DEF Signalled

LEMMA ChildTypes ==
    ASSUME Typed, NEW l \in Launchers, Child(l)
    PROVE  Typed'
<1>1. node[l] \in Node
  BY DEF Typed
<1>2. \E n \in Node : node' = [node EXCEPT ![l] = n]
  BY <1>1, NodeTypes DEF Child, Listen, ListenFails, Exits, Hangs, Closes, Dies, ExitCodes
<1>3. UNCHANGED <<launcherVars, age, pending, pidfile, stop, bounds, ghosts>>
  BY DEF Child, Listen, ListenFails, Exits, Hangs, Closes, Dies
<1>4. node' \in [Launchers -> Node]
  BY <1>2 DEF Typed
<1> QED
  BY <1>3, <1>4 DEF Typed, launcherVars, bounds, ghosts

\* A stop is with a launcher, or over.
LEMMA StopTypes ==
    ASSUME Typed, NEW s \in Stoppers, Stopping(s)
    PROVE  Typed'
<1>0. stop[s].at \in {"found", "waiting"} =>
        stop[s] \in [at : {"found", "waiting"}, pid : Launchers, age : 0..StopWait]
  BY DEF Typed, Patience
<1>1. CASE StopFinds(s)
  <2>1. running_pid # NoOne => running_pid \in Launchers
    BY DEF Typed, running_pid
  <2>2. [at |-> "none"] \in Patience /\ 0 \in 0..StopWait
    BY DurationTypes DEF Patience
  <2>3. running_pid # NoOne => [at |-> "found", pid |-> running_pid, age |-> 0] \in Patience
    BY <2>1, <2>2 DEF Patience
  <2>4. stop' \in [Stoppers -> Patience]
    BY <1>1, <2>2, <2>3 DEF Typed, StopFinds
  <2> QED
    BY <1>1, <2>4 DEF Typed, StopFinds, launcherVars, bounds, ghosts
<1>2. CASE StopSignals(s)
  <2>1. stop[s].pid \in Launchers
    BY <1>0, <1>2 DEF StopSignals
  <2>2. [stop[s] EXCEPT !.at = "waiting"] \in Patience /\ [at |-> "error"] \in Patience
    BY <1>0, <1>2 DEF StopSignals, Patience
  <2>3. stop' \in [Stoppers -> Patience]
    BY <1>2, <2>2 DEF Typed, StopSignals
  <2>4. pending' \in [Launchers -> Nat]
    BY <1>2, <2>1 DEF Typed, StopSignals
  <2> QED
    BY <1>2, <2>3, <2>4 DEF Typed, StopSignals, launcherVars, bounds, ghosts
<1>3. CASE StopLooks(s)
  <2>1. [at |-> "overdue"] \in Patience /\ [at |-> "stopped"] \in Patience
    BY DEF Patience
  <2>2. stop' \in [Stoppers -> Patience]
    BY <1>3, <2>1 DEF Typed, StopLooks
  <2> QED
    BY <1>3, <2>2 DEF Typed, StopLooks, launcherVars, bounds, ghosts
<1> QED
  BY <1>1, <1>2, <1>3 DEF Stopping

LEMMA TickTypes ==
    ASSUME Typed, Tick
    PROVE  Typed'
<1>1. age' \in [Launchers -> Ages]
  <2>1. ASSUME NEW l \in Launchers
        PROVE  [window |-> AtMostOf(age[l].window + 1, Window),
                life |-> AtMostOf(age[l].life + 1, RapidWindow + 1)] \in Ages
               /\ [window |-> 0, life |-> 0] \in Ages
    BY DurationTypes DEF Typed, Ages, AtMostOf
  <2> QED
    BY <2>1 DEF Tick
<1>2. grace' \in [Launchers -> 0..Grace + 1]
  <2>1. ASSUME NEW l \in Launchers, shutting[l], pc[l] = "waiting"
        PROVE  grace[l] + 1 \in 0..Grace + 1
    BY <2>1, DurationTypes DEF Typed, Tick, Quiet, Expired
  <2> QED
    BY <2>1 DEF Typed, Tick
<1>3. stop' \in [Stoppers -> Patience]
  <2>1. ASSUME NEW s \in Stoppers, stop[s].at = "waiting"
        PROVE  [stop[s] EXCEPT !.age = @ + 1] \in Patience
    <3>1. stop[s] \in [at : {"found", "waiting"}, pid : Launchers, age : 0..StopWait]
      BY <2>1 DEF Typed, Patience
    <3>2. stop[s].age + 1 \in 0..StopWait
      BY <2>1, <3>1, DurationTypes DEF Tick, Quiet
    <3> QED
      BY <3>1, <3>2 DEF Patience
  <2> QED
    BY <2>1 DEF Typed, Tick
<1>4. deaths' \in [Launchers -> Deaths]
  BY DeathsTypes DEF Typed, Tick
<1> QED
  BY <1>1, <1>2, <1>3, <1>4 DEF Typed, Tick, bounds

LEMMA NextTypes == Typed /\ [Next]_vars => Typed'
<1> SUFFICES ASSUME Typed, [Next]_vars PROVE Typed'
  OBVIOUS
<1>1. CASE UNCHANGED vars
  BY <1>1 DEF Typed, vars, launcherVars, bounds, ghosts
<1> QED
  BY <1>1, LaunchTypes, SuperviseTypes, SignalTypes, ChildTypes, StopTypes, TickTypes DEF Next

\* Every variable stays in its set: in particular no deadline of a child, and
\* no patience of a stop, runs out unnoticed while the clock goes on.
THEOREM TypeCorrect == Spec => []TypeOK
<1>1. Typed => TypeOK
  BY DEF Typed, TypeOK, Places, Ages, Node, Patience, Deaths
<1> QED
  BY <1>1, InitTypes, NextTypes, PTL DEF Spec

-----------------------------------------------------------------------------
(* Giving up. *)

\* The inductive invariant: crashes the count knows of are within its window.
Counted(l) ==
    /\ pc[l] \in {"off", "checked", "installed"} => rapid[l] = 0
    /\ is_alive(l) /\ age[l].window < Window
        => \A i \in 1..rapid[l] : deaths[l][i] <= age[l].window
    /\ abandoned[l] = "gaveUp" =>
        /\ pc[l] \in {"finish", "exited"}
        /\ \A i \in 1..MaxRapid : deaths[l][i] < Window
Counts == \A l \in Launchers : Counted(l)

\* What the crashes of a launcher are counted by stays as it is.
LEMMA SameCounted ==
    ASSUME NEW l \in Launchers, Counted(l), is_alive(l)' => is_alive(l),
           pc'[l] \in {"off", "checked", "installed"} => pc[l] \in {"off", "checked", "installed"},
           rapid'[l] = rapid[l], age'[l].window = age[l].window, deaths'[l] = deaths[l],
           abandoned'[l] = "gaveUp" => abandoned[l] = "gaveUp",
           pc[l] \in {"finish", "exited"} => pc'[l] \in {"finish", "exited"}
    PROVE  Counted(l)'
BY DEF Counted

LEMMA CrashCounts ==
    ASSUME Typed, NEW l \in Launchers, Crash(l), Counted(l)
    PROVE  Counted(l)'
<1> DEFINE lived == age[l].life > RapidWindow
           window == IF lived THEN 0 ELSE age[l].window
           count == (IF lived THEN 0 ELSE rapid[l]) + 1
           giveUp == count >= MaxRapid /\ window < Window
<1>1. /\ rapid[l] \in 0..MaxRapid /\ age[l] \in Ages /\ deaths[l] \in Deaths
      /\ abandoned[l] # "gaveUp" /\ is_alive(l)
  BY DEF Typed, Crash, Counted, is_alive
<1>2. /\ pc'[l] = IF giveUp THEN "finish" ELSE "sleeping"
      /\ rapid'[l] = AtMostOf(count, MaxRapid)
      /\ age'[l].window = window
      /\ abandoned'[l] = IF giveUp THEN "gaveUp" ELSE abandoned[l]
      /\ deaths'[l] = OneMore(deaths[l])
  BY <1>1 DEF Crash, Typed, Ages
<1>3. window \in 0..Window /\ count \in 1..MaxRapid + 1 /\ rapid'[l] \in 1..MaxRapid
  BY <1>1, <1>2, DurationTypes DEF Ages, AtMostOf
<1>4. window < Window => \A i \in 1..rapid'[l] : deaths'[l][i] <= window
  <2> SUFFICES ASSUME window < Window, NEW i \in 1..rapid'[l]
               PROVE  OneMore(deaths[l])[i] <= window
    BY <1>2
  <2>1. i \in 1..MaxRapid + 1
    BY <1>3, DurationTypes
  <2>2. CASE i = 1
    BY <1>3, <2>1, <2>2 DEF OneMore
  <2>3. CASE i # 1
    <3>1. ~lived /\ i - 1 \in 1..rapid[l]
      BY <1>1, <1>2, <1>3, <2>1, <2>3 DEF AtMostOf
    <3>2. deaths[l][i - 1] <= window
      BY <1>1, <3>1 DEF Counted
    <3> QED
      BY <2>1, <2>3, <3>2 DEF OneMore
  <2> QED
    BY <2>2, <2>3
<1>5. giveUp => \A i \in 1..MaxRapid : deaths'[l][i] < Window
  <2> SUFFICES ASSUME giveUp, NEW i \in 1..MaxRapid PROVE deaths'[l][i] < Window
    OBVIOUS
  <2>1. rapid'[l] = MaxRapid
    BY <1>1, <1>2, <1>3, DurationTypes DEF AtMostOf
  <2>2. deaths'[l] \in Deaths /\ i \in 1..MaxRapid + 1
    BY <1>1, <1>2, DeathsTypes, DurationTypes
  <2>3. deaths'[l][i] \in 0..Window /\ deaths'[l][i] <= window
    BY <1>4, <2>1, <2>2 DEF Deaths
  <2> QED
    BY <1>3, <2>3, DurationTypes
<1> HIDE DEF giveUp, count, window
<1> QED
  BY <1>1, <1>2, <1>4, <1>5 DEF Counted

LEMMA TickCounts ==
    ASSUME Typed, Tick, NEW l \in Launchers, Counted(l)
    PROVE  Counted(l)'
<1>1. /\ rapid[l] \in 0..MaxRapid /\ age[l] \in Ages /\ deaths[l] \in Deaths
      /\ UNCHANGED <<pc, rapid, abandoned>>
  BY DEF Typed, Tick
<1>2. CASE is_alive(l)
  <2>1. /\ age'[l].window = AtMostOf(age[l].window + 1, Window)
        /\ deaths'[l] = Later(deaths[l]) /\ abandoned[l] # "gaveUp"
    BY <1>2 DEF Tick, Typed, Counted, Quiet, is_alive
  <2>2. ASSUME age'[l].window < Window, NEW i \in 1..rapid[l]
        PROVE  deaths'[l][i] <= age'[l].window
    <3>1. age[l].window < Window /\ age'[l].window = age[l].window + 1
      BY <1>1, <2>1, <2>2, DurationTypes DEF Ages, AtMostOf
    <3>2. i \in 1..MaxRapid + 1 /\ deaths[l][i] \in 0..Window
      BY <1>1, DurationTypes DEF Deaths
    <3>3. deaths[l][i] <= age[l].window
      BY <1>2, <3>1 DEF Counted
    <3>4. deaths'[l][i] = AtMostOf(deaths[l][i] + 1, Window)
      BY <2>1, <3>2 DEF Later
    <3> QED
      BY <1>1, <3>1, <3>2, <3>3, <3>4, DurationTypes DEF AtMostOf, Ages
  <2> QED
    BY <1>1, <2>1, <2>2 DEF Counted
<1>3. CASE ~is_alive(l)
  <2>1. deaths'[l] = deaths[l] /\ ~is_alive(l)'
    BY <1>1, <1>3 DEF Tick, Typed, is_alive
  <2> QED
    BY <1>1, <2>1 DEF Counted
<1> QED
  BY <1>2, <1>3

\* Steps of one launcher leave what the others count by alone.
LEMMA OthersCount ==
    ASSUME Typed, NEW l \in Launchers,
           Launch(l) \/ Supervise(l) \/ LoseTrack(l) \/ Interrupt(l) \/ Signalled(l)
           \/ KillLauncher(l) \/ Child(l),
           NEW k \in Launchers, k # l
    PROVE  /\ pc'[k] = pc[k] /\ rapid'[k] = rapid[k] /\ age'[k] = age[k]
           /\ deaths'[k] = deaths[k] /\ abandoned'[k] = abandoned[k]
<1>1. CASE Launch(l)
  BY <1>1 DEF Typed, Launch, Start, Install, write_own, ghosts
<1>2. CASE Supervise(l)
  BY <1>2 DEF Typed, Supervise, Spawn, SpawnFails, set_child, Reap, SetDeadline, Kill, Ends,
     Restart, Crash, Wake, Finish, ghosts
<1>3. CASE LoseTrack(l) \/ Interrupt(l) \/ KillLauncher(l)
  BY <1>3 DEF Typed, LoseTrack, Interrupt, KillLauncher, launcherVars, ghosts
<1>4. CASE Signalled(l)
  BY <1>4 DEF Typed, Signalled, Unhandled, FirstInterrupt, signal_child, SecondInterrupt, ghosts
<1>5. CASE Child(l)
  BY <1>5 DEF Child, Listen, ListenFails, Exits, Hangs, Closes, Dies, launcherVars, ghosts
<1> QED
  BY <1>1, <1>2, <1>3, <1>4, <1>5

LEMMA OwnCount ==
    ASSUME Typed, NEW l \in Launchers, Counted(l),
           Launch(l) \/ Supervise(l) \/ LoseTrack(l) \/ Interrupt(l) \/ Signalled(l)
           \/ KillLauncher(l) \/ Child(l)
    PROVE  Counted(l)'
<1>1. CASE Start(l) \/ Install(l) \/ write_own(l) \/ Restart(l)
  <2>1. /\ rapid'[l] = 0 /\ abandoned'[l] = abandoned[l]
        /\ pc[l] \notin {"finish", "exited"}
    BY <1>1 DEF Typed, Counted, Start, Install, write_own, Restart, ghosts
  <2> QED
    BY <2>1 DEF Counted
<1>2. CASE Spawn(l)
  <2>1. /\ pc[l] = "build" /\ pc'[l] = "spawned" /\ rapid'[l] = rapid[l]
        /\ age'[l].window = age[l].window
        /\ deaths'[l] = deaths[l] /\ abandoned'[l] = abandoned[l]
    BY <1>2 DEF Typed, Ages, Spawn
  <2> QED
    BY <2>1, SameCounted DEF is_alive
<1>3. CASE SpawnFails(l) \/ set_child(l) \/ Reap(l) \/ SetDeadline(l) \/ Kill(l) \/ Ends(l)
           \/ Wake(l) \/ Finish(l) \/ LoseTrack(l)
  <2>1. /\ rapid' = rapid /\ age' = age /\ deaths' = deaths
        /\ abandoned'[l] = "gaveUp" => abandoned[l] = "gaveUp"
    BY <1>3 DEF Typed, SpawnFails, set_child, Reap, SetDeadline, Kill, Ends, Wake, Finish,
       LoseTrack, ghosts
  <2>2. /\ is_alive(l) /\ pc'[l] \notin {"off", "checked", "installed"}
        /\ pc[l] \in {"finish", "exited"} => pc'[l] \in {"finish", "exited"}
    BY <1>3 DEF Typed, SpawnFails, set_child, Reap, SetDeadline, Kill, Ends, Wake, Finish,
       LoseTrack, is_alive
  <2> QED
    BY <2>1, <2>2, SameCounted
<1>4. CASE Unhandled(l) \/ SecondInterrupt(l) \/ KillLauncher(l)
  <2>1. /\ rapid' = rapid /\ age' = age /\ deaths' = deaths /\ pc'[l] = "exited"
        /\ abandoned'[l] = "gaveUp" => abandoned[l] = "gaveUp"
    BY <1>4 DEF Typed, Unhandled, SecondInterrupt, KillLauncher, ghosts
  <2> QED
    BY <2>1, SameCounted DEF is_alive
<1>5. CASE Interrupt(l) \/ FirstInterrupt(l) \/ signal_child(l) \/ Child(l)
  <2>1. UNCHANGED <<pc, rapid, age, deaths, abandoned>>
    BY <1>5 DEF Interrupt, FirstInterrupt, signal_child, Child, Listen, ListenFails, Exits,
       Hangs, Closes, Dies, launcherVars, ghosts
  <2> QED
    BY <2>1, SameCounted DEF is_alive
<1>6. CASE Crash(l)
  BY <1>6, CrashCounts
<1> QED
  BY <1>1, <1>2, <1>3, <1>4, <1>5, <1>6 DEF Launch, Supervise, Signalled

LEMMA NextCounts ==
    ASSUME Typed, Counts, [Next]_vars
    PROVE  Counts'
<1> SUFFICES ASSUME NEW k \in Launchers PROVE Counted(k)'
  BY DEF Counts
<1>0. Counted(k)
  BY DEF Counts
<1>1. ASSUME NEW l \in Launchers,
             Launch(l) \/ Supervise(l) \/ LoseTrack(l) \/ Interrupt(l) \/ Signalled(l)
             \/ KillLauncher(l) \/ Child(l)
      PROVE  Counted(k)'
  <2>1. CASE k = l
    BY <1>0, <1>1, <2>1, OwnCount
  <2>2. CASE k # l
    BY <1>0, <1>1, <2>2, OthersCount, SameCounted DEF is_alive
  <2> QED
    BY <2>1, <2>2
<1>2. CASE UNCHANGED vars \/ \E s \in Stoppers : Stopping(s)
  <2>1. UNCHANGED <<pc, rapid, age, deaths, abandoned>>
    BY <1>2 DEF vars, launcherVars, ghosts, Stopping, StopFinds, StopSignals, StopLooks
  <2> QED
    BY <1>0, <2>1, SameCounted DEF is_alive
<1> QED
  BY <1>0, <1>1, <1>2, TickCounts DEF Next

LEMMA InitCounts ==
    ASSUME Init
    PROVE  Counts
<1>1. ASSUME NEW k \in Launchers PROVE Counted(k)
  <2>1. pc[k] = "off" /\ rapid[k] = 0 /\ abandoned[k] = "no"
    BY DEF Init
  <2> QED
    BY <2>1 DEF Counted, is_alive
<1> QED
  BY <1>1, Zenon DEF Counts

\* A launcher gives up only on a crash loop: MaxRapid crashes within three
\* windows, whatever restarts and longer lives came between.
THEOREM GivesUpForCause == Spec => []GaveUpForCause
<1>1. Typed /\ Counts /\ [Next]_vars => (Typed /\ Counts)'
  BY NextTypes, NextCounts
<1>2. Counts => GaveUpForCause
  BY DEF Counts, Counted, GaveUpForCause
<1> QED
  BY <1>1, <1>2, InitCounts, InitTypes, PTL DEF Spec

-----------------------------------------------------------------------------
(* Stopping in time. *)

\* The inductive invariant: the patience of a stop runs with the grace of the
\* child, and behind it.
Clocked(s) ==
    /\ stop[s].at # "overdue"
    /\ stop[s].at = "found" => pc[stop[s].pid] # "off" /\ stop[s].age = 0
    /\ stop[s].at = "waiting" =>
        LET l == stop[s].pid
        IN  /\ pc[l] # "off"
            /\ stop[s].age <= Grace
            /\ is_alive(l) => pending[l] > 0 \/ shutting[l]
            /\ is_alive(l) /\ stop[s].age > 0 =>
                /\ shutting[l] /\ pc[l] \in {"waiting", "reaped", "finish"}
                /\ stop[s].age < grace[l]
Clock == \A s \in Stoppers : Clocked(s)

\* A launcher that stops goes on to stop.
GoesOnStopping(l) ==
    /\ pc[l] # "off" => pc'[l] # "off" /\ (is_alive(l)' => is_alive(l))
    /\ pending[l] > 0 \/ shutting[l] => pending'[l] > 0 \/ shutting'[l] \/ ~is_alive(l)'
    /\ shutting[l] /\ pc[l] \in {"waiting", "reaped", "finish"} /\ grace[l] > 0 =>
        \/ ~is_alive(l)'
        \/ /\ shutting'[l] /\ pc'[l] \in {"waiting", "reaped", "finish"}
           /\ grace'[l] >= grace[l]

LEMMA OwnStopping ==
    ASSUME Typed, NEW l \in Launchers,
           Launch(l) \/ Supervise(l) \/ LoseTrack(l) \/ Interrupt(l) \/ Signalled(l)
           \/ KillLauncher(l) \/ Child(l)
    PROVE  GoesOnStopping(l)
<1>0. pending[l] \in Nat /\ grace[l] \in Nat
  BY DurationTypes DEF Typed
<1>1. CASE Launch(l)
  BY <1>1 DEF Typed, Launch, Start, Install, write_own, GoesOnStopping, is_alive
<1>2. CASE Spawn(l) \/ SpawnFails(l) \/ set_child(l) \/ Wake(l)
  BY <1>2 DEF Typed, Spawn, SpawnFails, set_child, Wake, GoesOnStopping, is_alive
<1>3. CASE Reap(l) \/ Kill(l) \/ Ends(l) \/ LoseTrack(l)
  BY <1>0, <1>3 DEF Typed, Reap, Kill, Ends, LoseTrack, GoesOnStopping, is_alive
<1>4. CASE SetDeadline(l)
  BY <1>0, <1>4 DEF Typed, SetDeadline, Unset, GoesOnStopping, is_alive
<1>5. CASE Restart(l) \/ Crash(l)
  BY <1>5 DEF Typed, Restart, Crash, GoesOnStopping, is_alive
<1>6. CASE Finish(l) \/ Unhandled(l) \/ SecondInterrupt(l) \/ KillLauncher(l)
  BY <1>6 DEF Typed, Finish, Unhandled, SecondInterrupt, KillLauncher, GoesOnStopping, is_alive
<1>7. CASE Interrupt(l) \/ FirstInterrupt(l)
  BY <1>0, <1>7 DEF Typed, Interrupt, FirstInterrupt, launcherVars, GoesOnStopping, is_alive
<1>8. CASE signal_child(l) \/ Child(l)
  <2>1. UNCHANGED <<pc, shutting, pending, grace>>
    BY <1>8 DEF signal_child, Child, Listen, ListenFails, Exits, Hangs, Closes, Dies, launcherVars
  <2> QED
    BY <1>0, <2>1 DEF GoesOnStopping, is_alive
<1> QED
  BY <1>1, <1>2, <1>3, <1>4, <1>5, <1>6, <1>7, <1>8 DEF Supervise, Signalled

LEMMA OthersStopping ==
    ASSUME Typed, NEW l \in Launchers,
           Launch(l) \/ Supervise(l) \/ LoseTrack(l) \/ Interrupt(l) \/ Signalled(l)
           \/ KillLauncher(l) \/ Child(l),
           NEW k \in Launchers, k # l
    PROVE  GoesOnStopping(k)
<1>1. /\ pc'[k] = pc[k] /\ shutting'[k] = shutting[k] /\ pending'[k] = pending[k]
      /\ grace'[k] = grace[k]
  <2>1. CASE Launch(l)
    BY <2>1 DEF Typed, Launch, Start, Install, write_own
  <2>2. CASE Supervise(l)
    BY <2>2 DEF Typed, Supervise, Spawn, SpawnFails, set_child, Reap, SetDeadline, Kill, Ends,
       Restart, Crash, Wake, Finish
  <2>3. CASE LoseTrack(l) \/ Interrupt(l) \/ KillLauncher(l)
    BY <2>3 DEF Typed, LoseTrack, Interrupt, KillLauncher, launcherVars
  <2>4. CASE Signalled(l)
    BY <2>4 DEF Typed, Signalled, Unhandled, FirstInterrupt, signal_child, SecondInterrupt
  <2>5. CASE Child(l)
    BY <2>5 DEF Child, Listen, ListenFails, Exits, Hangs, Closes, Dies, launcherVars
  <2> QED
    BY <2>1, <2>2, <2>3, <2>4, <2>5
<1>2. grace[k] \in Nat
  BY DurationTypes DEF Typed
<1> QED
  BY <1>1, <1>2 DEF GoesOnStopping, is_alive

\* A stop that has found or waits for a launcher is with one.
LEMMA PatienceTypes ==
    ASSUME Typed, NEW s \in Stoppers, stop[s].at \in {"found", "waiting"}
    PROVE  stop[s].pid \in Launchers /\ stop[s].age \in 0..StopWait
BY DEF Typed, Patience

LEMMA StillClocked ==
    ASSUME Typed, NEW s \in Stoppers, Clocked(s), stop'[s] = stop[s],
           \A l \in Launchers : grace'[l] \in Nat,
           \A l \in Launchers : GoesOnStopping(l)
    PROVE  Clocked(s)'
<1>1. CASE stop[s].at = "found"
  BY <1>1, PatienceTypes DEF Clocked, GoesOnStopping
<1>2. CASE stop[s].at = "waiting"
  <2> DEFINE l == stop[s].pid
  <2>1. /\ l \in Launchers /\ stop[s].age \in Nat /\ grace[l] \in Nat /\ grace'[l] \in Nat
        /\ GoesOnStopping(l)
    BY <1>2, PatienceTypes, DurationTypes DEF Typed
  <2> QED
    BY <1>2, <2>1 DEF Clocked, GoesOnStopping
<1>3. CASE stop[s].at \notin {"found", "waiting"}
  BY <1>3 DEF Clocked
<1> QED
  BY <1>1, <1>2, <1>3

LEMMA StopClocks ==
    ASSUME Typed, NEW s \in Stoppers, Stopping(s), Clocked(s), Grace < StopWait
    PROVE  Clocked(s)'
<1>0. UNCHANGED <<pc, shutting, grace>>
  BY DEF Stopping, StopFinds, StopSignals, StopLooks, launcherVars
<1>1. CASE StopFinds(s)
  BY <1>0, <1>1 DEF StopFinds, Typed, Clocked, running_pid, is_alive
<1>2. CASE StopSignals(s)
  <2> DEFINE l == stop[s].pid
  <2>0. l \in Launchers /\ pc[l] # "off" /\ stop[s].age = 0 /\ stop[s].at = "found"
    BY <1>2, PatienceTypes DEF StopSignals, Clocked
  <2>1. CASE is_alive(l)
    <3>1. stop' = [stop EXCEPT ![s].at = "waiting"] /\ pending' = [pending EXCEPT ![l] = @ + 1]
      BY <1>2, <2>1 DEF StopSignals
    <3>2. stop[s] \in [at : {"found", "waiting"}, pid : Launchers, age : 0..StopWait]
      BY <2>0 DEF Typed, Patience
    <3>3. stop'[s].at = "waiting" /\ stop'[s].pid = l /\ stop'[s].age = 0
      BY <2>0, <3>1, <3>2 DEF Typed
    <3>4. pending'[l] > 0 /\ Grace >= 0
      BY <2>0, <3>1, DurationTypes DEF Typed
    <3> QED
      BY <1>0, <2>0, <3>3, <3>4 DEF Clocked
  <2>2. CASE ~is_alive(l)
    BY <1>2, <2>2 DEF StopSignals, Typed, Clocked
  <2> QED
    BY <2>1, <2>2
<1>3. CASE StopLooks(s)
  <2>1. stop[s].age # StopWait
    BY <1>3, PatienceTypes, DurationTypes DEF StopLooks, Clocked
  <2> QED
    BY <1>3, <2>1 DEF StopLooks, Typed, Clocked
<1> QED
  BY <1>1, <1>2, <1>3 DEF Stopping

LEMMA OtherStopClocks ==
    ASSUME Typed, NEW s \in Stoppers, Stopping(s), NEW t \in Stoppers, t # s, Clocked(t)
    PROVE  Clocked(t)'
<1>1. /\ UNCHANGED <<pc, shutting, grace>> /\ stop'[t] = stop[t]
      /\ \A l \in Launchers : pending[l] > 0 => pending'[l] > 0
  <2>1. CASE StopFinds(s) \/ StopLooks(s)
    BY <2>1 DEF StopFinds, StopLooks, Typed, launcherVars
  <2>2. CASE StopSignals(s)
    <3>1. stop[s].pid \in Launchers
      BY <2>2, PatienceTypes DEF StopSignals
    <3> QED
      BY <2>2, <3>1 DEF StopSignals, Typed, launcherVars
  <2> QED
    BY <2>1, <2>2 DEF Stopping
<1>2. \A l \in Launchers : grace[l] \in Nat
  BY DurationTypes DEF Typed
<1> QED
  BY <1>1, <1>2, StillClocked DEF GoesOnStopping, is_alive

LEMMA TickClocks ==
    ASSUME Typed, Tick, NEW s \in Stoppers, Clocked(s)
    PROVE  Clocked(s)'
<1>0. UNCHANGED <<pc, shutting, pending>>
  BY DEF Tick
<1>1. CASE stop[s].at = "waiting"
  <2> DEFINE l == stop[s].pid
  <2>0. /\ stop[s] \in [at : {"found", "waiting"}, pid : Launchers, age : 0..StopWait]
        /\ l \in Launchers /\ grace[l] \in Nat
    BY <1>1, DurationTypes DEF Typed, Patience
  <2>1. is_alive(l) /\ pending[l] = 0 /\ shutting[l] /\ pc[l] = "waiting"
    BY <1>1, <2>0 DEF Tick, Quiet, Clocked, is_alive
  <2>2. grace[l] # Unset /\ ~(grace[l] > Grace)
    BY <2>0, <2>1 DEF Tick, Quiet, Expired
  <2>3. stop'[s].at = "waiting" /\ stop'[s].pid = l /\ stop'[s].age = stop[s].age + 1
    BY <1>1, <2>0 DEF Tick
  <2>4. grace'[l] = grace[l] + 1
    BY <2>0, <2>1 DEF Tick
  <2>5. stop[s].age < grace[l]
    BY <1>1, <2>0, <2>1, <2>2 DEF Clocked, Unset
  <2>6. stop'[s].age <= Grace /\ stop'[s].age < grace'[l]
    BY <2>0, <2>2, <2>3, <2>4, <2>5, DurationTypes
  <2> QED
    BY <1>0, <2>1, <2>3, <2>6 DEF Clocked
<1>2. CASE stop[s].at # "waiting"
  <2>1. stop'[s] = stop[s]
    BY <1>2 DEF Tick
  <2> QED
    BY <1>0, <1>2, <2>1 DEF Clocked
<1> QED
  BY <1>1, <1>2

LEMMA NextClocks ==
    ASSUME Typed, Grace < StopWait, Clock, [Next]_vars
    PROVE  Clock'
<1> SUFFICES ASSUME NEW t \in Stoppers PROVE Clocked(t)'
  BY DEF Clock
<1>0. Clocked(t)
  BY DEF Clock
<1>1. ASSUME NEW l \in Launchers,
             Launch(l) \/ Supervise(l) \/ LoseTrack(l) \/ Interrupt(l) \/ Signalled(l)
             \/ KillLauncher(l) \/ Child(l)
      PROVE  Clocked(t)'
  <2>1. \A k \in Launchers : GoesOnStopping(k)
    BY <1>1, OwnStopping, OthersStopping
  <2>2. stop' = stop
    BY <1>1 DEF Launch, Start, Install, write_own, Supervise, Spawn, SpawnFails, set_child, Reap,
       SetDeadline, Kill, Ends, Restart, Crash, Wake, Finish, LoseTrack, Interrupt, Signalled,
       Unhandled, FirstInterrupt, signal_child, SecondInterrupt, KillLauncher, Child, Listen,
       ListenFails, Exits, Hangs, Closes, Dies
  <2>3. \A k \in Launchers : grace'[k] \in Nat
    BY <1>1, NextTypes, DurationTypes DEF Next, Typed
  <2> QED
    BY <1>0, <2>1, <2>2, <2>3, StillClocked
<1>2. ASSUME NEW s \in Stoppers, Stopping(s) PROVE Clocked(t)'
  BY <1>0, <1>2, StopClocks, OtherStopClocks
<1>3. CASE Tick
  BY <1>0, <1>3, TickClocks
<1>4. CASE UNCHANGED vars
  <2>1. UNCHANGED <<pc, shutting, pending, grace, stop>>
    BY <1>4 DEF vars, launcherVars
  <2> QED
    BY <1>0, <2>1 DEF Clocked, is_alive
<1> QED
  BY <1>1, <1>2, <1>3, <1>4 DEF Next

\* If the grace is shorter than the patience of a stop, no stop is ever
\* reported overdue, whatever hangs, and whoever else interrupts meanwhile.
THEOREM StopsInTime == Spec => []StopInTime
<1>1. Init => Clock
  BY DEF Init, Clock, Clocked
<1>2. CASE Grace < StopWait
  <2>1. Typed /\ Clock /\ [Next]_vars => (Typed /\ Clock)'
    BY <1>2, NextTypes, NextClocks
  <2>2. Clock => StopInTime
    BY DEF Clock, Clocked, StopInTime
  <2> QED
    BY <1>1, <2>1, <2>2, InitTypes, PTL DEF Spec
<1>3. CASE ~(Grace < StopWait)
  <2>1. StopInTime
    BY <1>3 DEF StopInTime
  <2> QED
    BY <2>1, PTL
<1> QED
  BY <1>2, <1>3
==============================================================================
