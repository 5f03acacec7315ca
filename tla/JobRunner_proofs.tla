--------------------------- MODULE JobRunner_proofs ---------------------------
(***************************************************************************)
(* Proofs about JobRunner, for every catalogue, every set of runs, every   *)
(* set of ids and every policy.                                            *)
(***************************************************************************)
EXTENDS JobRunner, TLAPS

-----------------------------------------------------------------------------
(* Type correctness.                                                       *)

LEMMA NewestType ==
    ASSUME NEW s \in Seq(Ids)
    PROVE  Newest(s) \in Seq(Ids)
BY RunnerAssumption DEF Newest

LEMMA CommitType ==
    ASSUME TypeOK, NEW r \in Runs, JobOf(r) \in Jobs, Commit(r)
    PROVE  /\ staged' \in [Runs -> Seq(Ids)]
           /\ store' \in [Jobs -> Seq(Ids)]
           /\ disk' \in [Jobs -> Seq(Ids)]
<1>1. CASE staged[r] = <<>>
  BY <1>1 DEF Commit, TypeOK
<1>2. CASE staged[r] # <<>>
  <2>1. store[JobOf(r)] \o staged[r] \in Seq(Ids)
    BY DEF TypeOK
  <2>2. Newest(store[JobOf(r)] \o staged[r]) \in Seq(Ids)
    BY <2>1, NewestType
  <2>3. store' = [store EXCEPT ![JobOf(r)] = Newest(store[JobOf(r)] \o staged[r])]
    BY <1>2 DEF Commit
  <2>4. store' \in [Jobs -> Seq(Ids)]
    BY <2>2, <2>3 DEF TypeOK
  <2>5. disk' \in [Jobs -> Seq(Ids)]
    BY <1>2, <2>4 DEF Commit, Save, TypeOK
  <2>6. <<>> \in Seq(Ids)
    OBVIOUS
  <2>7. staged' \in [Runs -> Seq(Ids)]
    BY <1>2, <2>6 DEF Commit, TypeOK
  <2> QED
    BY <2>4, <2>5, <2>7
<1> QED
  BY <1>1, <1>2

LEMMA RecordType ==
    ASSUME TypeOK, NEW r \in Runs,
           NEW o \in {"skipped", "completed", "failed"}, Record(r, o)
    PROVE  recorded' \in [Runs -> Seq({"skipped", "completed", "failed"})]
<1>1. Append(recorded[r], o) \in Seq({"skipped", "completed", "failed"})
  BY DEF TypeOK
<1> QED
  BY <1>1 DEF Record, TypeOK

LEMMA HandoffType ==
    ASSUME NEW r, NEW h
    PROVE  Handoff(r, h) \in {"done", "lookup"}
BY DEF Handoff

\* A run that has been called is a run of a job of the catalogue.
Called == \A r \in Runs : phase[r] # "new" => JobOf(r) \in Jobs

LEMMA InitType == Init => TypeOK /\ Called
<1> SUFFICES ASSUME Init PROVE TypeOK /\ Called
  OBVIOUS
<1>1. NoCall \in [job : Jobs \cup {NoJob}, cause : Runs \cup {NoRun}, policy : Policy]
  BY DEF NoCall, Policy, HandlerIds
<1>2. NoAttempt \in [n : Nat, dry : BOOLEAN, batch : SUBSET Ids]
  BY DEF NoAttempt
<1>3. <<>> \in Seq(Ids) /\ <<>> \in Seq({"skipped", "completed", "failed"})
  OBVIOUS
<1> QED
  BY <1>1, <1>2, <1>3 DEF Init, TypeOK, Called, Forgotten, Phases

LEMMA EnterType ==
    ASSUME TypeOK, NEW r \in Runs, NEW j \in Jobs, NEW c \in Runs \cup {NoRun},
           NEW policy \in Policies[j], Enter(r, j, c, policy)
    PROVE  /\ call' \in [Runs -> [job : Jobs \cup {NoJob}, cause : Runs \cup {NoRun},
                                  policy : Policy]]
           /\ call'[r].job = j /\ call'[r].cause = c
           /\ \A s \in Runs \ {r} : call'[s] = call[s]
<1>1. policy \in Policy
  BY RunnerAssumption
<1>2. [job |-> j, cause |-> c, policy |-> policy]
        \in [job : Jobs \cup {NoJob}, cause : Runs \cup {NoRun}, policy : Policy]
  BY <1>1
<1> QED
  BY <1>2 DEF Enter, TypeOK

LEMMA StartAttemptType ==
    ASSUME TypeOK, NEW r \in Runs, StartAttempt(r)
    PROVE  TypeOK'
<1>1. [n |-> attempt[r].n + 1, dry |-> dryRun, batch |-> {}]
        \in [n : Nat, dry : BOOLEAN, batch : SUBSET Ids]
  BY DEF TypeOK
<1>2. attempt' \in [Runs -> [n : Nat, dry : BOOLEAN, batch : SUBSET Ids]]
  BY <1>1 DEF StartAttempt, TypeOK
<1>3. <<>> \in Seq(Ids)
  OBVIOUS
<1>4. staged' \in [Runs -> Seq(Ids)]
  BY <1>3 DEF StartAttempt, TypeOK
<1>5. live' \in SUBSET (Runs \X Nat)
  BY DEF StartAttempt, TypeOK
<1>6. phase' \in [Runs -> Phases]
  BY DEF StartAttempt, TypeOK, Phases
<1> QED
  BY <1>2, <1>4, <1>5, <1>6 DEF StartAttempt, TypeOK

LEMMA FailType ==
    ASSUME TypeOK, NEW r \in Runs, Fail(r), live' \in SUBSET live
    PROVE  TypeOK'
<1>1. recorded' \in [Runs -> Seq({"skipped", "completed", "failed"})]
  BY RecordType DEF Fail
<1>2. phase' \in [Runs -> Phases]
  BY HandoffType DEF Fail, TypeOK, Phases
<1> QED
  BY <1>1, <1>2 DEF Fail, TypeOK

LEMMA TypeStep ==
    ASSUME TypeOK, Called, [Next]_vars
    PROVE  TypeOK' /\ Called'
<1>1. ASSUME NEW r \in Runs, Call(r) PROVE TypeOK' /\ Called'
  <2>0. PICK j \in Jobs : \E policy \in Policies[j] : Enter(r, j, NoRun, policy)
    BY <1>1 DEF Call
  <2>1. PICK policy \in Policies[j] : Enter(r, j, NoRun, policy)
    BY <2>0
  <2>2. PICK p \in Entered : phase' = [phase EXCEPT ![r] = p]
    BY <1>1 DEF Call
  <2>3. phase' \in [Runs -> Phases]
    BY <2>2 DEF TypeOK, Phases, Entered
  <2>4. /\ call' \in [Runs -> [job : Jobs \cup {NoJob}, cause : Runs \cup {NoRun},
                                policy : Policy]]
        /\ call'[r].job = j
        /\ \A s \in Runs \ {r} : call'[s] = call[s]
    BY <2>1, EnterType
  <2>5. Called'
    BY <2>2, <2>4 DEF Called, JobOf, TypeOK
  <2> QED
    BY <1>1, <2>3, <2>4, <2>5 DEF Call, TypeOK
<1>2. ASSUME NEW r \in Runs, NEW h \in Runs, CallHandler(r, h)
      PROVE  TypeOK' /\ Called'
  <2>1. HandlerOf(r) \in Jobs
    BY <1>2 DEF CallHandler
  <2>2. PICK policy \in Policies[HandlerOf(r)] : Enter(h, HandlerOf(r), r, policy)
    BY <1>2 DEF CallHandler
  <2>3. PICK p \in Entered : phase' = [phase EXCEPT ![r] = "handling", ![h] = p]
    BY <1>2 DEF CallHandler
  <2>4. phase' \in [Runs -> Phases]
    BY <2>3 DEF TypeOK, Phases, Entered
  <2>5. /\ call' \in [Runs -> [job : Jobs \cup {NoJob}, cause : Runs \cup {NoRun},
                                policy : Policy]]
        /\ call'[h].job = HandlerOf(r)
        /\ \A s \in Runs \ {h} : call'[s] = call[s]
    BY <2>1, <2>2, EnterType
  <2>6. phase[r] # "new"
    BY <1>2 DEF CallHandler
  <2>7. Called'
    BY <2>1, <2>3, <2>5, <2>6 DEF Called, JobOf, TypeOK
  <2> QED
    BY <1>2, <2>4, <2>5, <2>7 DEF CallHandler, TypeOK
<1>3. ASSUME NEW r \in Runs, TokenDead(r) PROVE TypeOK' /\ Called'
  BY <1>3 DEF TokenDead, TypeOK, Phases, Called, JobOf
<1>4. ASSUME NEW r \in Runs, SkipBusy(r) PROVE TypeOK' /\ Called'
  <2>1. recorded' \in [Runs -> Seq({"skipped", "completed", "failed"})]
    BY <1>4, RecordType DEF SkipBusy
  <2> QED
    BY <1>4, <2>1 DEF SkipBusy, TypeOK, Phases, Called, JobOf
<1>5. ASSUME NEW r \in Runs, Begin(r) PROVE TypeOK' /\ Called'
  BY <1>5, StartAttemptType DEF Begin, StartAttempt, Called, JobOf, TypeOK
<1>6. ASSUME NEW r \in Runs, NEW id \in Ids, See(r, id) PROVE TypeOK' /\ Called'
  <2>1. Append(staged[r], id) \in Seq(Ids)
    BY DEF TypeOK
  <2>2. staged' \in [Runs -> Seq(Ids)]
    BY <1>6, <2>1 DEF See, TypeOK
  <2>3. attempt' \in [Runs -> [n : Nat, dry : BOOLEAN, batch : SUBSET Ids]]
    BY <1>6 DEF See, TypeOK
  <2> QED
    BY <1>6, <2>2, <2>3 DEF See, TypeOK, Called, JobOf
<1>7. ASSUME NEW r \in Runs, NEW changed \in BOOLEAN, Resolve(r, changed)
      PROVE  TypeOK' /\ Called'
  <2>1. recorded' \in [Runs -> Seq({"skipped", "completed", "failed"})]
    BY <1>7, RecordType DEF Resolve
  <2>2. /\ staged' \in [Runs -> Seq(Ids)]
        /\ store' \in [Jobs -> Seq(Ids)]
        /\ disk' \in [Jobs -> Seq(Ids)]
    <3>1. CASE Withheld(r)
      BY <1>7, <3>1 DEF Resolve, TypeOK
    <3>2. CASE ~Withheld(r)
      BY <1>7, <3>2, CommitType DEF Resolve, Called
    <3> QED
      BY <3>1, <3>2
  <2>3. phase' \in [Runs -> Phases]
    BY <1>7, HandoffType DEF Resolve, TypeOK, Phases
  <2>4. live' \in SUBSET (Runs \X Nat)
    BY <1>7 DEF Resolve, TypeOK
  <2>5. Called'
    BY <1>7, <2>3 DEF Resolve, Called, JobOf, TypeOK
  <2> QED
    BY <1>7, <2>1, <2>2, <2>3, <2>4, <2>5 DEF Resolve, TypeOK
<1>8. ASSUME NEW r \in Runs, NEW permanent \in BOOLEAN, Reject(r, permanent)
      PROVE  TypeOK' /\ Called'
  <2>1. CASE Fail(r)
    BY <1>8, <2>1, FailType DEF Reject, Fail, Called, JobOf, TypeOK
  <2>2. CASE Backoff(r)
    BY <1>8, <2>2 DEF Reject, Backoff, TypeOK, Phases, Called, JobOf
  <2> QED
    BY <1>8, <2>1, <2>2 DEF Reject
<1>9. ASSUME NEW r \in Runs, Timeout(r) PROVE TypeOK' /\ Called'
  <2>1. CASE MayRetry(r)
    BY <1>9, <2>1 DEF Timeout, TypeOK, Phases, Called, JobOf
  <2>2. CASE ~MayRetry(r)
    BY <1>9, <2>2, FailType DEF Timeout, Fail, Called, JobOf, TypeOK
  <2> QED
    BY <2>1, <2>2
<1>10. ASSUME NEW r \in Runs, GraceSettles(r) PROVE TypeOK' /\ Called'
  BY <1>10 DEF GraceSettles, Backoff, TypeOK, Phases, Called, JobOf
<1>11. ASSUME NEW r \in Runs, GraceExpires(r) PROVE TypeOK' /\ Called'
  BY <1>11, FailType DEF GraceExpires, Fail, Called, JobOf, TypeOK
<1>12. ASSUME NEW r \in Runs, Retry(r) PROVE TypeOK' /\ Called'
  BY <1>12, StartAttemptType DEF Retry, StartAttempt, Called, JobOf, TypeOK
<1>13. ASSUME NEW r \in Runs, LateSettle(r) PROVE TypeOK' /\ Called'
  BY <1>13 DEF LateSettle, TypeOK, Called, JobOf
<1>14. ASSUME NEW r \in Runs, HandlerMissing(r) \/ HandlerReturns(r)
       PROVE  TypeOK' /\ Called'
  BY <1>14 DEF HandlerMissing, HandlerReturns, TypeOK, Phases, Called, JobOf
<1>15. ASSUME NEW j \in Jobs, Forget(j) PROVE TypeOK' /\ Called'
  <2>1. <<>> \in Seq(Ids)
    OBVIOUS
  <2>2. store' \in [Jobs -> Seq(Ids)]
    BY <1>15, <2>1 DEF Forget, TypeOK
  <2>3. disk' \in [Jobs -> Seq(Ids)]
    BY <1>15, <2>2 DEF Forget, Save, TypeOK
  <2> QED
    BY <1>15, <2>2, <2>3 DEF Forget, TypeOK, Called, JobOf
<1>16. CASE FlipSwitch
  BY <1>16 DEF FlipSwitch, TypeOK, Called, JobOf
<1>17. CASE Crash
  <2>1. Forgotten \in [Jobs -> Seq(Ids)]
    <3>1. <<>> \in Seq(Ids)
      OBVIOUS
    <3> QED
      BY <3>1 DEF Forgotten
  <2>2. store' \in [Jobs -> Seq(Ids)] /\ disk' \in [Jobs -> Seq(Ids)]
    BY <1>17, <2>1 DEF Crash, TypeOK
  <2>3. phase' \in [Runs -> Phases]
    BY <1>17 DEF Crash, TypeOK, Phases
  <2>4. Called'
    BY <1>17 DEF Crash, Called, JobOf, TypeOK, Ended
  <2> QED
    BY <1>17, <2>2, <2>3, <2>4 DEF Crash, TypeOK
<1>18. CASE UNCHANGED vars
  BY <1>18 DEF vars, TypeOK, Called, JobOf
<1> QED
  BY <1>1, <1>2, <1>3, <1>4, <1>5, <1>6, <1>7, <1>8, <1>9, <1>10, <1>11,
     <1>12, <1>13, <1>14, <1>15, <1>16, <1>17, <1>18 DEF Next, RunStep

(***************************************************************************)
(* Every reachable state has the types the declarations promise.           *)
(***************************************************************************)
THEOREM TypeCorrect == Spec => []TypeOK
<1>1. Init => TypeOK /\ Called
  BY InitType
<1>2. (TypeOK /\ Called) /\ [Next]_vars => (TypeOK /\ Called)'
  BY TypeStep
<1> QED
  BY <1>1, <1>2, PTL DEF Spec

-----------------------------------------------------------------------------
(* One run of a job at a time.                                             *)
(*                                                                         *)
(* OneRunPerJob alone is not inductive: the exemption of run.ts:463 lets a *)
(* run begin while another of its job is in flight, and only the nesting   *)
(* of handlers shows that the other one is its parent, is waiting, and has *)
(* no second child.                                                        *)

Linked ==
    \A r \in Runs :
        /\ phase[r] \in {"new", "lookup", "handling"} => ~IsHandler(r)
        /\ phase[r] = "handling" => /\ handler[r] \in Runs
                                    /\ call[handler[r]].cause = r
                                    /\ phase[handler[r]] # "new"

Nesting == Linked /\ HandlersNested /\ OneRunPerJob

\* Most actions move one run from one phase to the next.
LEMMA MoveKeepsNesting ==
    ASSUME TypeOK, Nesting, NEW r \in Runs, NEW q \in Phases \ {"new", "handling"},
           phase[r] \notin Ended \cup {"new"},
           q = "lookup" => ~IsHandler(r),
           phase[r] = "handling" => phase[handler[r]] \in Ended /\ q \in Ended,
           q \in Ended \/ Tracked(r) \/ (q = "work" /\ ~Busy(r)),
           phase' = [phase EXCEPT ![r] = q],
           UNCHANGED <<call, handler>>
    PROVE  Nesting'
<1>1. /\ phase'[r] = q
      /\ \A s \in Runs \ {r} : phase'[s] = phase[s]
  BY DEF TypeOK
<1>2. \A s \in Runs : IsHandler(s)' = IsHandler(s) /\ JobOf(s)' = JobOf(s)
  BY DEF IsHandler, JobOf
<1>3. Linked'
  BY <1>1, <1>2 DEF Nesting, Linked
<1>4. HandlersNested'
  <2> SUFFICES ASSUME NEW h \in Runs, IsHandler(h)', phase'[h] \notin Ended
               PROVE  /\ phase'[call[h].cause] = "handling"
                      /\ handler[call[h].cause] = h
                      /\ ~IsHandler(call[h].cause)
    BY <1>2 DEF HandlersNested, IsHandler
  <2>1. IsHandler(h) /\ phase[h] \notin Ended
    BY <1>1, <1>2
  <2>2. /\ phase[call[h].cause] = "handling"
        /\ handler[call[h].cause] = h
        /\ ~IsHandler(call[h].cause)
    BY <2>1 DEF Nesting, HandlersNested
  <2>3. call[h].cause \in Runs
    BY <2>1 DEF IsHandler, TypeOK
  <2>4. call[h].cause # r
    BY <2>1, <2>2
  <2> QED
    BY <1>1, <2>2, <2>3, <2>4
<1>5. OneRunPerJob'
  <2> SUFFICES ASSUME NEW s \in Runs, NEW t \in Runs, s # t,
                      Tracked(s)', Tracked(t)', JobOf(s) = JobOf(t)
               PROVE  \/ handler[s] = t /\ phase'[s] = "handling"
                      \/ handler[t] = s /\ phase'[t] = "handling"
    BY <1>2 DEF OneRunPerJob
  <2>1. q \notin Ended => q \notin Ended /\ phase[r] # "handling"
    OBVIOUS
  <2>2. CASE Tracked(s) /\ Tracked(t)
    <3>1. \/ handler[s] = t /\ phase[s] = "handling"
          \/ handler[t] = s /\ phase[t] = "handling"
      BY <2>2 DEF Nesting, OneRunPerJob
    <3>2. \A u \in {s, t} : phase[u] = "handling" => phase'[u] = "handling"
      BY <1>1 DEF Tracked, Ended
    <3> QED
      BY <3>1, <3>2
  <2>3. ASSUME NEW o \in Runs, o # r, Tracked(o)', JobOf(o) = JobOf(r),
               Tracked(r)', ~Tracked(r)
        PROVE  handler[o] = r /\ phase'[o] = "handling"
    <3>1. Tracked(o) /\ ~Busy(r)
      BY <2>3, <1>1 DEF Tracked, Ended
    <3>2. IsOwnHandler(r)
      BY <2>3, <3>1 DEF Busy, IsRunning
    <3> DEFINE p == call[r].cause
    <3>3. /\ p \in Runs /\ phase[p] = "handling" /\ handler[p] = r
          /\ ~IsHandler(p) /\ JobOf(p) = JobOf(r)
      BY <3>2 DEF IsOwnHandler, IsHandler, Nesting, HandlersNested, TypeOK
    <3>4. ASSUME o # p PROVE FALSE
      <4>1. \/ handler[o] = p /\ phase[o] = "handling"
            \/ handler[p] = o /\ phase[p] = "handling"
        BY <3>1, <3>3, <3>4, <2>3 DEF Nesting, OneRunPerJob, Tracked
      <4>2. CASE handler[o] = p /\ phase[o] = "handling"
        <5>1. call[p].cause = o
          BY <4>2, <2>3 DEF Nesting, Linked
        <5> QED
          BY <5>1, <3>3, RunnerAssumption DEF IsHandler
      <4> QED
        BY <4>1, <4>2, <3>3, <2>3
    <3> QED
      BY <3>3, <3>4, <1>1, <2>3
  <2>4. CASE ~(Tracked(s) /\ Tracked(t))
    <3>1. CASE s = r
      <4>1. Tracked(t) /\ ~Tracked(r)
        BY <3>1, <2>4, <1>1 DEF Tracked
      <4> QED
        BY <2>3, <3>1, <4>1
    <3>2. CASE t = r
      <4>1. Tracked(s) /\ ~Tracked(r)
        BY <3>2, <2>4, <1>1 DEF Tracked
      <4> QED
        BY <2>3, <3>2, <4>1
    <3>3. CASE s # r /\ t # r
      BY <3>3, <2>4, <1>1 DEF Tracked
    <3> QED
      BY <3>1, <3>2, <3>3
  <2> QED
    BY <2>2, <2>4
<1> QED
  BY <1>3, <1>4, <1>5 DEF Nesting

\* A run that is called, by anyone, takes a fresh identity.
LEMMA EnterKeepsNesting ==
    ASSUME TypeOK, Nesting, NEW r \in Runs, NEW p \in Entered, phase[r] = "new",
           phase' = [phase EXCEPT ![r] = p],
           call'[r].cause = NoRun,
           \A s \in Runs \ {r} : call'[s] = call[s],
           UNCHANGED handler
    PROVE  Nesting'
<1>1. /\ phase'[r] = p /\ p \notin {"new", "lookup", "handling"}
      /\ \A s \in Runs \ {r} : phase'[s] = phase[s]
  BY DEF TypeOK, Entered
<1>2. ~IsHandler(r)' /\ ~Tracked(r)' /\ ~Tracked(r)
  BY <1>1 DEF IsHandler, Tracked, Entered
<1>3. \A s \in Runs \ {r} : /\ IsHandler(s)' = IsHandler(s)
                            /\ JobOf(s)' = JobOf(s)
                            /\ Tracked(s)' = Tracked(s)
  BY <1>1 DEF IsHandler, JobOf, Tracked
<1>4. Linked'
  <2> SUFFICES ASSUME NEW s \in Runs
               PROVE  /\ phase'[s] \in {"new", "lookup", "handling"} => ~IsHandler(s)'
                      /\ phase'[s] = "handling" => /\ handler[s] \in Runs
                                                   /\ call'[handler[s]].cause = s
                                                   /\ phase'[handler[s]] # "new"
    BY DEF Linked
  <2>1. CASE s = r
    BY <2>1, <1>1, <1>2
  <2>2. CASE s # r
    <3>1. phase[s] = "handling" => handler[s] # r
      BY DEF Nesting, Linked
    <3> QED
      BY <2>2, <3>1, <1>1, <1>3 DEF Nesting, Linked
  <2> QED
    BY <2>1, <2>2
<1>5. HandlersNested'
  <2> SUFFICES ASSUME NEW h \in Runs, IsHandler(h)', phase'[h] \notin Ended
               PROVE  /\ phase'[call'[h].cause] = "handling"
                      /\ handler[call'[h].cause] = h
                      /\ call'[call'[h].cause].cause = NoRun
    BY DEF HandlersNested, IsHandler
  <2>1. h # r /\ call'[h] = call[h] /\ IsHandler(h) /\ phase[h] \notin Ended
    BY <1>1, <1>2, <1>3
  <2>2. /\ phase[call[h].cause] = "handling"
        /\ handler[call[h].cause] = h
        /\ ~IsHandler(call[h].cause)
    BY <2>1 DEF Nesting, HandlersNested
  <2>3. call[h].cause \in Runs \ {r}
    BY <2>1, <2>2 DEF IsHandler, TypeOK
  <2> QED
    BY <1>1, <1>3, <2>1, <2>2, <2>3 DEF IsHandler
<1>6. OneRunPerJob'
  <2> SUFFICES ASSUME NEW s \in Runs, NEW t \in Runs, s # t,
                      Tracked(s)', Tracked(t)', JobOf(s)' = JobOf(t)'
               PROVE  \/ handler[s] = t /\ phase'[s] = "handling"
                      \/ handler[t] = s /\ phase'[t] = "handling"
    BY DEF OneRunPerJob
  <2>1. s # r /\ t # r
    BY <1>2
  <2> QED
    BY <1>1, <1>3, <2>1 DEF Nesting, OneRunPerJob
<1> QED
  BY <1>4, <1>5, <1>6 DEF Nesting

LEMMA CallHandlerKeepsNesting ==
    ASSUME TypeOK, Nesting, NEW r \in Runs, NEW h \in Runs, CallHandler(r, h)
    PROVE  Nesting'
<1>1. PICK p \in Entered : phase' = [phase EXCEPT ![r] = "handling", ![h] = p]
  BY DEF CallHandler
<1>2. PICK policy \in Policies[HandlerOf(r)] : Enter(h, HandlerOf(r), r, policy)
  BY DEF CallHandler
<1>3. phase[r] = "lookup" /\ phase[h] = "new" /\ r # h
  BY <1>2 DEF CallHandler, Enter
<1>4. /\ call'[h].cause = r
      /\ \A s \in Runs \ {h} : call'[s] = call[s]
  BY <1>2 DEF Enter, TypeOK
<1>5. /\ phase'[r] = "handling" /\ phase'[h] = p /\ handler'[r] = h
      /\ \A s \in Runs \ {r, h} : phase'[s] = phase[s]
      /\ \A s \in Runs \ {r} : handler'[s] = handler[s]
  BY <1>1, <1>3 DEF CallHandler, TypeOK
<1>6. p \in {"fresh", "rejected"}
  BY DEF Entered
<1>7. ~IsHandler(r) /\ ~IsHandler(h)
  BY <1>3 DEF Nesting, Linked
<1>8. \A s \in Runs \ {h} : /\ IsHandler(s)' = IsHandler(s)
                            /\ JobOf(s)' = JobOf(s)
                            /\ Tracked(s)' = Tracked(s)
  BY <1>3, <1>4, <1>5 DEF IsHandler, JobOf, Tracked
<1>9. ~Tracked(h)'
  BY <1>5, <1>6 DEF Tracked
<1>10. Linked'
  <2> SUFFICES ASSUME NEW s \in Runs
               PROVE  /\ phase'[s] \in {"new", "lookup", "handling"} => ~IsHandler(s)'
                      /\ phase'[s] = "handling" => /\ handler'[s] \in Runs
                                                   /\ call'[handler'[s]].cause = s
                                                   /\ phase'[handler'[s]] # "new"
    BY DEF Linked
  <2>1. CASE s = r
    BY <2>1, <1>3, <1>4, <1>5, <1>6, <1>7, <1>8
  <2>2. CASE s = h
    BY <2>2, <1>5, <1>6
  <2>3. CASE s # r /\ s # h
    <3>1. phase[s] = "handling" => handler[s] # h /\ handler[s] # r
      BY <1>3, <1>7, RunnerAssumption DEF Nesting, Linked, IsHandler
    <3> QED
      BY <2>3, <3>1, <1>4, <1>5, <1>8 DEF Nesting, Linked
  <2> QED
    BY <2>1, <2>2, <2>3
<1>11. HandlersNested'
  <2> SUFFICES ASSUME NEW g \in Runs, IsHandler(g)', phase'[g] \notin Ended
               PROVE  /\ phase'[call'[g].cause] = "handling"
                      /\ handler'[call'[g].cause] = g
                      /\ call'[call'[g].cause].cause = NoRun
    BY DEF HandlersNested, IsHandler
  <2>1. CASE g = h
    BY <2>1, <1>3, <1>4, <1>5, <1>7 DEF IsHandler
  <2>2. CASE g # h
    <3>1. g # r /\ call'[g] = call[g] /\ IsHandler(g) /\ phase[g] \notin Ended
      BY <2>2, <1>4, <1>5, <1>7, <1>8
    <3>2. /\ phase[call[g].cause] = "handling"
          /\ handler[call[g].cause] = g
          /\ ~IsHandler(call[g].cause)
      BY <3>1 DEF Nesting, HandlersNested
    <3>3. call[g].cause \in Runs \ {r, h}
      BY <3>1, <3>2, <1>3 DEF IsHandler, TypeOK
    <3> QED
      BY <1>4, <1>5, <3>1, <3>2, <3>3 DEF IsHandler
  <2> QED
    BY <2>1, <2>2
<1>12. OneRunPerJob'
  <2> SUFFICES ASSUME NEW s \in Runs, NEW t \in Runs, s # t,
                      Tracked(s)', Tracked(t)', JobOf(s)' = JobOf(t)'
               PROVE  \/ handler'[s] = t /\ phase'[s] = "handling"
                      \/ handler'[t] = s /\ phase'[t] = "handling"
    BY DEF OneRunPerJob
  <2>1. s # h /\ t # h
    BY <1>9
  <2>2. \/ handler[s] = t /\ phase[s] = "handling"
        \/ handler[t] = s /\ phase[t] = "handling"
    BY <2>1, <1>8 DEF Nesting, OneRunPerJob
  <2> QED
    BY <2>1, <2>2, <1>3, <1>5
<1> QED
  BY <1>10, <1>11, <1>12 DEF Nesting

LEMMA NestingStep ==
    ASSUME TypeOK, Nesting, [Next]_vars
    PROVE  Nesting'
<1>1. ASSUME NEW r \in Runs, Call(r) PROVE Nesting'
  <2>1. PICK j \in Jobs : \E policy \in Policies[j] : Enter(r, j, NoRun, policy)
    BY <1>1 DEF Call
  <2>2. PICK policy \in Policies[j] : Enter(r, j, NoRun, policy)
    BY <2>1
  <2>3. PICK p \in Entered : phase' = [phase EXCEPT ![r] = p]
    BY <1>1 DEF Call
  <2>4. /\ phase[r] = "new" /\ call'[r].cause = NoRun
        /\ \A s \in Runs \ {r} : call'[s] = call[s]
    BY <2>2 DEF Enter, TypeOK
  <2> QED
    BY <1>1, <2>3, <2>4, EnterKeepsNesting DEF Call
<1>2. ASSUME NEW r \in Runs, NEW h \in Runs, CallHandler(r, h) PROVE Nesting'
  BY <1>2, CallHandlerKeepsNesting
<1>3. ASSUME NEW r \in Runs, TokenDead(r) PROVE Nesting'
  <2>1. "rejected" \in Phases \ {"new", "handling"} /\ "rejected" \in Ended
    BY DEF Phases, Ended
  <2>2. phase[r] \notin Ended \cup {"new", "handling"}
    BY <1>3 DEF TokenDead, Ended
  <2> QED
    BY <1>3, <2>1, <2>2, MoveKeepsNesting DEF TokenDead
<1>4. ASSUME NEW r \in Runs, SkipBusy(r) PROVE Nesting'
  <2>1. "skipped" \in Phases \ {"new", "handling"} /\ "skipped" \in Ended
    BY DEF Phases, Ended
  <2>2. phase[r] \notin Ended \cup {"new", "handling"}
    BY <1>4 DEF SkipBusy, Ended
  <2> QED
    BY <1>4, <2>1, <2>2, MoveKeepsNesting DEF SkipBusy
<1>5. ASSUME NEW r \in Runs, Begin(r) \/ Retry(r) PROVE Nesting'
  <2>1. "work" \in Phases \ {"new", "handling"}
    BY DEF Phases
  <2>2. phase[r] \notin Ended \cup {"new", "handling"}
    BY <1>5 DEF Begin, Retry, Ended
  <2>3. Tracked(r) \/ ~Busy(r)
    BY <1>5 DEF Begin, Retry, Tracked
  <2> QED
    BY <1>5, <2>1, <2>2, <2>3, MoveKeepsNesting DEF Begin, Retry, StartAttempt
<1>6. ASSUME NEW r \in Runs, NEW q \in {"done", "grace", "backoff", "lookup"},
             q = "lookup" => ~IsHandler(r),
             phase[r] \in {"work", "grace", "lookup"},
             phase' = [phase EXCEPT ![r] = q],
             UNCHANGED <<call, handler>>
      PROVE  Nesting'
  <2>1. q \in Phases \ {"new", "handling"}
    BY DEF Phases
  <2>2. phase[r] \notin Ended \cup {"new", "handling"} /\ Tracked(r)
    BY <1>6 DEF Tracked, Ended
  <2> QED
    BY <1>6, <2>1, <2>2, MoveKeepsNesting
<1>7. ASSUME NEW r \in Runs, phase[r] \in {"work", "grace"}, Fail(r) PROVE Nesting'
  <2> DEFINE q == Handoff(r, call[r].policy.onFailure)
  <2>1. q \in {"done", "grace", "backoff", "lookup"} /\ (q = "lookup" => ~IsHandler(r))
    BY DEF Handoff
  <2>2. phase' = [phase EXCEPT ![r] = q] /\ UNCHANGED <<call, handler>>
    BY <1>7 DEF Fail
  <2> HIDE DEF q
  <2> QED
    BY <1>6, <1>7, <2>1, <2>2
<1>8. ASSUME NEW r \in Runs, NEW changed \in BOOLEAN, Resolve(r, changed)
      PROVE  Nesting'
  <2> DEFINE q == IF changed THEN Handoff(r, call[r].policy.onChange) ELSE "done"
  <2>1. q \in {"done", "grace", "backoff", "lookup"} /\ (q = "lookup" => ~IsHandler(r))
    BY DEF Handoff
  <2>2. /\ phase[r] = "work"
        /\ phase' = [phase EXCEPT ![r] = q] /\ UNCHANGED <<call, handler>>
    BY <1>8 DEF Resolve
  <2> HIDE DEF q
  <2> QED
    BY <1>6, <1>8, <2>1, <2>2
<1>9. ASSUME NEW r \in Runs, NEW permanent \in BOOLEAN, Reject(r, permanent)
      PROVE  Nesting'
  <2>1. CASE Fail(r)
    BY <1>9, <2>1, <1>7 DEF Reject
  <2>2. CASE Backoff(r)
    BY <1>9, <2>2, <1>6 DEF Reject, Backoff
  <2> QED
    BY <1>9, <2>1, <2>2 DEF Reject
<1>10. ASSUME NEW r \in Runs, Timeout(r) PROVE Nesting'
  <2>1. CASE MayRetry(r)
    BY <1>10, <2>1, <1>6 DEF Timeout
  <2>2. CASE ~MayRetry(r)
    BY <1>10, <2>2, <1>7 DEF Timeout
  <2> QED
    BY <2>1, <2>2
<1>11. ASSUME NEW r \in Runs, GraceSettles(r) \/ GraceExpires(r) PROVE Nesting'
  BY <1>11, <1>6, <1>7 DEF GraceSettles, GraceExpires, Backoff
<1>12. ASSUME NEW r \in Runs, HandlerMissing(r) PROVE Nesting'
  BY <1>12, <1>6 DEF HandlerMissing
<1>13. ASSUME NEW r \in Runs, HandlerReturns(r) PROVE Nesting'
  <2>1. "done" \in Phases \ {"new", "handling"} /\ "done" \in Ended
    BY DEF Phases, Ended
  <2>2. phase[r] \notin Ended \cup {"new"}
    BY <1>13 DEF HandlerReturns, Ended
  <2> QED
    BY <1>13, <2>1, <2>2, MoveKeepsNesting DEF HandlerReturns
<1>14. CASE Crash
  <2>1. \A s \in Runs : phase'[s] \in Ended \cup {"new"} /\ (phase'[s] = "new" => phase[s] = "new")
    BY <1>14 DEF Crash, Ended
  <2>2. \A s \in Runs : phase'[s] = "new" => ~IsHandler(s)'
    BY <1>14, <2>1 DEF Crash, Nesting, Linked, IsHandler
  <2>3. \A s \in Runs : ~Tracked(s)' /\ phase'[s] \notin {"lookup", "handling"}
    BY <2>1 DEF Tracked, Ended
  <2>4. Linked' /\ HandlersNested' /\ OneRunPerJob'
    BY <2>1, <2>2, <2>3 DEF Linked, HandlersNested, OneRunPerJob
  <2> QED
    BY <2>4 DEF Nesting
<1>15. ASSUME UNCHANGED <<phase, call, handler>> PROVE Nesting'
  BY <1>15 DEF Nesting, Linked, HandlersNested, OneRunPerJob, Tracked, IsHandler, JobOf
<1>16. ASSUME NEW r \in Runs, LateSettle(r) \/ \E id \in Ids : See(r, id) PROVE Nesting'
  BY <1>15, <1>16 DEF LateSettle, See
<1>17. ASSUME NEW j \in Jobs, Forget(j) PROVE Nesting'
  BY <1>15, <1>17 DEF Forget
<1>18. CASE FlipSwitch \/ UNCHANGED vars
  BY <1>15, <1>18 DEF FlipSwitch, vars
<1> QED
  BY <1>1, <1>2, <1>3, <1>4, <1>5, <1>8, <1>9, <1>10, <1>11, <1>12, <1>13,
     <1>14, <1>16, <1>17, <1>18 DEF Next, RunStep

LEMMA InitNesting == Init => Nesting
BY DEF Init, Nesting, Linked, HandlersNested, OneRunPerJob, IsHandler, Tracked, NoCall

(***************************************************************************)
(* Both are inductive only together, and with which call a run is waiting  *)
(* for: a job is free to be started when no run of it is tracked, and a    *)
(* handler is started by its caller, while the caller is tracked.          *)
(***************************************************************************)
LEMMA NestingHolds == Spec => []Nesting
<1>1. Init => TypeOK /\ Called /\ Nesting
  BY InitType, InitNesting
<1>2. (TypeOK /\ Called /\ Nesting) /\ [Next]_vars => (TypeOK /\ Called /\ Nesting)'
  BY TypeStep, NestingStep
<1> QED
  BY <1>1, <1>2, PTL DEF Spec

(***************************************************************************)
(* One run of a job at a time, of those that are tracked: for any          *)
(* catalogue, any policies and any number of runs.                         *)
(***************************************************************************)
THEOREM OneRunAtATime == Spec => []OneRunPerJob
<1>1. Nesting => OneRunPerJob
  BY DEF Nesting
<1> QED
  BY <1>1, NestingHolds, PTL

(***************************************************************************)
(* A handler runs only inside the run it answers, which is still in        *)
(* flight: dispatch awaits it before its own job is let go.                *)
(***************************************************************************)
THEOREM HandlersStayNested == Spec => []HandlersNested
<1>1. Nesting => HandlersNested
  BY DEF Nesting
<1> QED
  BY <1>1, NestingHolds, PTL

-----------------------------------------------------------------------------
(* Retries never overlap, and every run is recorded once.                  *)

\* Only the latest attempt of a run can be working, and only from the moment
\* it starts until its settling is noticed.
LiveInv ==
    \A w \in live : w = Work(w[1]) /\ phase[w[1]] \notin {"new", "fresh", "backoff"}

Bookkeeping == LiveInv /\ RecordedOnce

LEMMA StartAttemptBookkeeping ==
    ASSUME TypeOK, Bookkeeping, NEW r \in Runs, phase[r] \in {"fresh", "backoff"},
           StartAttempt(r)
    PROVE  Bookkeeping'
<1>1. /\ phase'[r] = "work" /\ attempt'[r].n = attempt[r].n + 1
      /\ \A s \in Runs \ {r} : phase'[s] = phase[s] /\ attempt'[s] = attempt[s]
      /\ live' = live \cup {<<r, attempt[r].n + 1>>}
      /\ recorded' = recorded
  BY DEF StartAttempt, TypeOK
<1>2. \A w \in live : w[1] \in Runs \ {r}
  BY DEF Bookkeeping, LiveInv, TypeOK
<1>3. LiveInv'
  BY <1>1, <1>2 DEF Bookkeeping, LiveInv, Work
<1>4. RecordedOnce'
  BY <1>1 DEF Bookkeeping, RecordedOnce
<1> QED
  BY <1>3, <1>4 DEF Bookkeeping

\* A run moves on without being recorded and without starting work.
LEMMA MoveBookkeeping ==
    ASSUME TypeOK, Bookkeeping, NEW r \in Runs,
           NEW q \in {"rejected", "grace", "backoff", "done"},
           q \in {"grace", "backoff", "rejected"} => recorded[r] = <<>>,
           q = "done" => Len(recorded[r]) = 1,
           phase' = [phase EXCEPT ![r] = q],
           live' \in {live, live \ {Work(r)}},
           q = "backoff" => live' = live \ {Work(r)},
           UNCHANGED <<attempt, recorded>>
    PROVE  Bookkeeping'
<1>1. phase'[r] = q /\ \A s \in Runs \ {r} : phase'[s] = phase[s]
  BY DEF TypeOK
<1>2. \A w \in live' : w \in live /\ w[1] \in Runs /\ (w[1] = r => q # "backoff")
  BY DEF Bookkeeping, LiveInv, TypeOK
<1>3. LiveInv'
  BY <1>1, <1>2 DEF Bookkeeping, LiveInv, Work
<1>4. RecordedOnce'
  BY <1>1 DEF Bookkeeping, RecordedOnce
<1> QED
  BY <1>3, <1>4 DEF Bookkeeping

\* A run's outcome is recorded, its first and only one.
LEMMA RecordBookkeeping ==
    ASSUME TypeOK, Bookkeeping, NEW r \in Runs,
           NEW o \in {"skipped", "completed", "failed"}, Record(r, o),
           NEW q \in {"done", "lookup", "skipped"},
           phase[r] \in {"fresh", "work", "grace"},
           phase' = [phase EXCEPT ![r] = q],
           live' \in {live, live \ {Work(r)}},
           UNCHANGED attempt
    PROVE  Bookkeeping'
<1>1. phase'[r] = q /\ \A s \in Runs \ {r} : phase'[s] = phase[s]
  BY DEF TypeOK
<1>2. recorded[r] = <<>>
  BY DEF Bookkeeping, RecordedOnce
<1>3. recorded'[r] = <<o>> /\ \A s \in Runs \ {r} : recorded'[s] = recorded[s]
  BY <1>2 DEF Record, TypeOK
<1>4. \A w \in live' : w \in live /\ w[1] \in Runs
  BY DEF TypeOK
<1>5. LiveInv'
  BY <1>1, <1>4 DEF Bookkeeping, LiveInv, Work
<1>6. Len(recorded'[r]) = 1
  BY <1>3
<1>7. RecordedOnce'
  BY <1>1, <1>3, <1>6 DEF Bookkeeping, RecordedOnce
<1> QED
  BY <1>5, <1>7 DEF Bookkeeping

LEMMA BookkeepingStep ==
    ASSUME TypeOK, Bookkeeping, [Next]_vars
    PROVE  Bookkeeping'
<1>1. ASSUME NEW r \in Runs, Call(r) PROVE Bookkeeping'
  <2>1. PICK p \in Entered : phase' = [phase EXCEPT ![r] = p]
    BY <1>1 DEF Call
  <2>2. phase[r] = "new"
    BY <1>1 DEF Call, Enter
  <2>3. p \in {"fresh", "rejected"}
    BY DEF Entered
  <2>4. phase'[r] = p /\ \A s \in Runs \ {r} : phase'[s] = phase[s]
    BY <2>1 DEF TypeOK
  <2>5. \A w \in live : w[1] \in Runs \ {r}
    BY <2>2 DEF Bookkeeping, LiveInv, TypeOK
  <2>6. LiveInv'
    BY <1>1, <2>4, <2>5 DEF Call, Bookkeeping, LiveInv, Work
  <2>7. RecordedOnce'
    BY <1>1, <2>2, <2>3, <2>4 DEF Call, Bookkeeping, RecordedOnce
  <2> QED
    BY <2>6, <2>7 DEF Bookkeeping
<1>2. ASSUME NEW r \in Runs, NEW h \in Runs, CallHandler(r, h) PROVE Bookkeeping'
  <2>1. PICK p \in Entered : phase' = [phase EXCEPT ![r] = "handling", ![h] = p]
    BY <1>2 DEF CallHandler
  <2>2. phase[r] = "lookup" /\ phase[h] = "new"
    BY <1>2 DEF CallHandler, Enter
  <2>3. p \in {"fresh", "rejected"}
    BY DEF Entered
  <2>4. /\ phase'[r] = "handling" /\ phase'[h] = p
        /\ \A s \in Runs \ {r, h} : phase'[s] = phase[s]
    BY <2>1, <2>2 DEF TypeOK
  <2>5. \A w \in live : w[1] \in Runs \ {h}
    BY <2>2 DEF Bookkeeping, LiveInv, TypeOK
  <2>6. LiveInv'
    BY <1>2, <2>4, <2>5 DEF CallHandler, Bookkeeping, LiveInv, Work
  <2>7. RecordedOnce'
    BY <1>2, <2>2, <2>3, <2>4 DEF CallHandler, Bookkeeping, RecordedOnce
  <2> QED
    BY <2>6, <2>7 DEF Bookkeeping
<1>3. ASSUME NEW r \in Runs, TokenDead(r) PROVE Bookkeeping'
  <2>1. recorded[r] = <<>>
    BY <1>3 DEF TokenDead, Bookkeeping, RecordedOnce
  <2> QED
    BY <1>3, <2>1, MoveBookkeeping DEF TokenDead
<1>4. ASSUME NEW r \in Runs, SkipBusy(r) PROVE Bookkeeping'
  BY <1>4, RecordBookkeeping DEF SkipBusy
<1>5. ASSUME NEW r \in Runs, Begin(r) \/ Retry(r) PROVE Bookkeeping'
  BY <1>5, StartAttemptBookkeeping DEF Begin, Retry
<1>6. ASSUME NEW r \in Runs, NEW id \in Ids, See(r, id) PROVE Bookkeeping'
  <2>1. \A s \in Runs : attempt'[s].n = attempt[s].n
    BY <1>6 DEF See, TypeOK
  <2>2. \A w \in live : w[1] \in Runs
    BY DEF TypeOK
  <2> QED
    BY <1>6, <2>1, <2>2 DEF See, Bookkeeping, LiveInv, RecordedOnce, Work
<1>7. ASSUME NEW r \in Runs, Fail(r), phase[r] \in {"work", "grace"},
             live' \in {live, live \ {Work(r)}}
      PROVE  Bookkeeping'
  <2> DEFINE q == Handoff(r, call[r].policy.onFailure)
  <2>1. q \in {"done", "lookup", "skipped"}
    BY DEF Handoff
  <2>2. Record(r, "failed") /\ phase' = [phase EXCEPT ![r] = q] /\ UNCHANGED attempt
    BY <1>7 DEF Fail
  <2> HIDE DEF q
  <2> QED
    BY <1>7, <2>1, <2>2, RecordBookkeeping
<1>8. ASSUME NEW r \in Runs, NEW changed \in BOOLEAN, Resolve(r, changed)
      PROVE  Bookkeeping'
  <2> DEFINE q == IF changed THEN Handoff(r, call[r].policy.onChange) ELSE "done"
  <2>1. q \in {"done", "lookup", "skipped"}
    BY DEF Handoff
  <2>2. /\ phase[r] = "work" /\ Record(r, "completed")
        /\ phase' = [phase EXCEPT ![r] = q] /\ UNCHANGED attempt
        /\ live' = live \ {Work(r)}
    BY <1>8 DEF Resolve
  <2> HIDE DEF q
  <2> QED
    BY <1>8, <2>1, <2>2, RecordBookkeeping
<1>9. ASSUME NEW r \in Runs, Backoff(r), phase[r] \in {"work", "grace"},
             live' = live \ {Work(r)}
      PROVE  Bookkeeping'
  <2>1. recorded[r] = <<>>
    BY <1>9 DEF Bookkeeping, RecordedOnce
  <2> QED
    BY <1>9, <2>1, MoveBookkeeping DEF Backoff
<1>10. ASSUME NEW r \in Runs, NEW permanent \in BOOLEAN, Reject(r, permanent)
      PROVE  Bookkeeping'
  BY <1>7, <1>9, <1>10 DEF Reject
<1>11. ASSUME NEW r \in Runs, Timeout(r) PROVE Bookkeeping'
  <2>1. CASE MayRetry(r)
    <3>1. recorded[r] = <<>>
      BY <1>11 DEF Timeout, Bookkeeping, RecordedOnce
    <3> QED
      BY <1>11, <2>1, <3>1, MoveBookkeeping DEF Timeout
  <2>2. CASE ~MayRetry(r)
    BY <1>7, <1>11, <2>2 DEF Timeout
  <2> QED
    BY <2>1, <2>2
<1>12. ASSUME NEW r \in Runs, GraceSettles(r) \/ GraceExpires(r) PROVE Bookkeeping'
  BY <1>7, <1>9, <1>12 DEF GraceSettles, GraceExpires
<1>13. ASSUME NEW r \in Runs, LateSettle(r) PROVE Bookkeeping'
  BY <1>13 DEF LateSettle, Bookkeeping, LiveInv, RecordedOnce, Work
<1>14. ASSUME NEW r \in Runs, HandlerMissing(r) \/ HandlerReturns(r) PROVE Bookkeeping'
  <2>1. Len(recorded[r]) = 1
    BY <1>14 DEF HandlerMissing, HandlerReturns, Bookkeeping, RecordedOnce
  <2> QED
    BY <1>14, <2>1, MoveBookkeeping DEF HandlerMissing, HandlerReturns
<1>15. CASE Crash
  <2>1. LiveInv'
    BY <1>15 DEF Crash, LiveInv
  <2>2. ASSUME NEW s \in Runs PROVE Len(recorded[s]) \in {0, 1}
    <3>1. phase[s] \in Phases
      BY DEF TypeOK
    <3>2. recorded[s] = <<>> => Len(recorded[s]) = 0
      OBVIOUS
    <3> QED
      BY <3>1, <3>2 DEF Phases, Bookkeeping, RecordedOnce
  <2>3. \A s \in Runs : recorded'[s] = recorded[s] /\ Len(recorded[s]) \in {0, 1}
    BY <1>15, <2>2 DEF Crash
  <2>4. \A s \in Runs : phase'[s] = phase[s] \/ phase'[s] = "lost"
    BY <1>15 DEF Crash
  <2>5. RecordedOnce'
    BY <2>3, <2>4 DEF Bookkeeping, RecordedOnce
  <2> QED
    BY <2>1, <2>5 DEF Bookkeeping
<1>16. ASSUME UNCHANGED <<phase, attempt, recorded, live>> PROVE Bookkeeping'
  BY <1>16 DEF Bookkeeping, LiveInv, RecordedOnce, Work
<1>17. ASSUME NEW j \in Jobs, Forget(j) PROVE Bookkeeping'
  BY <1>16, <1>17 DEF Forget
<1>18. CASE FlipSwitch \/ UNCHANGED vars
  BY <1>16, <1>18 DEF FlipSwitch, vars
<1> QED
  BY <1>1, <1>2, <1>3, <1>4, <1>5, <1>6, <1>8, <1>10, <1>11, <1>12, <1>13,
     <1>14, <1>15, <1>17, <1>18 DEF Next, RunStep

LEMMA InitBookkeeping == Init => Bookkeeping
BY DEF Init, Bookkeeping, LiveInv, RecordedOnce

(***************************************************************************)
(* No attempt starts while an earlier one of its run may still be working, *)
(* however many attempts a policy allows.                                  *)
(***************************************************************************)
THEOREM RetriesNeverOverlap == Spec => []RetryNeverOverlaps
<1>1. Init => TypeOK /\ Called /\ Bookkeeping
  BY InitType, InitBookkeeping
<1>2. (TypeOK /\ Called /\ Bookkeeping) /\ [Next]_vars
        => (TypeOK /\ Called /\ Bookkeeping)'
  BY TypeStep, BookkeepingStep
<1>3. Bookkeeping => RetryNeverOverlaps
  BY DEF Bookkeeping, LiveInv, RetryNeverOverlaps
<1> QED
  BY <1>1, <1>2, <1>3, PTL DEF Spec

(***************************************************************************)
(* Whatever way a run ends, it left one record if it got past its checks   *)
(* and none if it did not.                                                 *)
(***************************************************************************)
THEOREM EveryRunRecordedOnce == Spec => []RecordedOnce
<1>1. Init => TypeOK /\ Called /\ Bookkeeping
  BY InitType, InitBookkeeping
<1>2. (TypeOK /\ Called /\ Bookkeeping) /\ [Next]_vars
        => (TypeOK /\ Called /\ Bookkeeping)'
  BY TypeStep, BookkeepingStep
<1>3. Bookkeeping => RecordedOnce
  BY DEF Bookkeeping
<1> QED
  BY <1>1, <1>2, <1>3, PTL DEF Spec
=============================================================================
