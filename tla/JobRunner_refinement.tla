------------------------- MODULE JobRunner_refinement -------------------------
(***************************************************************************)
(* What a job remembers, proved: its window never holds an id twice, an id *)
(* enters it only with the run that saw it, it holds still while a run can *)
(* commit, and it evolves as CursorStore says.  All of it rests on one run *)
(* of a job at a time.                                                     *)
(***************************************************************************)
EXTENDS JobRunner_proofs, SequenceTheorems

-----------------------------------------------------------------------------
(* Lists of ids.                                                           *)

LEMMA AppendFacts ==
    ASSUME NEW s \in Seq(Ids), NEW id \in Ids
    PROVE  /\ Append(s, id) \in Seq(Ids)
           /\ Len(Append(s, id)) = Len(s) + 1
           /\ Range(Append(s, id)) = Range(s) \cup {id}
           /\ IsInjective(s) /\ id \notin Range(s) => IsInjective(Append(s, id))
<1> DEFINE t == Append(s, id)
<1>1. /\ t \in Seq(Ids) /\ Len(t) = Len(s) + 1
      /\ DOMAIN s = 1..Len(s) /\ DOMAIN t = 1..Len(s) + 1 /\ Len(s) \in Nat
      /\ \A i \in 1..Len(s) : t[i] = s[i]
      /\ t[Len(s) + 1] = id
  OBVIOUS
<1> HIDE DEF t
<1>2. Range(t) = Range(s) \cup {id}
  BY <1>1 DEF Range
<1>3. IsInjective(s) /\ id \notin Range(s) => IsInjective(t)
  BY <1>1 DEF IsInjective, Range
<1> QED
  BY <1>1, <1>2, <1>3 DEF t

LEMMA ConcatFacts ==
    ASSUME NEW s \in Seq(Ids), NEW t \in Seq(Ids),
           IsInjective(s), IsInjective(t), Range(s) \cap Range(t) = {}
    PROVE  /\ s \o t \in Seq(Ids)
           /\ IsInjective(s \o t)
           /\ Range(s \o t) = Range(s) \cup Range(t)
<1> DEFINE u == s \o t
           m == Len(s)
           n == Len(t)
<1>1. /\ u \in Seq(Ids) /\ m \in Nat /\ n \in Nat
      /\ DOMAIN s = 1..m /\ DOMAIN t = 1..n /\ DOMAIN u = 1..(m + n)
      /\ \A i \in 1..(m + n) : u[i] = IF i <= m THEN s[i] ELSE t[i - m]
  BY ConcatProperties
<1> HIDE DEF u, m, n
<1>2. \A i \in 1..(m + n) :
         \/ i \in 1..m /\ u[i] = s[i]
         \/ i - m \in 1..n /\ u[i] = t[i - m]
  BY <1>1
<1>3. \A i \in 1..m : s[i] \in Range(s)
  BY <1>1 DEF Range
<1>4. \A i \in 1..n : t[i] \in Range(t)
  BY <1>1 DEF Range
<1>5. ASSUME NEW i \in 1..(m + n), NEW k \in 1..(m + n), u[i] = u[k] PROVE i = k
  <2>1. CASE i \in 1..m /\ u[i] = s[i] /\ k \in 1..m /\ u[k] = s[k]
    BY <1>1, <1>5, <2>1 DEF IsInjective
  <2>2. CASE i - m \in 1..n /\ u[i] = t[i - m] /\ k - m \in 1..n /\ u[k] = t[k - m]
    <3>1. i - m = k - m
      BY <1>1, <1>5, <2>2 DEF IsInjective
    <3> QED
      BY <1>1, <3>1
  <2>3. CASE i \in 1..m /\ u[i] = s[i] /\ k - m \in 1..n /\ u[k] = t[k - m]
    BY <1>3, <1>4, <1>5, <2>3
  <2>4. CASE i - m \in 1..n /\ u[i] = t[i - m] /\ k \in 1..m /\ u[k] = s[k]
    BY <1>3, <1>4, <1>5, <2>4
  <2> QED
    BY <1>2, <2>1, <2>2, <2>3, <2>4
<1>6. Range(u) \subseteq Range(s) \cup Range(t)
  <2>1. \A i \in 1..(m + n) : u[i] \in Range(s) \cup Range(t)
    BY <1>2, <1>3, <1>4
  <2> QED
    BY <1>1, <2>1 DEF Range
<1>7. Range(s) \subseteq Range(u)
  <2>1. \A i \in 1..m : i \in 1..(m + n) /\ u[i] = s[i]
    BY <1>1
  <2> QED
    BY <1>1, <2>1 DEF Range
<1>8. Range(t) \subseteq Range(u)
  <2>1. \A i \in 1..n : m + i \in 1..(m + n) /\ ~(m + i <= m) /\ (m + i) - m = i
    BY <1>1
  <2>2. \A i \in 1..n : m + i \in 1..(m + n) /\ u[m + i] = t[i]
    BY <1>1, <2>1
  <2> QED
    BY <1>1, <2>2 DEF Range
<1> QED
  BY <1>1, <1>5, <1>6, <1>7, <1>8 DEF IsInjective, u

LEMMA NewestFacts ==
    ASSUME NEW s \in Seq(Ids), IsInjective(s)
    PROVE  /\ IsInjective(Newest(s))
           /\ Len(Newest(s)) <= SeenCapacity
           /\ Range(Newest(s)) \subseteq Range(s)
<1>1. CASE Len(s) <= SeenCapacity
  BY <1>1 DEF Newest
<1>2. CASE ~(Len(s) <= SeenCapacity)
  <2> DEFINE k == Len(s) - SeenCapacity
             w == SubSeq(s, k + 1, Len(s))
  <2>1. /\ SeenCapacity \in Nat /\ Len(s) \in Nat /\ k \in Nat
        /\ Len(s) = k + SeenCapacity /\ DOMAIN s = 1..Len(s)
    BY <1>2, RunnerAssumption
  <2>2. /\ Len(w) = SeenCapacity /\ DOMAIN w = 1..SeenCapacity
        /\ \A i \in 1..SeenCapacity : w[i] = s[k + i]
    <3>1. \A i \in k + 1 .. Len(s) : s[i] \in Ids
      BY <2>1
    <3>2. /\ Len(s) - (k + 1) + 1 = SeenCapacity /\ k + 1 <= Len(s)
          /\ \A i \in 1..SeenCapacity : k + 1 + i - 1 = k + i
      BY <2>1, RunnerAssumption
    <3>3. /\ w \in Seq(Ids) /\ Len(w) = SeenCapacity
          /\ \A i \in 1..SeenCapacity : w[i] = s[k + 1 + i - 1]
      BY <2>1, <3>1, <3>2, SubSeqProperties
    <3> QED
      BY <3>2, <3>3
  <2>3. Newest(s) = w
    BY <1>2 DEF Newest
  <2> HIDE DEF k, w
  <2>4. \A i \in 1..SeenCapacity : k + i \in 1..Len(s)
    BY <2>1
  <2>5. IsInjective(w)
    <3> SUFFICES ASSUME NEW i \in 1..SeenCapacity, NEW l \in 1..SeenCapacity, w[i] = w[l]
                 PROVE  i = l
      BY <2>2 DEF IsInjective
    <3>1. s[k + i] = s[k + l]
      BY <2>2
    <3>2. k + i = k + l
      BY <2>1, <2>4, <3>1 DEF IsInjective
    <3> QED
      BY <2>1, <3>2
  <2>6. Range(w) \subseteq Range(s)
    BY <2>1, <2>2, <2>4 DEF Range
  <2> QED
    BY <2>1, <2>2, <2>3, <2>5, <2>6
<1> QED
  BY <1>1, <1>2

LEMMA EmptyFacts == /\ IsInjective(<<>>) /\ Range(<<>>) = {} /\ Len(<<>>) = 0
BY DEF IsInjective, Range

-----------------------------------------------------------------------------
(* The invariant.                                                          *)

\* A handle that may still be committed holds ids its attempt saw, each once,
\* and none that the job remembers.
Handles ==
    \A r \in Runs :
        /\ Len(staged[r]) <= MaxBatch
        /\ Open(r) => /\ IsInjective(staged[r])
                      /\ Range(staged[r]) \cap Range(store[JobOf(r)]) = {}
                      /\ Range(staged[r]) \subseteq attempt[r].batch

Memory == Handles /\ NoDuplicateIds

Inv == TypeOK /\ Called /\ Nesting /\ Memory

\* Two runs of one job cannot both be able to commit.
LEMMA OneOpenHandle ==
    ASSUME Nesting, NEW r \in Runs, NEW s \in Runs, r # s, Open(r), Open(s)
    PROVE  JobOf(r) # JobOf(s)
BY DEF Nesting, OneRunPerJob, Tracked, Open

LEMMA CommitFacts ==
    ASSUME Inv, NEW r \in Runs, Open(r), staged[r] # <<>>, Commit(r)
    PROVE  /\ NoDuplicateIds'
           /\ Range(store'[JobOf(r)]) \subseteq Range(store[JobOf(r)]) \cup Range(staged[r])
<1> DEFINE j == JobOf(r)
           w == store[j] \o staged[r]
<1>1. /\ j \in Jobs /\ store[j] \in Seq(Ids) /\ staged[r] \in Seq(Ids)
  BY DEF Inv, Called, TypeOK, Open
<1>2. /\ IsInjective(store[j]) /\ IsInjective(staged[r])
      /\ Range(store[j]) \cap Range(staged[r]) = {}
  BY <1>1 DEF Inv, Memory, Handles, NoDuplicateIds
<1>3. w \in Seq(Ids) /\ IsInjective(w) /\ Range(w) = Range(store[j]) \cup Range(staged[r])
  BY <1>1, <1>2, ConcatFacts
<1>4. /\ IsInjective(Newest(w)) /\ Len(Newest(w)) <= SeenCapacity
      /\ Range(Newest(w)) \subseteq Range(w)
  BY <1>3, NewestFacts
<1>5. store' = [store EXCEPT ![j] = Newest(w)] /\ disk' \in {store', disk}
  BY DEF Commit, Save
<1> HIDE DEF w
<1>6. store'[j] = Newest(w) /\ \A k \in Jobs \ {j} : store'[k] = store[k]
  BY <1>1, <1>5 DEF Inv, TypeOK
<1>7. \A k \in Jobs : IsInjective(store'[k]) /\ Len(store'[k]) <= SeenCapacity
  BY <1>4, <1>6 DEF Inv, Memory, NoDuplicateIds
<1>8. NoDuplicateIds'
  BY <1>5, <1>7 DEF Inv, Memory, NoDuplicateIds
<1> QED
  BY <1>3, <1>4, <1>6, <1>8

-----------------------------------------------------------------------------
(* Every step keeps it.                                                    *)

\* Steps that touch neither the handles nor the memory, and open no handle.
LEMMA StillMemory ==
    ASSUME Inv, UNCHANGED <<staged, store, disk>>,
           \A r \in Runs : Open(r)' => /\ Open(r) /\ JobOf(r)' = JobOf(r)
                                       /\ attempt'[r] = attempt[r]
    PROVE  Memory'
<1>1. NoDuplicateIds'
  BY DEF Inv, Memory, NoDuplicateIds
<1>2. Handles'
  BY DEF Inv, Memory, Handles
<1> QED
  BY <1>1, <1>2 DEF Memory

LEMMA StartAttemptMemory ==
    ASSUME Inv, NEW r \in Runs, StartAttempt(r)
    PROVE  Memory'
<1>1. /\ staged'[r] = <<>> /\ \A s \in Runs \ {r} : staged'[s] = staged[s]
      /\ \A s \in Runs \ {r} : attempt'[s] = attempt[s] /\ phase'[s] = phase[s]
      /\ UNCHANGED <<call, store, disk>>
  BY DEF StartAttempt, Inv, TypeOK
<1>2. 0 <= MaxBatch
  BY RunnerAssumption
<1>3. Handles'
  BY <1>1, <1>2, EmptyFacts DEF Inv, Memory, Handles, Open, JobOf
<1>4. NoDuplicateIds'
  BY <1>1 DEF Inv, Memory, NoDuplicateIds
<1> QED
  BY <1>3, <1>4 DEF Memory

LEMMA SeeMemory ==
    ASSUME Inv, NEW r \in Runs, NEW id \in Ids, See(r, id)
    PROVE  Memory'
<1>1. /\ staged'[r] = Append(staged[r], id)
      /\ attempt'[r].batch = attempt[r].batch \cup {id}
      /\ \A s \in Runs \ {r} : staged'[s] = staged[s] /\ attempt'[s] = attempt[s]
      /\ UNCHANGED <<phase, call, store, disk>>
      /\ id \notin Range(store[JobOf(r)]) /\ id \notin Range(staged[r])
      /\ Len(staged[r]) < MaxBatch
  BY DEF See, Inv, TypeOK
<1>2. staged[r] \in Seq(Ids) /\ MaxBatch \in Nat /\ Len(staged[r]) \in Nat
  BY RunnerAssumption DEF Inv, TypeOK
<1>3. /\ Len(staged'[r]) = Len(staged[r]) + 1
      /\ Range(staged'[r]) = Range(staged[r]) \cup {id}
      /\ IsInjective(staged[r]) => IsInjective(staged'[r])
  BY <1>1, <1>2, AppendFacts
<1>4. Len(staged'[r]) <= MaxBatch
  BY <1>1, <1>2, <1>3
<1>5. \A s \in Runs : Open(s)' = Open(s) /\ JobOf(s)' = JobOf(s)
  BY <1>1 DEF Open, JobOf
<1>6. Handles'
  <2> SUFFICES ASSUME NEW s \in Runs
               PROVE  /\ Len(staged'[s]) <= MaxBatch
                      /\ Open(s) => /\ IsInjective(staged'[s])
                                    /\ Range(staged'[s]) \cap Range(store[JobOf(s)]) = {}
                                    /\ Range(staged'[s]) \subseteq attempt'[s].batch
    BY <1>1, <1>5 DEF Handles
  <2>1. CASE s = r
    BY <2>1, <1>1, <1>3, <1>4 DEF Inv, Memory, Handles
  <2>2. CASE s # r
    BY <2>2, <1>1 DEF Inv, Memory, Handles
  <2> QED
    BY <2>1, <2>2
<1>7. NoDuplicateIds'
  BY <1>1 DEF Inv, Memory, NoDuplicateIds
<1> QED
  BY <1>6, <1>7 DEF Memory

LEMMA ResolveMemory ==
    ASSUME Inv, NEW r \in Runs, NEW changed \in BOOLEAN, Resolve(r, changed)
    PROVE  Memory'
<1>1. /\ phase[r] = "work" /\ Open(r)
      /\ UNCHANGED <<call, attempt>>
      /\ \A s \in Runs \ {r} : phase'[s] = phase[s]
      /\ phase'[r] \in {"done", "lookup"}
  BY DEF Resolve, Inv, TypeOK, Handoff, Open
<1>2. \A s \in Runs : Open(s)' => s # r /\ Open(s) /\ JobOf(s)' = JobOf(s)
                                /\ attempt'[s] = attempt[s]
  BY <1>1 DEF Open, JobOf
<1>3. CASE Withheld(r) \/ staged[r] = <<>>
  BY <1>2, <1>3, StillMemory DEF Resolve, Commit
<1>4. CASE ~Withheld(r) /\ staged[r] # <<>>
  <2>1. Commit(r)
    BY <1>4 DEF Resolve
  <2>2. NoDuplicateIds'
    BY <1>1, <1>4, <2>1, CommitFacts
  <2>3. /\ \A j \in Jobs \ {JobOf(r)} : store'[j] = store[j]
        /\ staged'[r] = <<>> /\ \A s \in Runs \ {r} : staged'[s] = staged[s]
    BY <1>4, <2>1 DEF Commit, Inv, TypeOK
  <2>4. \A s \in Runs : Open(s)' => JobOf(s) \in Jobs \ {JobOf(r)}
    BY <1>1, <1>2, OneOpenHandle DEF Inv, Called, Open
  <2>5. 0 <= MaxBatch
    BY RunnerAssumption
  <2>6. ASSUME NEW s \in Runs
        PROVE  /\ Len(staged'[s]) <= MaxBatch
               /\ Open(s)' => /\ IsInjective(staged'[s])
                              /\ Range(staged'[s]) \cap Range(store'[JobOf(s)']) = {}
                              /\ Range(staged'[s]) \subseteq attempt'[s].batch
    <3>1. CASE s = r
      BY <3>1, <1>2, <2>3, <2>5, EmptyFacts
    <3>2. CASE s # r
      BY <3>2, <1>2, <2>3, <2>4 DEF Inv, Memory, Handles
    <3> QED
      BY <3>1, <3>2
  <2> QED
    BY <2>2, <2>6 DEF Memory, Handles
<1> QED
  BY <1>3, <1>4

LEMMA ForgetMemory ==
    ASSUME Inv, NEW j \in Jobs, Forget(j)
    PROVE  Memory'
<1>1. /\ store'[j] = <<>> /\ \A k \in Jobs \ {j} : store'[k] = store[k]
      /\ disk' \in {store', disk}
      /\ UNCHANGED <<phase, call, staged, attempt>>
      /\ ~IsRunning(j)
  BY DEF Forget, Save, Inv, TypeOK
<1>2. 0 <= SeenCapacity
  BY RunnerAssumption
<1>3. \A k \in Jobs : IsInjective(store'[k]) /\ Len(store'[k]) <= SeenCapacity
  BY <1>1, <1>2, EmptyFacts DEF Inv, Memory, NoDuplicateIds
<1>4. NoDuplicateIds'
  BY <1>1, <1>3 DEF Inv, Memory, NoDuplicateIds
<1>5. \A s \in Runs : Open(s) => JobOf(s) \in Jobs \ {j}
  BY <1>1 DEF IsRunning, Tracked, Open, Inv, Called
<1>6. Handles'
  BY <1>1, <1>5 DEF Inv, Memory, Handles, Open, JobOf
<1> QED
  BY <1>4, <1>6 DEF Memory

LEMMA CrashMemory ==
    ASSUME Inv, Crash
    PROVE  Memory'
<1>1. /\ store' \in {disk, Forgotten} /\ disk' = store'
      /\ UNCHANGED <<call, staged, attempt>>
      /\ \A s \in Runs : ~Open(s)'
  BY DEF Crash, Open, Ended
<1>2. 0 <= SeenCapacity
  BY RunnerAssumption
<1>3. \A k \in Jobs : IsInjective(store'[k]) /\ Len(store'[k]) <= SeenCapacity
  BY <1>1, <1>2, EmptyFacts DEF Inv, Memory, NoDuplicateIds, Forgotten
<1>4. NoDuplicateIds'
  BY <1>1, <1>3 DEF NoDuplicateIds
<1>5. Handles'
  BY <1>1 DEF Inv, Memory, Handles
<1> QED
  BY <1>4, <1>5 DEF Memory

LEMMA MemoryStep ==
    ASSUME Inv, [Next]_vars
    PROVE  Memory'
<1>1. ASSUME NEW r \in Runs, Call(r) PROVE Memory'
  <2>1. PICK p \in Entered : phase' = [phase EXCEPT ![r] = p]
    BY <1>1 DEF Call
  <2>2. /\ phase'[r] \in {"fresh", "rejected"}
        /\ \A s \in Runs \ {r} : phase'[s] = phase[s] /\ call'[s] = call[s]
    BY <1>1, <2>1 DEF Call, Enter, Entered, Inv, TypeOK
  <2>3. \A s \in Runs : Open(s)' => Open(s) /\ JobOf(s)' = JobOf(s)
    BY <2>2 DEF Open, JobOf
  <2> QED
    BY <1>1, <2>3, StillMemory DEF Call
<1>2. ASSUME NEW r \in Runs, NEW h \in Runs, CallHandler(r, h) PROVE Memory'
  <2>1. PICK p \in Entered : phase' = [phase EXCEPT ![r] = "handling", ![h] = p]
    BY <1>2 DEF CallHandler
  <2>2. /\ phase'[h] \in {"fresh", "rejected"} /\ (r # h => phase'[r] = "handling")
        /\ \A s \in Runs \ {r, h} : phase'[s] = phase[s] /\ call'[s] = call[s]
    BY <1>2, <2>1 DEF CallHandler, Enter, Entered, Inv, TypeOK
  <2>3. \A s \in Runs : Open(s)' => Open(s) /\ JobOf(s)' = JobOf(s)
    BY <2>2 DEF Open, JobOf
  <2> QED
    BY <1>2, <2>3, StillMemory DEF CallHandler
<1>3. ASSUME NEW r \in Runs, NEW q \in Phases,
             phase' = [phase EXCEPT ![r] = q],
             q \in {"work", "grace", "backoff"} => Open(r),
             UNCHANGED <<call, attempt, staged, store, disk>>
      PROVE  Memory'
  <2>1. phase'[r] = q /\ \A s \in Runs \ {r} : phase'[s] = phase[s]
    BY <1>3 DEF Inv, TypeOK
  <2>2. \A s \in Runs : Open(s)' => Open(s) /\ JobOf(s)' = JobOf(s)
    BY <1>3, <2>1 DEF Open, JobOf
  <2> QED
    BY <1>3, <2>2, StillMemory
<1>4. ASSUME NEW r \in Runs, Fail(r) PROVE Memory'
  <2> DEFINE q == Handoff(r, call[r].policy.onFailure)
  <2>1. q \in Phases /\ q \notin {"work", "grace", "backoff"}
    BY DEF Handoff, Phases
  <2>2. phase' = [phase EXCEPT ![r] = q] /\ UNCHANGED <<call, attempt, staged, store, disk>>
    BY <1>4 DEF Fail
  <2> HIDE DEF q
  <2> QED
    BY <1>3, <1>4, <2>1, <2>2
<1>5. ASSUME NEW r \in Runs, Backoff(r), phase[r] \in {"work", "grace"} PROVE Memory'
  BY <1>3, <1>5 DEF Backoff, Phases, Open
<1>6. ASSUME NEW r \in Runs, TokenDead(r) \/ SkipBusy(r) PROVE Memory'
  BY <1>3, <1>6 DEF TokenDead, SkipBusy, Phases
<1>7. ASSUME NEW r \in Runs, HandlerMissing(r) \/ HandlerReturns(r) PROVE Memory'
  BY <1>3, <1>7 DEF HandlerMissing, HandlerReturns, Phases
<1>8. ASSUME NEW r \in Runs, Begin(r) \/ Retry(r) PROVE Memory'
  BY <1>8, StartAttemptMemory DEF Begin, Retry
<1>9. ASSUME NEW r \in Runs, NEW permanent \in BOOLEAN, Reject(r, permanent) PROVE Memory'
  BY <1>4, <1>5, <1>9 DEF Reject
<1>10. ASSUME NEW r \in Runs, Timeout(r) PROVE Memory'
  <2>1. CASE MayRetry(r)
    BY <1>3, <1>10, <2>1 DEF Timeout, Phases, Open
  <2>2. CASE ~MayRetry(r)
    BY <1>4, <1>10, <2>2 DEF Timeout
  <2> QED
    BY <2>1, <2>2
<1>11. ASSUME NEW r \in Runs, GraceSettles(r) \/ GraceExpires(r) PROVE Memory'
  BY <1>4, <1>5, <1>11 DEF GraceSettles, GraceExpires
<1>12. ASSUME UNCHANGED <<phase, call, attempt, staged, store, disk>> PROVE Memory'
  BY <1>12, StillMemory DEF Open, JobOf
<1>13. ASSUME NEW r \in Runs, LateSettle(r) PROVE Memory'
  BY <1>12, <1>13 DEF LateSettle
<1>14. CASE FlipSwitch \/ UNCHANGED vars
  BY <1>12, <1>14 DEF FlipSwitch, vars
<1> QED
  BY <1>1, <1>2, <1>6, <1>7, <1>8, <1>9, <1>10, <1>11, <1>13, <1>14,
     SeeMemory, ResolveMemory, ForgetMemory, CrashMemory DEF Next, RunStep

LEMMA InitMemory == Init => Memory
<1>1. 0 <= MaxBatch /\ 0 <= SeenCapacity
  BY RunnerAssumption
<1> QED
  BY <1>1, EmptyFacts DEF Init, Memory, Handles, NoDuplicateIds, Forgotten, Open

LEMMA InitInv == Init => Inv
BY InitType, InitNesting, InitMemory DEF Inv

LEMMA InvStep == Inv /\ [Next]_vars => Inv'
BY TypeStep, NestingStep, MemoryStep DEF Inv

-----------------------------------------------------------------------------
(* What follows.                                                           *)

(***************************************************************************)
(* However runs, retries, resets and crashes interleave, no window of any  *)
(* job ever holds an id twice or outgrows its capacity.                    *)
(***************************************************************************)
THEOREM WindowsHaveNoDuplicates == Spec => []NoDuplicateIds
<1>1. Inv => NoDuplicateIds
  BY DEF Inv, Memory
<1> QED
  BY <1>1, InitInv, InvStep, PTL DEF Spec

\* The steps that change what jobs remember: a commit, a reset, a crash.
LEMMA StoreSteps ==
    ASSUME [Next]_vars
    PROVE  \/ UNCHANGED <<store, disk>>
           \/ \E r \in Runs : \E changed \in BOOLEAN :
                 Resolve(r, changed) /\ Commit(r) /\ staged[r] # <<>>
           \/ \E j \in Jobs : Forget(j)
           \/ Crash
<1>1. ASSUME NEW r \in Runs, RunStep(r),
             ~\E changed \in BOOLEAN : Resolve(r, changed)
      PROVE  UNCHANGED <<store, disk>>
  <2>1. CASE Begin(r) \/ Retry(r)
    BY <2>1 DEF Begin, Retry, StartAttempt
  <2>2. CASE \/ Timeout(r) \/ GraceSettles(r) \/ GraceExpires(r)
             \/ \E permanent \in BOOLEAN : Reject(r, permanent)
    BY <2>2 DEF Timeout, GraceSettles, GraceExpires, Reject, Backoff, Fail
  <2>3. CASE \/ Call(r) \/ TokenDead(r) \/ SkipBusy(r) \/ LateSettle(r)
             \/ HandlerMissing(r) \/ HandlerReturns(r)
             \/ (\E h \in Runs : CallHandler(r, h)) \/ \E id \in Ids : See(r, id)
    BY <2>3 DEF Call, TokenDead, SkipBusy, LateSettle, HandlerMissing,
                HandlerReturns, CallHandler, See
  <2> QED
    BY <1>1, <2>1, <2>2, <2>3 DEF RunStep
<1>2. ASSUME NEW r \in Runs, NEW changed \in BOOLEAN, Resolve(r, changed)
      PROVE  UNCHANGED <<store, disk>> \/ (Commit(r) /\ staged[r] # <<>>)
  BY <1>2 DEF Resolve, Commit
<1>3. CASE FlipSwitch \/ UNCHANGED vars
  BY <1>3 DEF FlipSwitch, vars
<1> QED
  BY <1>1, <1>2, <1>3 DEF Next

(***************************************************************************)
(* While a run can still commit, nobody but itself changes what its job    *)
(* remembers.                                                              *)
(***************************************************************************)
THEOREM MemoryIsHeldStill == Spec => MemoryHoldsStill
<1> DEFINE Still == \A r \in Runs :
             Open(r) /\ phase'[r] \in {"work", "grace", "backoff"}
                 => store'[JobOf(r)] = store[JobOf(r)]
<1>1. ASSUME Inv, [Next]_vars, NEW r \in Runs,
             Open(r), phase'[r] \in {"work", "grace", "backoff"}
      PROVE  store'[JobOf(r)] = store[JobOf(r)]
  <2>0. JobOf(r) \in Jobs
    BY <1>1 DEF Inv, Called, Open
  <2>1. ASSUME NEW s \in Runs, NEW changed \in BOOLEAN,
               Resolve(s, changed), Commit(s), staged[s] # <<>>
        PROVE  store'[JobOf(r)] = store[JobOf(r)]
    <3>1. Open(s) /\ phase'[s] \in {"done", "lookup"}
      BY <1>1, <2>1 DEF Resolve, Handoff, Open, Inv, TypeOK
    <3>2. JobOf(s) # JobOf(r)
      BY <1>1, <3>1, OneOpenHandle DEF Inv
    <3> QED
      BY <1>1, <2>0, <2>1, <3>2 DEF Commit, Inv, TypeOK
  <2>2. ASSUME NEW j \in Jobs, Forget(j) PROVE store'[JobOf(r)] = store[JobOf(r)]
    <3>1. JobOf(r) # j
      BY <1>1, <2>2 DEF Forget, IsRunning, Tracked, Open
    <3> QED
      BY <1>1, <2>0, <2>2, <3>1 DEF Forget, Inv, TypeOK
  <2>3. CASE Crash
    BY <1>1, <2>3 DEF Crash, Ended
  <2> QED
    BY <1>1, <2>1, <2>2, <2>3, StoreSteps
<1>2. Inv /\ [Next]_vars => [Still]_vars
  BY <1>1
<1> QED
  BY <1>2, InitInv, InvStep, PTL DEF Spec, MemoryHoldsStill

(***************************************************************************)
(* An id enters a job's memory only from its file, or in the step that     *)
(* completes a run of that job, seen by the attempt that returned.         *)
(***************************************************************************)
THEOREM CursorsMoveWithTheirRun == Spec => CursorMovesOnlyWithItsRun
<1> DEFINE Moves == \A j \in Jobs : \A id \in Range(store'[j]) \ Range(store[j]) :
          \/ id \in Range(disk[j])
          \/ \E r \in Runs :
                /\ JobOf(r) = j
                /\ recorded'[r] = <<"completed">> /\ recorded[r] = <<>>
                /\ id \in attempt[r].batch
<1>1. ASSUME Inv, Bookkeeping, [Next]_vars, NEW j \in Jobs,
             NEW id \in Range(store'[j]) \ Range(store[j])
      PROVE  \/ id \in Range(disk[j])
             \/ \E r \in Runs :
                   /\ JobOf(r) = j
                   /\ recorded'[r] = <<"completed">> /\ recorded[r] = <<>>
                   /\ id \in attempt[r].batch
  <2>1. ASSUME NEW r \in Runs, NEW changed \in BOOLEAN,
               Resolve(r, changed), Commit(r), staged[r] # <<>>
        PROVE  /\ JobOf(r) = j
               /\ recorded'[r] = <<"completed">> /\ recorded[r] = <<>>
               /\ id \in attempt[r].batch
    <3>1. Open(r) /\ phase[r] = "work"
      BY <2>1 DEF Resolve, Open
    <3>2. JobOf(r) = j
      BY <1>1, <2>1 DEF Commit, Inv, TypeOK
    <3>3. recorded[r] = <<>>
      BY <1>1, <3>1 DEF Bookkeeping, RecordedOnce
    <3>4. recorded'[r] = <<"completed">>
      BY <1>1, <2>1, <3>3 DEF Resolve, Record, Inv, TypeOK
    <3>5. id \in Range(staged[r])
      BY <1>1, <2>1, <3>1, <3>2, CommitFacts
    <3>6. Range(staged[r]) \subseteq attempt[r].batch
      BY <1>1, <3>1 DEF Inv, Memory, Handles
    <3> QED
      BY <3>2, <3>3, <3>4, <3>5, <3>6
  <2>2. ASSUME NEW k \in Jobs, Forget(k) PROVE FALSE
    BY <1>1, <2>2, EmptyFacts DEF Forget, Inv, TypeOK
  <2>3. CASE Crash
    BY <1>1, <2>3, EmptyFacts DEF Crash, Forgotten
  <2> QED
    BY <1>1, <2>1, <2>2, <2>3, StoreSteps
<1>2. Inv /\ Bookkeeping /\ [Next]_vars => [Moves]_vars
  BY <1>1
<1>3. Inv /\ Bookkeeping /\ [Next]_vars => Bookkeeping'
  BY BookkeepingStep DEF Inv
<1> QED
  BY <1>2, <1>3, InitInv, InvStep, InitBookkeeping, PTL DEF Spec, CursorMovesOnlyWithItsRun

(***************************************************************************)
(* The runner implements the store: each step is a batch of new ids, a     *)
(* reset, a reload, or invisible.                                          *)
(***************************************************************************)
THEOREM RunnerImplementsCursorStore == Spec => ImplementsCursorStore
<1>1. Init => Cursors!StoreInit
  BY DEF Init, Cursors!StoreInit, Forgotten, Cursors!Forgotten
<1>2. ASSUME Inv, [Next]_vars PROVE [Cursors!StoreNext]_(Cursors!storeVars)
  <2>1. ASSUME NEW r \in Runs, NEW changed \in BOOLEAN,
               Resolve(r, changed), Commit(r), staged[r] # <<>>
        PROVE  Cursors!StoreNext
    <3> DEFINE j == JobOf(r)
    <3>1. Open(r) /\ j \in Jobs
      BY <1>2, <2>1 DEF Resolve, Open, Inv, Called
    <3>2. /\ IsInjective(staged[r])
          /\ Range(staged[r]) \cap Range(store[j]) = {}
          /\ Len(staged[r]) <= MaxBatch
      BY <1>2, <3>1 DEF Inv, Memory, Handles
    <3>3. staged[r] \in Seq(Ids)
      BY <1>2 DEF Inv, TypeOK
    <3>4. /\ Len(staged[r]) \in 1..MaxBatch
          /\ staged[r] \in [1..Len(staged[r]) -> Ids]
      <4>1. Len(staged[r]) \in Nat /\ Len(staged[r]) # 0 /\ MaxBatch \in Nat
        BY <2>1, <3>3, EmptySeq, RunnerAssumption
      <4> QED
        BY <3>2, <3>3, <4>1
    <3>5. /\ store' = [store EXCEPT ![j] = Cursors!Newest(@ \o staged[r])]
          /\ Cursors!Save
      <4>1. Newest(store[j] \o staged[r]) = Cursors!Newest(store[j] \o staged[r])
        BY DEF Newest, Cursors!Newest
      <4>2. store' = [store EXCEPT ![j] = Newest(store[j] \o staged[r])] /\ Save
        BY <2>1 DEF Commit
      <4>3. Cursors!Save
        BY <4>2 DEF Save, Cursors!Save
      <4> QED
        BY <4>1, <4>2, <4>3
    <3>6. Cursors!Remember(j)
      <4>1. staged[r] \in Cursors!Batch(Len(staged[r]))
        BY <3>4 DEF Cursors!Batch
      <4>2. Cursors!Add(j, staged[r])
        BY <3>2, <3>5 DEF Cursors!Add, IsInjective, Cursors!IsInjective, Range, Cursors!Range
      <4> QED
        BY <3>4, <3>5, <4>1, <4>2 DEF Cursors!Remember
    <3> QED
      BY <3>1, <3>6 DEF Cursors!StoreNext
  <2>2. ASSUME NEW j \in Jobs, Forget(j) PROVE Cursors!StoreNext
    BY <2>2 DEF Forget, Save, Cursors!StoreNext, Cursors!Forget, Cursors!Save
  <2>3. CASE Crash
    BY <2>3 DEF Crash, Forgotten, Cursors!StoreNext, Cursors!Reload, Cursors!Forgotten
  <2>4. CASE UNCHANGED <<store, disk>>
    BY <2>4 DEF Cursors!storeVars
  <2> QED
    BY <1>2, <2>1, <2>2, <2>3, <2>4, StoreSteps
<1> QED
  BY <1>1, <1>2, InitInv, InvStep, PTL
  DEF Spec, ImplementsCursorStore, Cursors!StoreSpec
=============================================================================
