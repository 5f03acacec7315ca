------------------------------ MODULE JobRunner ------------------------------
(***************************************************************************)
(* be/src/jobs/run.ts, "the only way a job runs", with the two registries  *)
(* it owns: be/src/running.ts (what is in flight) and be/src/jobs/state.ts *)
(* (what a job remembers).                                                 *)
(*                                                                         *)
(* The back end is one JavaScript thread, so the code between two awaits   *)
(* is one action here and everything may happen at an await.  A run is an  *)
(* element of Runs and passes through these phases:                        *)
(*                                                                         *)
(*   new --Call--> fresh --Begin--> work <-> backoff                       *)
(*                                  work --> grace --> backoff             *)
(*          work, grace --> done | lookup --> handling --> done            *)
(*                                                                         *)
(* "fresh" awaits oauth.ensureFresh, "work" races job.run(ctx) against the *)
(* deadline, "grace" waits ABORT_GRACE_MS for aborted work to settle,      *)
(* "lookup" awaits catalogue() and "handling" awaits the handler's own     *)
(* runJob.  "rejected" is a run refused before anything was recorded,      *)
(* "skipped" one refused because the job was busy, "lost" one that was in  *)
(* flight when the process died.  A promise cannot be cancelled: work that *)
(* lost its race stays in `live` until it settles, whatever its run does.  *)
(***************************************************************************)
EXTENDS Integers, Sequences, FiniteSets, Functions

CONSTANTS
    Jobs,           \* the catalogue (jobs/index.ts)
    Runs,           \* identities of calls of runJob, each used once (bound)
    Ids,            \* item ids a source hands out
    Typos,          \* handler ids that name no job
    NoJob,          \* onFailure / onChange undefined
    NoRun,          \* cause undefined: the run answers nobody
    Policies,       \* per job, what overrides.effective may hand a run
    EffectFree,     \* the jobs that declare Job.effectFree
    SeenCapacity,   \* state.ts seenCapacity()
    MaxBatch        \* bound: how many new ids one attempt asks about

HandlerIds == Jobs \cup Typos \cup {NoJob}

\* The overridable part of a job, read once when its run is called.
Policy == [onFailure : HandlerIds, onChange : HandlerIds, attempts : Nat]

ASSUME RunnerAssumption ==
    /\ NoJob \notin Jobs
    /\ NoRun \notin Runs
    /\ Typos \cap (Jobs \cup {NoJob}) = {}
    /\ EffectFree \subseteq Jobs
    /\ Policies \in [Jobs -> SUBSET Policy]
    /\ SeenCapacity \in Nat \ {0}
    /\ MaxBatch \in Nat \ {0}

VARIABLES
    dryRun,         \* dry-run.ts: nothing is armed
    phase,          \* where each run is
    call,           \* the job, the causing run and the policy of each run
    attempt,        \* number, ctx.dryRun and new ids of the current attempt
    staged,         \* the run's state handle: ids seen and not committed
    handler,        \* the nested run a run awaits
    recorded,       \* the entries history.ts received for each run
    live,           \* attempts whose job.run(ctx) has not settled
    store,          \* state.ts `store`: the ids each job remembers
    disk            \* job-state.json

vars == <<dryRun, phase, call, attempt, staged, handler, recorded, live,
          store, disk>>

Phases == {"new", "fresh", "work", "grace", "backoff", "lookup", "handling",
           "done", "rejected", "skipped", "lost"}
Ended == {"done", "rejected", "skipped", "lost"}

\* Inside track(): begin() was called and end() was not.
Tracked(r) == phase[r] \in {"work", "grace", "backoff", "lookup", "handling"}

\* The run's state handle may still be committed.
Open(r) == phase[r] \in {"work", "grace", "backoff"}

JobOf(r) == call[r].job
IsHandler(r) == call[r].cause # NoRun

IsRunning(j) == \E r \in Runs : Tracked(r) /\ JobOf(r) = j

\* Math.max(1, retry.attempts ?? 1)
MaxAttempts(r) ==
    IF call[r].policy.attempts = 0 THEN 1 ELSE call[r].policy.attempts

\* The attempt that is racing, or was abandoned last.
Work(r) == <<r, attempt[r].n>>

NoCall == [job |-> NoJob, cause |-> NoRun,
           policy |-> [onFailure |-> NoJob, onChange |-> NoJob, attempts |-> 0]]
NoAttempt == [n |-> 0, dry |-> TRUE, batch |-> {}]

Forgotten == [j \in Jobs |-> <<>>]

Init ==
    /\ dryRun \in BOOLEAN
    /\ phase = [r \in Runs |-> "new"]
    /\ call = [r \in Runs |-> NoCall]
    /\ attempt = [r \in Runs |-> NoAttempt]
    /\ staged = [r \in Runs |-> <<>>]
    /\ handler = [r \in Runs |-> NoRun]
    /\ recorded = [r \in Runs |-> <<>>]
    /\ live = {}
    /\ store = Forgotten
    /\ disk = Forgotten

-----------------------------------------------------------------------------
(* Calling, and the checks before the run exists.                          *)

\* runJob up to its first await: input or credentials are refused at once,
\* with nothing recorded, or the token check begins.
Entered == {"fresh", "rejected"}

Enter(r, j, cause, policy) ==
    /\ phase[r] = "new"
    /\ call' = [call EXCEPT ![r] = [job |-> j, cause |-> cause, policy |-> policy]]

\* A run of its own that may yet ask for a handler run.
Hopeful(r) ==
    /\ phase[r] \in {"fresh", "work", "grace", "backoff", "lookup"}
    /\ ~IsHandler(r)
    /\ {call[r].policy.onFailure, call[r].policy.onChange} \cap Jobs # {}

\* Bound: enough unused identities are left for the handler runs that those
\* in flight may need, so that running out of them never blocks a run.
RoomForHandlers ==
    Cardinality({r \in Runs : phase[r] = "new"})
        >= Cardinality({r \in Runs : Hopeful(r)})

\* Any door: the API, the scheduler, a webhook, the mail watcher.
Call(r) ==
    /\ \E j \in Jobs : \E policy \in Policies[j] : Enter(r, j, NoRun, policy)
    /\ \E p \in Entered : phase' = [phase EXCEPT ![r] = p]
    /\ UNCHANGED <<dryRun, attempt, staged, handler, recorded, live, store, disk>>
    /\ RoomForHandlers'

\* oauth.ensureFresh throws: the token is dead.  Nothing is recorded.
TokenDead(r) ==
    /\ phase[r] = "fresh"
    /\ phase' = [phase EXCEPT ![r] = "rejected"]
    /\ UNCHANGED <<dryRun, call, attempt, staged, handler, recorded, live,
                   store, disk>>

Record(r, outcome) == recorded' = [recorded EXCEPT ![r] = Append(@, outcome)]

\* The one exemption from one-run-at-a-time: the job is its own handler.
IsOwnHandler(r) == IsHandler(r) /\ JobOf(call[r].cause) = JobOf(r)

\* Faulty: every handler run is exempt, not only a job handling itself.
BusyExemptsHandlers(r) == ~IsHandler(r) /\ IsRunning(JobOf(r))
\* Faulty: the registry is not asked.
BusyUnchecked(r) == FALSE

Busy(r) == ~IsOwnHandler(r) /\ IsRunning(JobOf(r))

\* Faulty: a refused run leaves no trace in the history.
SkipSilently(r) ==
    /\ phase[r] = "fresh"
    /\ Busy(r)
    /\ phase' = [phase EXCEPT ![r] = "skipped"]
    /\ UNCHANGED <<dryRun, call, attempt, staged, handler, recorded, live, store, disk>>

SkipBusy(r) ==
    /\ phase[r] = "fresh"
    /\ Busy(r)
    /\ phase' = [phase EXCEPT ![r] = "skipped"]
    /\ Record(r, "skipped")
    /\ UNCHANGED <<dryRun, call, attempt, staged, handler, live, store, disk>>

\* Faulty: the handle is not rolled back, an attempt inherits staged ids.
StartWithoutRollback(r) ==
    /\ attempt' = [attempt EXCEPT
          ![r] = [n |-> attempt[r].n + 1, dry |-> dryRun, batch |-> {}]]
    /\ live' = live \cup {<<r, attempt[r].n + 1>>}
    /\ phase' = [phase EXCEPT ![r] = "work"]
    /\ UNCHANGED <<dryRun, call, staged, handler, recorded, store, disk>>

\* attempt(): roll the handle back, read the switch, start the work.
StartAttempt(r) ==
    /\ attempt' = [attempt EXCEPT
          ![r] = [n |-> attempt[r].n + 1, dry |-> dryRun, batch |-> {}]]
    /\ staged' = [staged EXCEPT ![r] = <<>>]
    /\ live' = live \cup {<<r, attempt[r].n + 1>>}
    /\ phase' = [phase EXCEPT ![r] = "work"]
    /\ UNCHANGED <<dryRun, call, handler, recorded, store, disk>>

Begin(r) ==
    /\ phase[r] = "fresh"
    /\ ~Busy(r)
    /\ StartAttempt(r)

-----------------------------------------------------------------------------
(* The work of an attempt.                                                 *)

\* ctx.state.seen(id) answers "new" and the job handles the item.  Work whose
\* run has moved on still holds the handle and may still ask.
See(r, id) ==
    /\ Work(r) \in live
    /\ Len(staged[r]) < MaxBatch
    /\ id \notin Range(store[JobOf(r)]) \cup Range(staged[r])
    /\ staged' = [staged EXCEPT ![r] = Append(@, id)]
    /\ attempt' = [attempt EXCEPT ![r].batch = @ \cup {id}]
    /\ UNCHANGED <<dryRun, phase, call, handler, recorded, live, store, disk>>

\* Faulty: a handler run hands on as well (more than one hop).
HandoffAnyHop(r, h) == IF h = NoJob THEN "done" ELSE "lookup"

\* Where a run goes once its record is written, h being the handler named
\* for that outcome: a handler run starts no handler of its own.
Handoff(r, h) == IF h = NoJob \/ IsHandler(r) THEN "done" ELSE "lookup"

\* Faulty: the window is cut one too long.
OneTooMany(s) == IF Len(s) <= SeenCapacity THEN s ELSE SubSeq(s, Len(s) - SeenCapacity, Len(s))

Newest(s) ==
    IF Len(s) <= SeenCapacity THEN s
    ELSE SubSeq(s, Len(s) - SeenCapacity + 1, Len(s))

\* save() replaces the file or fails with a warning.
Save == disk' \in {store', disk}

\* Faulty: the list of ids is pushed as one element.
CommitWithoutSpread(r) ==
    IF staged[r] = <<>> THEN UNCHANGED <<staged, store, disk>>
    ELSE /\ store' = [store EXCEPT ![JobOf(r)] = Newest(Append(@, staged[r]))]
         /\ staged' = [staged EXCEPT ![r] = <<>>]
         /\ Save

\* StateHandle.commit(): nothing staged, nothing written.
Commit(r) ==
    IF staged[r] = <<>> THEN UNCHANGED <<staged, store, disk>>
    ELSE /\ store' = [store EXCEPT ![JobOf(r)] = Newest(@ \o staged[r])]
         /\ staged' = [staged EXCEPT ![r] = <<>>]
         /\ Save

\* The switch is read again here, after the attempt that ran under it.
Withheld(r) == dryRun /\ JobOf(r) \notin EffectFree

Resolve(r, changed) ==
    /\ phase[r] = "work"
    /\ live' = live \ {Work(r)}
    /\ IF Withheld(r) THEN UNCHANGED <<staged, store, disk>> ELSE Commit(r)
    /\ Record(r, "completed")
    /\ phase' = [phase EXCEPT ![r] =
          IF changed THEN Handoff(r, call[r].policy.onChange) ELSE "done"]
    /\ UNCHANGED <<dryRun, call, attempt, handler>>

Fail(r) ==
    /\ Record(r, "failed")
    /\ phase' = [phase EXCEPT ![r] = Handoff(r, call[r].policy.onFailure)]
    /\ UNCHANGED <<dryRun, call, attempt, staged, handler, store, disk>>

Backoff(r) ==
    /\ phase' = [phase EXCEPT ![r] = "backoff"]
    /\ UNCHANGED <<dryRun, call, attempt, staged, handler, recorded, store, disk>>

MayRetry(r) == attempt[r].n < MaxAttempts(r)

Reject(r, permanent) ==
    /\ phase[r] = "work"
    /\ live' = live \ {Work(r)}
    /\ IF MayRetry(r) /\ ~permanent THEN Backoff(r) ELSE Fail(r)

\* Faulty: the deadline leads straight to the retry, without the grace.
TimeoutWithoutGrace(r) ==
    /\ phase[r] = "work"
    /\ IF MayRetry(r) THEN Backoff(r) ELSE Fail(r)
    /\ UNCHANGED live

\* The deadline fires.  Only an attempt with another to protect is given
\* ABORT_GRACE_MS; the last one is abandoned as it is.
Timeout(r) ==
    /\ phase[r] = "work"
    /\ IF MayRetry(r)
       THEN /\ phase' = [phase EXCEPT ![r] = "grace"]
            /\ UNCHANGED <<dryRun, call, attempt, staged, handler, recorded,
                           store, disk>>
       ELSE Fail(r)
    /\ UNCHANGED live

\* The aborted work settles within the grace, either way: retry.
GraceSettles(r) ==
    /\ phase[r] = "grace"
    /\ live' = live \ {Work(r)}
    /\ Backoff(r)

\* It does not: UnretryableError, the attempts left are abandoned.
GraceExpires(r) ==
    /\ phase[r] = "grace"
    /\ Fail(r)
    /\ UNCHANGED live

Retry(r) ==
    /\ phase[r] = "backoff"
    /\ StartAttempt(r)

\* Abandoned work settles at last; nobody is listening.
LateSettle(r) ==
    /\ Work(r) \in live
    /\ phase[r] \notin {"work", "grace"}
    /\ live' = live \ {Work(r)}
    /\ UNCHANGED <<dryRun, phase, call, attempt, staged, handler, recorded,
                   store, disk>>

-----------------------------------------------------------------------------
(* runFailureHandler and runChangeHandler.                                 *)

\* The id named for what the run has just recorded.
HandlerOf(r) ==
    IF recorded[r] = <<"failed">> THEN call[r].policy.onFailure
    ELSE call[r].policy.onChange

\* A typo in the id: warned about, and the run is over.
HandlerMissing(r) ==
    /\ phase[r] = "lookup"
    /\ HandlerOf(r) \notin Jobs
    /\ phase' = [phase EXCEPT ![r] = "done"]
    /\ UNCHANGED <<dryRun, call, attempt, staged, handler, recorded, live,
                   store, disk>>

\* await runJob(handler, ..., this run's record)
CallHandler(r, h) ==
    /\ phase[r] = "lookup"
    /\ HandlerOf(r) \in Jobs
    /\ \E policy \in Policies[HandlerOf(r)] : Enter(h, HandlerOf(r), r, policy)
    /\ \E p \in Entered :
          phase' = [phase EXCEPT ![r] = "handling", ![h] = p]
    /\ handler' = [handler EXCEPT ![r] = h]
    /\ UNCHANGED <<dryRun, attempt, staged, recorded, live, store, disk>>

\* Faulty: the run waits for a handler run that went well.
HandlerReturnsIfDone(r) ==
    /\ phase[r] = "handling"
    /\ phase[handler[r]] = "done"
    /\ phase' = [phase EXCEPT ![r] = "done"]
    /\ UNCHANGED <<dryRun, call, attempt, staged, handler, recorded, live,
                   store, disk>>

\* The handler's run is over, however it went: its error is swallowed.
HandlerReturns(r) ==
    /\ phase[r] = "handling"
    /\ phase[handler[r]] \in Ended
    /\ phase' = [phase EXCEPT ![r] = "done"]
    /\ UNCHANGED <<dryRun, call, attempt, staged, handler, recorded, live,
                   store, disk>>

-----------------------------------------------------------------------------
(* What happens around the runs.                                           *)

\* dry-run.ts setDryRun, from PUT /api/settings.
FlipSwitch ==
    /\ dryRun' = ~dryRun
    /\ UNCHANGED <<phase, call, attempt, staged, handler, recorded, live,
                   store, disk>>

\* Faulty: a job's memory is reset under a run in flight.
ForgetAnytime(j) ==
    /\ store[j] # <<>>
    /\ store' = [store EXCEPT ![j] = <<>>]
    /\ Save
    /\ UNCHANGED <<dryRun, phase, call, attempt, staged, handler, recorded, live>>

\* Faulty: a reset that reaches the file and not the memory.
ForgetFileOnly(j) ==
    /\ ~IsRunning(j)
    /\ disk[j] # <<>>
    /\ disk' = [disk EXCEPT ![j] = <<>>]
    /\ UNCHANGED <<dryRun, phase, call, attempt, staged, handler, recorded,
                   live, store>>

\* DELETE /api/jobs/:id/state, refused while the job is in flight.
Forget(j) ==
    /\ ~IsRunning(j)
    /\ store[j] # <<>>
    /\ store' = [store EXCEPT ![j] = <<>>]
    /\ Save
    /\ UNCHANGED <<dryRun, phase, call, attempt, staged, handler, recorded, live>>

\* The process dies and starts again: every run and all abandoned work are
\* gone, load() reads the file.  A death inside save() leaves a file that
\* does not parse, which load() takes for a first run.
Crash ==
    /\ \E r \in Runs : phase[r] \notin Ended \cup {"new"} \/ Work(r) \in live
    /\ phase' = [r \in Runs |-> IF phase[r] \in Ended \cup {"new"}
                                THEN phase[r] ELSE "lost"]
    /\ live' = {}
    /\ store' \in IF \E r \in Runs : phase[r] = "work" /\ staged[r] # <<>>
                  THEN {disk, Forgotten} ELSE {disk}
    /\ disk' = store'
    /\ UNCHANGED <<dryRun, call, attempt, staged, handler, recorded>>

RunStep(r) ==
    \/ Call(r) \/ TokenDead(r) \/ SkipBusy(r) \/ Begin(r)
    \/ \E id \in Ids : See(r, id)
    \/ \E changed \in BOOLEAN : Resolve(r, changed)
    \/ \E permanent \in BOOLEAN : Reject(r, permanent)
    \/ Timeout(r) \/ GraceSettles(r) \/ GraceExpires(r) \/ Retry(r)
    \/ LateSettle(r)
    \/ HandlerMissing(r) \/ HandlerReturns(r)
    \/ \E h \in Runs : CallHandler(r, h)

Next ==
    \/ \E r \in Runs : RunStep(r)
    \/ \E j \in Jobs : Forget(j)
    \/ FlipSwitch
    \/ Crash

\* Timers fire (the deadline, the grace, the backoff, the request timeout of
\* the token check) and the event loop gets to every resumed await.  Nothing
\* is assumed of the jobs: their work need never settle.
RunFairness(r) ==
    /\ WF_vars(TokenDead(r) \/ SkipBusy(r) \/ Begin(r))
    /\ WF_vars(Timeout(r))
    /\ WF_vars(GraceExpires(r))
    /\ WF_vars(Retry(r))
    /\ WF_vars(HandlerMissing(r) \/ \E h \in Runs : CallHandler(r, h))
    /\ WF_vars(HandlerReturns(r))

Spec == Init /\ [][Next]_vars

FairSpec == Spec /\ \A r \in Runs : RunFairness(r)

-----------------------------------------------------------------------------
(* Properties.                                                             *)

\* Every variable stays in its set: what the runner keeps of a call, an
\* attempt, the window and the file.
TypeOK ==
    /\ dryRun \in BOOLEAN
    /\ phase \in [Runs -> Phases]
    /\ call \in [Runs -> [job : Jobs \cup {NoJob}, cause : Runs \cup {NoRun},
                          policy : Policy]]
    /\ attempt \in [Runs -> [n : Nat, dry : BOOLEAN, batch : SUBSET Ids]]
    /\ staged \in [Runs -> Seq(Ids)]
    /\ handler \in [Runs -> Runs \cup {NoRun}]
    /\ recorded \in [Runs -> Seq({"skipped", "completed", "failed"})]
    /\ live \in SUBSET (Runs \X Nat)
    /\ store \in [Jobs -> Seq(Ids)]
    /\ disk \in [Jobs -> Seq(Ids)]

(***************************************************************************)
(* run.ts:442, "one run of a job at a time": two runs of one job are in    *)
(* flight together only when one answers the other, and then the one       *)
(* answered is only waiting.  The check at run.ts:464 happens after an     *)
(* await and the registration after the check.                             *)
(***************************************************************************)
OneRunPerJob ==
    \A r, s \in Runs :
        r # s /\ Tracked(r) /\ Tracked(s) /\ JobOf(r) = JobOf(s)
            => \/ handler[r] = s /\ phase[r] = "handling"
               \/ handler[s] = r /\ phase[s] = "handling"

(***************************************************************************)
(* run.ts:785: a run stays in flight until its handler is done, so whoever *)
(* waits for the runner to be idle waits for the notification too; and the *)
(* nesting stops there (run.ts:164, one hop).                              *)
(***************************************************************************)
HandlersNested ==
    \A h \in Runs :
        IsHandler(h) /\ phase[h] \notin Ended
            => /\ phase[call[h].cause] = "handling"
               /\ handler[call[h].cause] = h
               /\ ~IsHandler(call[h].cause)

(***************************************************************************)
(* run.ts:189-202: an attempt is started only when no earlier attempt of   *)
(* the same run can still be working, so a retry never puts two copies of  *)
(* a job on the same files.                                                *)
(***************************************************************************)
RetryNeverOverlaps ==
    \A w \in live : w = Work(w[1]) /\ phase[w[1]] # "backoff"

(***************************************************************************)
(* Every run that got past its checks is in the history exactly once when  *)
(* it is over, one refused earlier not at all, and a handler is started    *)
(* only after the record it is handed was written (run.ts:777, 851).       *)
(***************************************************************************)
RecordedOnce ==
    \A r \in Runs :
        /\ phase[r] \in {"new", "fresh", "rejected", "work", "grace", "backoff"}
              => recorded[r] = <<>>
        /\ phase[r] \in {"lookup", "handling", "done", "skipped"}
              => Len(recorded[r]) = 1
        /\ phase[r] = "lost" => Len(recorded[r]) \in {0, 1}

(***************************************************************************)
(* state.ts:27, "a cursor moves only when the run finishes": an id enters  *)
(* a job's memory only in the step that completes a run of that job, and   *)
(* only if the attempt that returned is the one that saw it - never an     *)
(* attempt that failed, and never work that was abandoned.                 *)
(***************************************************************************)
CursorMovesOnlyWithItsRun ==
    [][\A j \in Jobs : \A id \in Range(store'[j]) \ Range(store[j]) :
          \/ id \in Range(disk[j])
          \/ \E r \in Runs :
                /\ JobOf(r) = j
                /\ recorded'[r] = <<"completed">> /\ recorded[r] = <<>>
                /\ id \in attempt[r].batch]_vars

(***************************************************************************)
(* state.ts:356 and 529: what a run decides, it decides against memory     *)
(* that holds still.  While a run can still commit, nobody else - another  *)
(* run, abandoned work, a reset - changes what its job remembers.          *)
(***************************************************************************)
MemoryHoldsStill ==
    [][\A r \in Runs :
          Open(r) /\ phase'[r] \in {"work", "grace", "backoff"}
              => store'[JobOf(r)] = store[JobOf(r)]]_vars

\* Per job, the window of remembered ids has no duplicate and fits.
NoDuplicateIds ==
    \A j \in Jobs : \A w \in {store[j], disk[j]} :
        IsInjective(w) /\ Len(w) <= SeenCapacity

(***************************************************************************)
(* All of the above seen from outside: whatever the runs do, what a job    *)
(* remembers evolves as CursorStore says.                                  *)
(***************************************************************************)
Cursors == INSTANCE CursorStore
ImplementsCursorStore == Cursors!StoreSpec

(***************************************************************************)
(* run.ts:17-22: whatever the jobs do, every run that was called is over   *)
(* in the end, so the job's next slot and a queued restart do not wait     *)
(* for ever.                                                               *)
(***************************************************************************)
EveryRunEnds == \A r \in Runs : phase[r] # "new" ~> phase[r] \in Ended

(***************************************************************************)
(* state.ts:39 and 59: a dry run commits nothing, "a cursor advanced       *)
(* during a rehearsal has silently consumed the items it was meant only to *)
(* report on"; dry-run.ts:16: arming never takes effect on a job already   *)
(* running under the value it began with.  The code reads the switch again *)
(* when the attempt has returned (run.ts:707), so this does not hold.      *)
(***************************************************************************)
RehearsalConsumesNothing ==
    [][\A r \in Runs :
          recorded'[r] # recorded[r] /\ attempt[r].dry
            /\ JobOf(r) \notin EffectFree
          => store'[JobOf(r)] = store[JobOf(r)]]_vars
=============================================================================
