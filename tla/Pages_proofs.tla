---------------------------- MODULE Pages_proofs ----------------------------
(***************************************************************************)
(* The pages and what is behind them, each page by its own specification:  *)
(*   - Config -> Jobs: the timetable follows the overrides, and a page at  *)
(*     rest shows what the store holds;                                    *)
(*   - the run log: a delete keeps to the filter it was confirmed for;     *)
(*   - webhooks: a save changes what was typed in its form;                *)
(*   - the list of watched pages: at rest it is what is stored.            *)
(* Every theorem is for any catalogue of jobs, controls, ids, settings and *)
(* stores, and for any bound on the actions.                               *)
(***************************************************************************)
EXTENDS JobConfigPage, RunLogPage, WebhooksPage, ListPages, SequenceTheorems, TLAPS

(* Job Config.  The timetable's property is inductive once it is known     *)
(* that there is an override for every job, in memory and on disk: a save  *)
(* whose schedule is the one before it moves no timetable, and needs to    *)
(* move none.                                                              *)

\* From any settings the rows may begin with.
AnyInit == \E initial \in SUBSET Globals : JobsInit(initial)
JobsSpec == AnyInit /\ [][JobsNext]_jobsVars

IsPerJob(os) == os = [j \in Jobs |-> os[j]]
Inv == IsPerJob(overrides) /\ IsPerJob(ondisk) /\ SchedulerFollows

-----------------------------------------------------------------------------
\* What the schedule of a job is depends on nothing else of its override.
LEMMA ScheduleOfOverride ==
  ASSUME NEW j \in Jobs, NEW o, NEW p, o.schedule = p.schedule
  PROVE  effective(j, o).schedule = effective(j, p).schedule
  BY JobsAssumption DEF effective

\* Another override with the same schedule leaves the timetable as it is.
LEMMA SameTimetable ==
  ASSUME NEW os, IsPerJob(os), NEW j, NEW o, os[j].schedule = o.schedule
  PROVE  schedules([os EXCEPT ![j] = o]) = schedules(os)
  <1> DEFINE next == [os EXCEPT ![j] = o]
  <1>1. ASSUME NEW k \in Jobs PROVE effective(k, next[k]).schedule = effective(k, os[k]).schedule
    <2>1. next[k].schedule = os[k].schedule
      <3>1. CASE k = j
        BY <3>1 DEF IsPerJob
      <3>2. CASE k # j
        BY <3>2 DEF IsPerJob
      <3> QED BY <3>1, <3>2
    <2> HIDE DEF next
    <2> QED BY <2>1, ScheduleOfOverride
  <1> HIDE DEF next
  <1>2. schedules(next) = schedules(os)
    BY <1>1 DEF schedules
  <1> QED BY <1>2 DEF next

LEMMA InitInv == AnyInit => Inv
  <1> SUFFICES ASSUME NEW initial \in SUBSET Globals, JobsInit(initial) PROVE Inv
    BY DEF AnyInit
  <1>1. overrides = [j \in Jobs |-> none] /\ ondisk = overrides /\ timetable = schedules(overrides)
    BY DEF JobsInit
  <1>2. IsPerJob(overrides) /\ IsPerJob(ondisk)
    BY <1>1 DEF IsPerJob
  <1> QED BY <1>1, <1>2 DEF Inv, SchedulerFollows

\* A save that goes through.
LEMMA PutStep ==
  ASSUME Inv, NEW s \in saves, PutConfig(s)
  PROVE  Inv'
  <1>1. IsPerJob(overrides)' /\ IsPerJob(ondisk)'
    BY DEF PutConfig, Inv, IsPerJob
  <1>2. SchedulerFollows'
    <2>1. CASE overrides[s.job].schedule # s.next.schedule
      BY <2>1 DEF PutConfig, Reschedule, SchedulerFollows
    <2>2. CASE overrides[s.job].schedule = s.next.schedule
      <3>1. timetable' = timetable
        BY <2>2 DEF PutConfig, Reschedule
      <3>2. ~slipped' => ~slipped
        BY <2>2 DEF PutConfig
      <3>3. schedules(overrides') = schedules(overrides)
        BY <2>2, SameTimetable DEF PutConfig, Inv
      <3> QED BY <3>1, <3>2, <3>3 DEF Inv, SchedulerFollows
    <2> QED BY <2>1, <2>2
  <1> QED BY <1>1, <1>2 DEF Inv

LEMMA StepInv == Inv /\ [JobsNext]_jobsVars => Inv'
  <1> SUFFICES ASSUME Inv, [JobsNext]_jobsVars PROVE Inv'
    OBVIOUS
  <1>1. ASSUME UNCHANGED <<overrides, ondisk, timetable, slipped>> PROVE Inv'
    BY <1>1 DEF Inv, IsPerJob, SchedulerFollows, schedules
  <1>2. ASSUME Opens \/ Leaves \/ GetJobs \/ Resolves PROVE Inv'
    BY <1>1, <1>2 DEF Opens, Leaves, GetJobs, Resolves, jobsBack, jobsSeen
  <1>3. ASSUME Controls PROVE Inv'
    BY <1>1, <1>3 DEF Controls, JobConfigRow, ScheduleRow, TimeoutRow, HandlerSelect, RetryRow,
       commit, LiveRow, SavedElsewhere, jobsBack, jobsSeen
  <1>4. ASSUME NEW s \in saves, PutConfig(s) PROVE Inv'
    BY <1>4, PutStep
  <1>5. ASSUME NEW s \in saves, PutConfigFails(s) PROVE Inv'
    BY <1>5 DEF PutConfigFails, Inv, IsPerJob, SchedulerFollows
  <1>6. ASSUME NEW s \in saves, PutConfigRefused(s) \/ RowReads(s) \/ RowWrites(s) \/ Told(s) PROVE Inv'
    BY <1>1, <1>6 DEF PutConfigRefused, RowReads, RowWrites, Told, jobsBack, jobsSeen
  <1>7. ASSUME BackEndRestarts PROVE Inv'
    BY <1>7 DEF BackEndRestarts, Inv, IsPerJob, SchedulerFollows
  <1>8. ASSUME UNCHANGED jobsVars PROVE Inv'
    BY <1>1, <1>8 DEF jobsVars, jobsBack, jobsSeen
  <1> QED
    BY <1>2, <1>3, <1>4, <1>5, <1>6, <1>7, <1>8 DEF JobsNext, Handlers

\* Whatever jobs there are and whatever may be set: the scheduler goes by the
\* schedules in force, except after a save that failed once memory had it
\* (be/src/server.ts:1190, jobs/overrides.ts:127).
THEOREM TimetableFollows == JobsSpec => []SchedulerFollows
  <1>1. Inv => SchedulerFollows
    BY DEF Inv
  <1> QED
    BY <1>1, InitInv, StepInv, PTL DEF JobsSpec
-----------------------------------------------------------------------------
(* Config -> Jobs: what the page shows.                                    *)

Stages == {"sent", "read", "ok", "err"}
CardSave == [by : {"card"}, job : Jobs, field : Fields, st : Stages, gone : BOOLEAN,
             base : Override, next : Override]
RowSave == [by : {"row"}, field : DOMAIN Rows, value : UNION {Rows[s] : s \in DOMAIN Rows},
            st : Stages \ {"read"}, gone : BOOLEAN]
RowRead == [by : {"row"}, field : DOMAIN Rows, value : UNION {Rows[s] : s \in DOMAIN Rows},
            st : Stages, gone : BOOLEAN, base : Globals]

\* A save is of one setting, to a value that it may have; it outlives its page
\* only while it has not been served.
SaveOK(s) ==
    /\ \/ s \in CardSave /\ \A f \in Fields \ {s.field} : s.next[f] = s.base[f]
       \/ s \in RowSave /\ s.value \in Rows[s.field]
       \/ s \in RowRead /\ s.value \in Rows[s.field]
    /\ s.st \in {"ok", "err"} => ~s.gone
SavesOK == \A s \in saves : SaveOK(s)

JobsTyped == JobsTypeOK /\ SavesOK

\* An answer that is to be made up after all that this page has changed.
Owed == asked.st = "sent" \/ \E s \in saves : s.st = "ok"

\* As long as nobody else changed anything, the latest answer is what the back
\* end holds, or there is one to come.
Confirmed ==
    \/ elsewhere \/ Owed
    \/ IF asked.st = "answered" THEN asked.of = Now ELSE catalogue.st = "ok" => catalogue.of = Now

LEMMA NoneIsOverride == none \in Override
  <1> DEFINE V == (UNION {Picks[f] : f \in Fields}) \cup {Inherit}
  <1>1. none \in [Fields -> V]
    BY DEF none
  <1>2. \A f \in Fields : none[f] \in Picks[f] \cup {Inherit}
    BY DEF none
  <1> QED BY <1>1, <1>2 DEF Override

\* One field of an override, to something that it may be set to.
LEMMA OneFieldOverride ==
  ASSUME NEW o \in Override, NEW f \in Fields, NEW v \in Picks[f] \cup {Inherit}
  PROVE  /\ [o EXCEPT ![f] = v] \in Override
         /\ \A g \in Fields \ {f} : [o EXCEPT ![f] = v][g] = o[g]
  <1> DEFINE V == (UNION {Picks[g] : g \in Fields}) \cup {Inherit}
             p == [o EXCEPT ![f] = v]
  <1>1. o \in [Fields -> V] /\ \A g \in Fields : o[g] \in Picks[g] \cup {Inherit}
    BY DEF Override
  <1>2. v \in V
    OBVIOUS
  <1>3. p \in [Fields -> V] /\ p[f] = v /\ \A g \in Fields \ {f} : p[g] = o[g]
    BY <1>1, <1>2
  <1>4. \A g \in Fields : p[g] \in Picks[g] \cup {Inherit}
    BY <1>1, <1>3
  <1> HIDE DEF p
  <1>5. p \in Override
    BY <1>3, <1>4 DEF Override
  <1> QED BY <1>3, <1>5 DEF p

\* The same of a setting that a row shows.
LEMMA OneSettingGlobals ==
  ASSUME NEW o \in Globals, NEW s \in DOMAIN Rows, NEW v \in Rows[s]
  PROVE  /\ [o EXCEPT ![s] = v] \in Globals
         /\ \A g \in DOMAIN Rows \ {s} : [o EXCEPT ![s] = v][g] = o[g]
  <1> DEFINE V == UNION {Rows[g] : g \in DOMAIN Rows}
             p == [o EXCEPT ![s] = v]
  <1>1. o \in [DOMAIN Rows -> V] /\ \A g \in DOMAIN Rows : o[g] \in Rows[g]
    BY DEF Globals
  <1>2. v \in V
    OBVIOUS
  <1>3. p \in [DOMAIN Rows -> V] /\ p[s] = v /\ \A g \in DOMAIN Rows \ {s} : p[g] = o[g]
    BY <1>1, <1>2
  <1>4. \A g \in DOMAIN Rows : p[g] \in Rows[g]
    BY <1>1, <1>3
  <1> HIDE DEF p
  <1>5. p \in Globals
    BY <1>3, <1>4 DEF Globals
  <1> QED BY <1>3, <1>5 DEF p

\* A save that gets on, and one that is left behind.
LEMMA SaveGetsOn ==
  ASSUME NEW s, SaveOK(s), NEW st \in {"ok", "err"}, ~s.gone
  PROVE  SaveOK([s EXCEPT !.st = st]) /\ [s EXCEPT !.st = st].st = st
  BY DEF SaveOK, CardSave, RowSave, RowRead, Stages

LEMMA SaveLeftBehind ==
  ASSUME NEW s, SaveOK(s), s.st \in {"sent", "read"}
  PROVE  SaveOK([s EXCEPT !.gone = TRUE])
  BY DEF SaveOK, CardSave, RowSave, RowRead, Stages

\* What has become of the saves once one of them is answered.
LEMMA AfterKeeps ==
  ASSUME SavesOK, NEW s \in saves, NEW st \in {"ok", "err"}, After(s, st)
  PROVE  /\ SavesOK'
         /\ \A t \in saves' : t \in saves \/ (t.st = st /\ ~s.gone)
         /\ \A t \in saves : t = s \/ t \in saves'
         /\ ~s.gone => \E t \in saves' : t.st = st
  <1>1. CASE s.gone
    BY <1>1 DEF After, SavesOK
  <1>2. CASE ~s.gone
    <2> DEFINE t == [s EXCEPT !.st = st]
    <2>1. SaveOK(t) /\ t.st = st
      BY <1>2, SaveGetsOn DEF SavesOK
    <2>2. saves' = (saves \ {s}) \cup {t}
      BY <1>2 DEF After
    <2> HIDE DEF t
    <2>3. SavesOK'
      BY <2>1, <2>2 DEF SavesOK
    <2> QED BY <1>2, <2>1, <2>2, <2>3
  <1> QED BY <1>1, <1>2

LEMMA JobsInitTyped == AnyInit => JobsTyped /\ Confirmed
  <1> SUFFICES ASSUME NEW initial \in SUBSET Globals, JobsInit(initial) PROVE JobsTyped /\ Confirmed
    BY DEF AnyInit
  <1>1. overrides \in [Jobs -> Override] /\ ondisk \in [Jobs -> Override]
    BY NoneIsOverride DEF JobsInit
  <1>2. globals \in Globals /\ DOMAIN timetable = Jobs /\ acts \in 0..MaxActs
    BY JobsAssumption DEF JobsInit, schedules
  <1>3. catalogue.st = "loading" /\ asked.st = "sent" /\ saves = {} /\ slipped = FALSE /\ elsewhere = FALSE
    BY DEF JobsInit
  <1>4. JobsTyped
    BY <1>1, <1>2, <1>3 DEF JobsTyped, JobsTypeOK, SavesOK
  <1> QED BY <1>3, <1>4 DEF Confirmed, Owed

LEMMA CommitTyped ==
  ASSUME JobsTyped, NEW j \in Jobs, NEW f \in Fields, NEW v \in Picks[f] \cup {Inherit}, commit(j, f, v)
  PROVE  JobsTyped'
  <1> DEFINE base == catalogue.of.overrides[j]
             s == [by |-> "card", job |-> j, field |-> f, st |-> "sent", gone |-> FALSE,
                   base |-> base, next |-> [base EXCEPT ![f] = v]]
  <1>1. base \in Override
    BY DEF commit, Ready, JobsTyped, JobsTypeOK, Payload
  <1>2. /\ [base EXCEPT ![f] = v] \in Override
        /\ \A g \in Fields \ {f} : [base EXCEPT ![f] = v][g] = base[g]
    BY <1>1, OneFieldOverride
  <1>3. saves' = saves \cup {s}
    BY DEF commit
  <1> HIDE DEF base
  <1>4. SaveOK(s)
    BY <1>1, <1>2 DEF SaveOK, CardSave, Stages
  <1> HIDE DEF s
  <1>5. SavesOK'
    BY <1>3, <1>4 DEF SavesOK, JobsTyped
  <1>6. s.st \in {"sent", "read", "ok", "err"} /\ s.gone \in BOOLEAN
    BY DEF s
  <1>7. acts' \in 0..MaxActs
    BY JobsAssumption DEF commit, Ready, Counts, JobsTyped, JobsTypeOK
  <1>8. UNCHANGED <<jobsBack, jobsPage, jobsSeen>>
    BY DEF commit
  <1> QED
    BY <1>3, <1>5, <1>6, <1>7, <1>8 DEF JobsTyped, JobsTypeOK, jobsBack, jobsPage, jobsSeen

LEMMA LiveRowTyped ==
  ASSUME JobsTyped, NEW s \in DOMAIN Rows, NEW v \in Rows[s], LiveRow(s, v)
  PROVE  JobsTyped'
  <1> DEFINE r == [by |-> "row", field |-> s, value |-> v, st |-> "sent", gone |-> FALSE]
  <1>1. saves' = saves \cup {r}
    BY DEF LiveRow
  <1>2. SaveOK(r)
    BY DEF SaveOK, RowSave, Stages
  <1>3. r.st \in {"sent", "read", "ok", "err"} /\ r.gone \in BOOLEAN
    OBVIOUS
  <1> HIDE DEF r
  <1>4. SavesOK'
    BY <1>1, <1>2 DEF SavesOK, JobsTyped
  <1>5. acts' \in 0..MaxActs
    BY JobsAssumption DEF LiveRow, Ready, Counts, JobsTyped, JobsTypeOK
  <1>6. UNCHANGED <<jobsBack, jobsPage, jobsSeen>>
    BY DEF LiveRow
  <1> QED
    BY <1>1, <1>3, <1>4, <1>5, <1>6 DEF JobsTyped, JobsTypeOK, jobsBack, jobsPage, jobsSeen

LEMMA SavesTyped ==
  ASSUME SavesOK
  PROVE  \A s \in saves : s.st \in {"sent", "read", "ok", "err"} /\ s.gone \in BOOLEAN
  BY DEF SavesOK, SaveOK, CardSave, RowSave, RowRead, Stages

\* A handler, by what it leaves of the saves and what it makes of the back end.
LEMMA HandlerTyped ==
  ASSUME JobsTyped, SavesOK', overrides' \in [Jobs -> Override], ondisk' \in [Jobs -> Override],
         globals' \in Globals, DOMAIN timetable' = Jobs, elsewhere' \in BOOLEAN, slipped' \in BOOLEAN,
         UNCHANGED <<jobsPage, acts>>
  PROVE  JobsTyped'
  <1>1. \A s \in saves' : s.st \in {"sent", "read", "ok", "err"} /\ s.gone \in BOOLEAN
    BY DEF SavesOK, SaveOK, CardSave, RowSave, RowRead, Stages
  <1> QED BY <1>1 DEF JobsTyped, JobsTypeOK, jobsPage

LEMMA HandlersTyped ==
  ASSUME JobsTyped, NEW s \in saves,
         PutConfig(s) \/ PutConfigFails(s) \/ PutConfigRefused(s) \/ RowReads(s) \/ RowWrites(s)
  PROVE  JobsTyped'
  <1> USE DEF JobsTyped
  <1>0. SaveOK(s) /\ s.gone \in BOOLEAN
    BY SavesTyped DEF SavesOK
  <1>t. /\ overrides \in [Jobs -> Override] /\ ondisk \in [Jobs -> Override]
        /\ globals \in Globals /\ DOMAIN timetable = Jobs /\ elsewhere \in BOOLEAN /\ slipped \in BOOLEAN
    BY DEF JobsTypeOK
  <1>c. s.by = "card" => s.next \in Override /\ s.job \in Jobs
    BY <1>0 DEF SaveOK, CardSave, RowSave, RowRead
  <1>1. CASE PutConfig(s)
    <2>1. SavesOK'
      BY <1>1, AfterKeeps DEF PutConfig
    <2>2. overrides' \in [Jobs -> Override] /\ ondisk' = overrides'
      BY <1>1, <1>t, <1>c DEF PutConfig
    <2>3. DOMAIN timetable' = Jobs
      BY <1>1, <1>t DEF PutConfig, Reschedule, schedules
    <2>4. slipped' \in BOOLEAN
      BY <1>1, <1>t DEF PutConfig
    <2>5. elsewhere' \in BOOLEAN
      BY <1>1, <1>t, <1>0 DEF PutConfig, ByOthers
    <2>6. UNCHANGED <<globals, jobsPage, acts>>
      BY <1>1 DEF PutConfig
    <2> QED BY <1>t, <2>1, <2>2, <2>3, <2>4, <2>5, <2>6, HandlerTyped
  <1>2. CASE PutConfigFails(s)
    <2>1. SavesOK'
      BY <1>2, AfterKeeps DEF PutConfigFails
    <2>2. overrides' \in [Jobs -> Override]
      BY <1>2, <1>t, <1>c DEF PutConfigFails
    <2>3. elsewhere' = TRUE /\ slipped' = TRUE /\ UNCHANGED <<timetable, globals, jobsPage, acts>>
      BY <1>2 DEF PutConfigFails
    <2>4. ondisk' \in [Jobs -> Override]
      BY <1>2, <1>t, NoneIsOverride DEF PutConfigFails
    <2> QED BY <1>t, <2>1, <2>2, <2>3, <2>4, HandlerTyped
  <1>3. CASE PutConfigRefused(s)
    <2>1. SavesOK'
      BY <1>3, AfterKeeps DEF PutConfigRefused
    <2>2. UNCHANGED <<overrides, ondisk, timetable, globals, elsewhere, slipped, jobsPage, acts>>
      BY <1>3 DEF PutConfigRefused, jobsBack, jobsSeen
    <2> QED BY <1>t, <2>1, <2>2, HandlerTyped
  <1>4. CASE RowReads(s)
    <2> DEFINE r == [by |-> "row", field |-> s.field, value |-> s.value, st |-> "read",
                     gone |-> FALSE, base |-> globals]
    <2>1. s.by = "row" /\ saves' = (saves \ {s}) \cup (IF s.gone THEN {} ELSE {r})
      BY <1>4 DEF RowReads
    <2>2. s.field \in DOMAIN Rows /\ s.value \in Rows[s.field]
      BY <1>0, <2>1 DEF SaveOK, CardSave, RowSave, RowRead
    <2>3. SaveOK(r)
      BY <1>t, <2>2 DEF SaveOK, RowRead, Stages
    <2> HIDE DEF r
    <2>4. SavesOK'
      BY <2>1, <2>3 DEF SavesOK
    <2>5. UNCHANGED <<overrides, ondisk, timetable, globals, elsewhere, slipped, jobsPage, acts>>
      BY <1>4 DEF RowReads, jobsBack, jobsSeen
    <2> QED BY <1>t, <2>4, <2>5, HandlerTyped
  <1>5. CASE RowWrites(s)
    <2>1. SavesOK'
      BY <1>5, AfterKeeps DEF RowWrites
    <2>2. s.by = "row" /\ s.st = "read" /\ globals' = [s.base EXCEPT ![s.field] = s.value]
      BY <1>5 DEF RowWrites
    <2>3. s.base \in Globals /\ s.field \in DOMAIN Rows /\ s.value \in Rows[s.field]
      BY <1>0, <2>2 DEF SaveOK, CardSave, RowSave, RowRead, Stages
    <2>4. globals' \in Globals
      BY <2>2, <2>3, OneSettingGlobals
    <2>5. UNCHANGED <<overrides, ondisk, timetable, slipped, jobsPage, acts>>
      BY <1>5 DEF RowWrites
    <2>6. elsewhere' \in BOOLEAN
      BY <1>5, <1>t, <1>0 DEF RowWrites, ByOthers
    <2> QED BY <1>t, <2>1, <2>4, <2>5, <2>6, HandlerTyped
  <1> QED BY <1>1, <1>2, <1>3, <1>4, <1>5

\* What a restart, or leaving the page, makes of the saves.
LEMMA LeavesSaves ==
  ASSUME SavesOK, Leaves
  PROVE  SavesOK'
  <1> SUFFICES ASSUME NEW t \in saves' PROVE SaveOK(t)
    BY DEF SavesOK
  <1>1. PICK s \in saves : s.st \in {"sent", "read"} /\ t = [s EXCEPT !.gone = TRUE]
    BY DEF Leaves
  <1> QED BY <1>1, SaveLeftBehind DEF SavesOK

LEMMA RestartSaves ==
  ASSUME SavesOK, BackEndRestarts
  PROVE  SavesOK' /\ \A s \in saves : s.st = "ok" => s \in saves'
  <1>1. ASSUME NEW t \in saves' PROVE SaveOK(t)
    <2>1. PICK s \in saves : ~s.gone /\ (t = [s EXCEPT !.st = "err"] \/ t = s)
      BY DEF BackEndRestarts
    <2>2. SaveOK(s) /\ SaveOK([s EXCEPT !.st = "err"])
      BY <2>1, SaveGetsOn DEF SavesOK
    <2> QED BY <2>1, <2>2
  <1>2. \A s \in saves : s.st = "ok" => ~s.gone
    BY DEF SavesOK, SaveOK
  <1> QED BY <1>1, <1>2 DEF SavesOK, BackEndRestarts

LEMMA JobsTypedStep == JobsTyped /\ [JobsNext]_jobsVars => JobsTyped'
  <1> SUFFICES ASSUME JobsTyped, [JobsNext]_jobsVars PROVE JobsTyped'
    OBVIOUS
  <1>0. SavesOK
    BY DEF JobsTyped
  <1>1. CASE Opens
    <2>1. SavesOK'
      BY <1>0, <1>1 DEF Opens, SavesOK
    <2>2. acts' \in 0..MaxActs
      BY <1>1, JobsAssumption DEF Opens, Counts, JobsTyped, JobsTypeOK
    <2> QED BY <1>1, <2>1, <2>2 DEF Opens, restart, JobsTyped, JobsTypeOK, jobsBack, jobsSeen
  <1>2. CASE Leaves
    <2>1. SavesOK'
      BY <1>0, <1>2, LeavesSaves
    <2>2. \A s \in saves' : s.st \in {"sent", "read", "ok", "err"} /\ s.gone \in BOOLEAN
      BY <2>1 DEF SavesOK, SaveOK, CardSave, RowSave, RowRead, Stages
    <2> QED BY <1>2, <2>1, <2>2 DEF Leaves, Away, Nothing, JobsTyped, JobsTypeOK, jobsBack,
               jobsSeen
  <1>3. CASE GetJobs
    <2>1. Now \in Payload
      BY DEF Now, Payload, JobsTyped, JobsTypeOK
    <2> HIDE DEF Now
    <2> QED BY <1>3, <2>1 DEF GetJobs, JobsTyped, JobsTypeOK, SavesOK, jobsBack
  <1>4. CASE Resolves
    BY <1>4 DEF Resolves, Nothing, JobsTyped, JobsTypeOK, SavesOK, jobsBack, jobsSeen
  <1>5. ASSUME NEW j \in Jobs, NEW f \in Fields, NEW v \in Picks[f] \cup {Inherit}, JobConfigRow(j, f, v)
        PROVE  JobsTyped'
    <2>1. commit(j, f, v)
      BY <1>5 DEF JobConfigRow, ScheduleRow, TimeoutRow, HandlerSelect, RetryRow
    <2> QED BY <2>1, CommitTyped
  <1>6. ASSUME NEW s \in DOMAIN Rows, NEW v \in Rows[s], LiveRow(s, v) PROVE JobsTyped'
    BY <1>6, LiveRowTyped
  <1>7. ASSUME NEW s \in DOMAIN Rows, NEW v \in Rows[s], SavedElsewhere(s, v) PROVE JobsTyped'
    <2>1. globals' \in Globals
      BY <1>7, OneSettingGlobals DEF SavedElsewhere, JobsTyped, JobsTypeOK
    <2>2. acts' \in 0..MaxActs
      BY <1>7, JobsAssumption DEF SavedElsewhere, Counts, JobsTyped, JobsTypeOK
    <2> QED BY <1>7, <2>1, <2>2 DEF SavedElsewhere, JobsTyped, JobsTypeOK, SavesOK, jobsPage
  <1>8. ASSUME NEW s \in saves, Told(s) PROVE JobsTyped'
    BY <1>8 DEF Told, restart, JobsTyped, JobsTypeOK, SavesOK, jobsBack, jobsSeen
  <1>9. ASSUME NEW s \in saves,
               PutConfig(s) \/ PutConfigFails(s) \/ PutConfigRefused(s) \/ RowReads(s) \/ RowWrites(s)
        PROVE  JobsTyped'
    BY <1>9, HandlersTyped
  <1>10. CASE BackEndRestarts
    <2>1. SavesOK'
      BY <1>0, <1>10, RestartSaves
    <2>2. \A s \in saves' : s.st \in {"sent", "read", "ok", "err"} /\ s.gone \in BOOLEAN
      BY <2>1 DEF SavesOK, SaveOK, CardSave, RowSave, RowRead, Stages
    <2>3. acts' \in 0..MaxActs
      BY <1>10, JobsAssumption DEF BackEndRestarts, Counts, JobsTyped, JobsTypeOK
    <2>4. overrides' \in [Jobs -> Override] /\ ondisk' \in [Jobs -> Override] /\ globals' \in Globals
          /\ DOMAIN timetable' = Jobs /\ slipped' \in BOOLEAN
      BY <1>10 DEF BackEndRestarts, JobsTyped, JobsTypeOK, schedules
    <2>5. elsewhere' \in BOOLEAN
      BY <1>10 DEF BackEndRestarts, JobsTyped, JobsTypeOK
    <2>6. /\ catalogue'.st \in {"away", "loading", "err"} \/ (catalogue'.st = "ok" /\ catalogue'.of \in Payload)
          /\ asked'.st \in {"none", "sent"} \/ (asked'.st = "answered" /\ asked'.of \in Payload)
      BY <1>10 DEF BackEndRestarts, Nothing, JobsTyped, JobsTypeOK, jobsPage
    <2> QED BY <2>1, <2>2, <2>3, <2>4, <2>5, <2>6 DEF JobsTyped, JobsTypeOK
  <1>11. CASE UNCHANGED jobsVars
    BY <1>11 DEF jobsVars, jobsBack, jobsPage, jobsSeen, JobsTyped, JobsTypeOK, SavesOK
  <1> QED
    BY <1>1, <1>2, <1>3, <1>4, <1>5, <1>6, <1>7, <1>8, <1>9, <1>10, <1>11 DEF JobsNext,
       Controls, Handlers

LEMMA HandlersConfirmed ==
  ASSUME JobsTyped, Confirmed, NEW s \in saves,
         PutConfig(s) \/ PutConfigFails(s) \/ PutConfigRefused(s) \/ RowReads(s) \/ RowWrites(s)
  PROVE  Confirmed'
  <1>0. SaveOK(s) /\ SavesOK /\ s.gone \in BOOLEAN
    BY SavesTyped DEF JobsTyped, SavesOK
  <1>1. CASE PutConfig(s)
    <2>1. s.gone => elsewhere'
      BY <1>0, <1>1 DEF PutConfig, ByOthers
    <2>2. ~s.gone => \E t \in saves' : t.st = "ok"
      BY <1>0, <1>1, AfterKeeps DEF PutConfig
    <2> QED BY <1>0, <2>1, <2>2 DEF Confirmed, Owed
  <1>2. CASE PutConfigFails(s)
    BY <1>2 DEF PutConfigFails, Confirmed
  <1>3. CASE RowWrites(s)
    <2>1. s.gone => elsewhere'
      BY <1>0, <1>3 DEF RowWrites, ByOthers
    <2>2. ~s.gone => \E t \in saves' : t.st = "ok"
      BY <1>0, <1>3, AfterKeeps DEF RowWrites
    <2> QED BY <1>0, <2>1, <2>2 DEF Confirmed, Owed
  <1>4. CASE PutConfigRefused(s) \/ RowReads(s)
    <2>1. \A t \in saves : t.st = "ok" => t \in saves'
      BY <1>4 DEF PutConfigRefused, RowReads, After
    <2>2. UNCHANGED <<overrides, globals, catalogue, asked, elsewhere>>
      BY <1>4 DEF PutConfigRefused, RowReads, jobsBack, jobsPage, jobsSeen
    <2> QED BY <2>1, <2>2 DEF Confirmed, Owed, Now
  <1> QED BY <1>1, <1>2, <1>3, <1>4

LEMMA ConfirmedStep == JobsTyped /\ Confirmed /\ [JobsNext]_jobsVars => Confirmed'
  <1> SUFFICES ASSUME JobsTyped, Confirmed, [JobsNext]_jobsVars PROVE Confirmed'
    OBVIOUS
  <1>1. CASE Opens
    BY <1>1 DEF Opens, restart, Confirmed, Owed
  <1>2. CASE Leaves
    BY <1>2 DEF Leaves, Away, Nothing, Confirmed
  <1>3. CASE GetJobs
    BY <1>3 DEF GetJobs, jobsBack, Confirmed, Now
  <1>4. CASE Resolves
    BY <1>4 DEF Resolves, Nothing, jobsBack, jobsSeen, Confirmed, Owed, Now
  <1>5. ASSUME UNCHANGED <<overrides, globals, catalogue, asked, elsewhere>>, saves \subseteq saves'
        PROVE  Confirmed'
    BY <1>5 DEF Confirmed, Owed, Now
  <1>6. ASSUME NEW j \in Jobs, NEW f \in Fields, NEW v \in Picks[f] \cup {Inherit}, JobConfigRow(j, f, v)
        PROVE  Confirmed'
    BY <1>5, <1>6 DEF JobConfigRow, ScheduleRow, TimeoutRow, HandlerSelect, RetryRow, commit,
       jobsBack, jobsPage, jobsSeen
  <1>7. ASSUME NEW s \in DOMAIN Rows, NEW v \in Rows[s], LiveRow(s, v) PROVE Confirmed'
    BY <1>5, <1>7 DEF LiveRow, jobsBack, jobsPage, jobsSeen
  <1>8. ASSUME NEW s \in DOMAIN Rows, NEW v \in Rows[s], SavedElsewhere(s, v) PROVE Confirmed'
    BY <1>8 DEF SavedElsewhere, Confirmed
  <1>9. ASSUME NEW s \in saves, Told(s) PROVE Confirmed'
    <2>1. CASE s.st = "ok"
      BY <1>9, <2>1 DEF Told, restart, Confirmed, Owed
    <2>2. CASE s.st # "ok"
      <3>1. \A t \in saves : t.st = "ok" => t \in saves'
        BY <1>9, <2>2 DEF Told
      <3>2. UNCHANGED <<overrides, globals, catalogue, asked, elsewhere>>
        BY <1>9, <2>2 DEF Told, jobsBack, jobsSeen
      <3> QED BY <3>1, <3>2 DEF Confirmed, Owed, Now
    <2> QED BY <2>1, <2>2
  <1>10. ASSUME NEW s \in saves,
                PutConfig(s) \/ PutConfigFails(s) \/ PutConfigRefused(s) \/ RowReads(s) \/ RowWrites(s)
         PROVE  Confirmed'
    BY <1>10, HandlersConfirmed
  <1>11. CASE BackEndRestarts
    <2>1. overrides # ondisk => elsewhere'
      BY <1>11 DEF BackEndRestarts
    <2>2. (elsewhere => elsewhere') /\ (overrides = ondisk => UNCHANGED overrides) /\ UNCHANGED globals
      BY <1>11 DEF BackEndRestarts
    <2>3. \A s \in saves : s.st = "ok" => s \in saves'
      BY <1>11, RestartSaves DEF JobsTyped
    <2>4. CASE asked.st = "sent"
      BY <1>11, <2>4 DEF BackEndRestarts, Nothing, Confirmed
    <2>5. CASE asked.st # "sent"
      <3>1. UNCHANGED <<asked, catalogue>>
        BY <1>11, <2>5 DEF BackEndRestarts, jobsPage
      <3> QED BY <2>1, <2>2, <2>3, <3>1 DEF Confirmed, Owed, Now
    <2> QED BY <2>4, <2>5
  <1>12. CASE UNCHANGED jobsVars
    BY <1>5, <1>12 DEF jobsVars, jobsBack, jobsPage, jobsSeen
  <1> QED
    BY <1>1, <1>2, <1>3, <1>4, <1>6, <1>7, <1>8, <1>9, <1>10, <1>11, <1>12 DEF JobsNext,
       Controls, Handlers

\* When nothing is under way and nobody else changed anything, the page shows
\* what the back end holds: in whatever order the saves of any number of
\* controls, the fetches they bring about, restarts and visits to other pages
\* come (fe/src/pages/config_jobs.rs:58, be/src/server.ts:1190).
THEOREM JobsPageShowsConfirmed == JobsSpec => []ShowsConfirmed
  <1>1. JobsTyped /\ Confirmed => ShowsConfirmed
    BY DEF Confirmed, Owed, ShowsConfirmed
  <1> QED
    BY <1>1, JobsInitTyped, JobsTypedStep, ConfirmedStep, PTL DEF JobsSpec

-----------------------------------------------------------------------------
(* The run log: a delete keeps to the filter that it was confirmed for.    *)

AnyRunLogInit == \E scopes \in SUBSET Scopes : RunLogInit(scopes)
RunLogSpec == AnyRunLogInit /\ [][RunLogNext]_runVars

AskedFor == RunJobs \cup {Every}

\* The numbers are numbers, and the controls are set to what they offer.
RunNumbers ==
    /\ newest \in Nat /\ hourAgo \in Nat
    /\ \A r \in runs \cup failures : r.at \in Nat
    /\ filter \in [job : AskedFor, outcome : Outcomes \cup {Every}, hours : {"all", "hour"}]
    /\ only \in Seq(RunJobs)

\* While the question is on the page it is put for the filter that is on it,
\* and for a window that has not grown.
Question ==
    confirming => /\ offered.ids = Range(IdsOf) /\ offered.outcome = filter.outcome
                  /\ offered.since \in Nat /\ offered.since <= Since

\* A delete that is under way has jobs to go only of those it was put for.
NamedOnly(d) ==
    /\ DOMAIN d = {"todo", "outcome", "since", "for", "promised"}
    /\ d.todo \in Seq(AskedFor) /\ Range(d.todo) \subseteq d.for.ids
    /\ d.outcome = d.for.outcome
    /\ d.since \in Nat /\ d.for.since \in Nat /\ d.for.since <= d.since

Confirms == RunNumbers /\ Question /\ \A d \in deletes : NamedOnly(d)

LEMMA IdsAreJobs == RunNumbers => IdsOf \in Seq(AskedFor) /\ Since \in Nat
  <1> SUFFICES ASSUME RunNumbers PROVE IdsOf \in Seq(AskedFor) /\ Since \in Nat
    OBVIOUS
  <1>1. Since \in Nat
    BY DEF RunNumbers, Since
  <1>2. Every \in AskedFor /\ filter.job \in AskedFor
    BY DEF RunNumbers, AskedFor
  <1>3. <<Every>> \in Seq(AskedFor) /\ <<filter.job>> \in Seq(AskedFor)
    BY <1>2
  <1>4. only \in Seq(AskedFor)
    <2>1. only \in [1..Len(only) -> RunJobs] /\ Len(only) \in Nat
      BY DEF RunNumbers
    <2>2. only \in [1..Len(only) -> AskedFor]
      BY <2>1 DEF AskedFor
    <2> QED BY <2>1, <2>2
  <1> QED BY <1>1, <1>3, <1>4 DEF IdsOf

LEMMA RunLogInitConfirms == AnyRunLogInit => Confirms
  <1> SUFFICES ASSUME NEW scopes \in SUBSET Scopes, RunLogInit(scopes) PROVE Confirms
    BY DEF AnyRunLogInit
  <1>1. RunNumbers
    BY ScopesAssumption DEF RunLogInit, RunNumbers, AskedFor
  <1> QED BY <1>1 DEF RunLogInit, Confirms, Question

\* What leaves the controls and the deletes alone, the clock apart.
LEMMA RecordConfirms ==
  ASSUME Confirms, RunNumbers', hourAgo' \in {hourAgo, hourAgo + 1}, UNCHANGED <<only, deletes, runControls>>
  PROVE  Confirms'
  <1>1. Since <= Since'
    BY DEF Since, Confirms, RunNumbers, runControls
  <1>2. Since \in Nat /\ Since' \in Nat
    BY DEF Since, Confirms, RunNumbers, runControls
  <1>3. IdsOf' = IdsOf
    BY DEF IdsOf, runControls
  <1>4. Question'
    BY <1>1, <1>2, <1>3 DEF Question, Confirms, runControls
  <1> QED BY <1>4 DEF Confirms, NamedOnly

LEMMA TailRange ==
  ASSUME NEW S, NEW q \in Seq(S), q # <<>>
  PROVE  Tail(q) \in Seq(S) /\ Range(Tail(q)) \subseteq Range(q) /\ Head(q) \in Range(q)
  <1>1. Tail(q) \in Seq(S) /\ Len(Tail(q)) = Len(q) - 1 /\ Len(q) \in Nat /\ Len(q) # 0
    OBVIOUS
  <1>2. \A i \in 1..Len(Tail(q)) : Tail(q)[i] = q[i + 1] /\ i + 1 \in 1..Len(q)
    BY <1>1
  <1>3. DOMAIN q = 1..Len(q) /\ DOMAIN Tail(q) = 1..Len(Tail(q))
    BY <1>1
  <1>4. Range(Tail(q)) \subseteq Range(q)
    BY <1>2, <1>3 DEF Range
  <1>5. Head(q) = q[1] /\ 1 \in DOMAIN q
    BY <1>1, <1>3
  <1> QED BY <1>1, <1>4, <1>5 DEF Range

\* A request of a delete is served: what goes was named when it was put.
LEMMA RemoveConfirms ==
  ASSUME Confirms, NEW d \in deletes, remove_runs(d)
  PROVE  /\ Confirms'
         /\ deletes \ deletes' \subseteq {d}
         /\ \A r \in (runs \ runs') \cup (failures \ failures') :
                \E id \in d.for.ids : matches(r, id, d.for.outcome, d.for.since)
  <1> DEFINE gone(r) == matches(r, Head(d.todo), d.outcome, d.since)
             e == [d EXCEPT !.todo = Tail(@)]
  <1>a. /\ runs' = {r \in runs : ~gone(r)} /\ failures' = {r \in failures : ~gone(r)}
        /\ d.todo # <<>>
    BY Zenon DEF remove_runs
  <1>b. deletes' = (deletes \ {d}) \cup {e}
    BY Zenon DEF remove_runs
  <1>c. UNCHANGED <<newest, hourAgo, only, runControls>>
    BY Zenon DEF remove_runs
  <1>2. NamedOnly(d) /\ RunNumbers
    BY DEF Confirms
  <1>3. /\ Tail(d.todo) \in Seq(AskedFor) /\ Range(Tail(d.todo)) \subseteq Range(d.todo)
        /\ Head(d.todo) \in Range(d.todo)
    <2>1. d.todo \in Seq(AskedFor) /\ d.todo # <<>>
      BY <1>a, <1>2 DEF NamedOnly
    <2> QED BY <2>1, TailRange
  <1>4. /\ e.todo = Tail(d.todo) /\ e.outcome = d.outcome /\ e.since = d.since /\ e.for = d.for
        /\ DOMAIN e = DOMAIN d
    BY <1>2 DEF NamedOnly
  <1> HIDE DEF e
  <1>5. NamedOnly(e)
    BY <1>2, <1>3, <1>4 DEF NamedOnly
  <1>6. RunNumbers'
    BY <1>a, <1>c, <1>2 DEF RunNumbers, runControls
  <1>7. Question'
    BY <1>c DEF Confirms, Question, IdsOf, Since, runControls
  <1>8. \A c \in deletes' : NamedOnly(c)
    BY <1>b, <1>5 DEF Confirms
  <1>9. ASSUME NEW r \in (runs \ runs') \cup (failures \ failures')
        PROVE  \E id \in d.for.ids : matches(r, id, d.for.outcome, d.for.since)
    <2>1. r \in runs \cup failures /\ gone(r)
      BY <1>a
    <2>2. r.at \in Nat /\ Head(d.todo) \in d.for.ids
      BY <1>2, <1>3, <2>1 DEF RunNumbers, NamedOnly
    <2>3. matches(r, Head(d.todo), d.for.outcome, d.for.since)
      BY <1>2, <2>1, <2>2 DEF NamedOnly, matches
    <2> QED BY <2>2, <2>3
  <1> QED BY <1>b, <1>6, <1>7, <1>8, <1>9 DEF Confirms, NamedOnly

\* "Delete", the second time it is asked for.
LEMMA DeleteConfirms ==
  ASSUME Confirms, Delete
  PROVE  Confirms'
  <1> DEFINE d == [todo |-> IdsOf, outcome |-> filter.outcome, since |-> Since,
                   for |-> offered, promised |-> answer.matched]
  <1>1. /\ confirming /\ deletes' = deletes \cup {d} /\ ~confirming'
        /\ UNCHANGED <<runRecord, only, filter>>
    BY DEF Delete
  <1>2. NamedOnly(d)
    BY <1>1, IdsAreJobs DEF Confirms, Question, NamedOnly
  <1> HIDE DEF d
  <1> QED
    BY <1>1, <1>2 DEF Confirms, Question, RunNumbers, NamedOnly, runRecord

LEMMA RunLogStepConfirms == Confirms /\ [RunLogNext]_runVars => Confirms'
  <1> SUFFICES ASSUME Confirms, [RunLogNext]_runVars PROVE Confirms'
    OBVIOUS
  <1>1. ASSUME NEW j \in RunJobs, NEW o \in Outcomes, record(j, o) PROVE Confirms'
    <2> DEFINE run == [at |-> newest', job |-> j, outcome |-> o]
    <2>1. /\ newest' = newest + 1
          /\ runs' = Newest(runs \cup {run}, capacity)
          /\ failures' = IF o = "failed" THEN Newest(failures \cup {run}, failureCapacity) ELSE failures
          /\ UNCHANGED <<hourAgo, only, deletes, runControls>>
      BY <1>1 DEF record
    <2>2. newest' \in Nat /\ run.at = newest'
      BY <2>1 DEF Confirms, RunNumbers
    <2> HIDE DEF run
    <2>3. \A r \in runs' \cup failures' : r = run \/ r \in runs \cup failures
      BY <2>1 DEF Newest
    <2>4. RunNumbers'
      BY <2>1, <2>2, <2>3 DEF Confirms, RunNumbers, runControls
    <2> QED BY <2>1, <2>4, RecordConfirms
  <1>2. CASE TimePasses
    <2>1. RunNumbers'
      BY <1>2 DEF TimePasses, Confirms, RunNumbers, runControls
    <2> QED BY <1>2, <2>1, RecordConfirms DEF TimePasses
  <1>3. CASE UNCHANGED <<runRecord, only, deletes, runControls>>
    <2>1. RunNumbers' /\ UNCHANGED hourAgo
      BY <1>3 DEF Confirms, RunNumbers, runRecord, runControls
    <2> QED BY <1>3, <2>1, RecordConfirms
  <1>4. CASE Starts \/ GetRuns \/ GetRunsFails \/ RunsArrive
    BY <1>3, <1>4 DEF Starts, GetRuns, GetRunsFails, RunsArrive
  <1>5. ASSUME NEW f \in FilterPicks, FilterSelect(f) PROVE Confirms'
    <2>1. f \in [job : AskedFor, outcome : Outcomes \cup {Every}, hours : {"all", "hour"}]
      BY <1>5 DEF FilterPicks, AskedFor, Confirms, RunNumbers
    <2>2. filter' = f /\ ~confirming' /\ UNCHANGED <<runRecord, only, deletes>>
      BY <1>5 DEF FilterSelect
    <2> QED BY <2>1, <2>2 DEF Confirms, Question, RunNumbers, NamedOnly, runRecord
  <1>6. CASE DeleteThese
    <2>1. /\ offered' = [ids |-> Range(IdsOf), outcome |-> filter.outcome, since |-> Since]
          /\ UNCHANGED <<runRecord, only, filter, deletes>>
      BY <1>6 DEF DeleteThese
    <2>2. Since \in Nat /\ Since' = Since /\ IdsOf' = IdsOf
      BY <2>1, IdsAreJobs DEF Confirms, Since, IdsOf, runRecord
    <2>3. Question'
      BY <2>1, <2>2 DEF Question
    <2> QED BY <2>1, <2>3 DEF Confirms, RunNumbers, NamedOnly, runRecord
  <1>7. CASE CancelDelete
    BY <1>7 DEF CancelDelete, Confirms, Question, RunNumbers, NamedOnly, runRecord
  <1>8. CASE Delete
    BY <1>8, DeleteConfirms
  <1>9. ASSUME NEW d \in deletes, remove_runs(d) PROVE Confirms'
    BY <1>9, RemoveConfirms
  <1>10. ASSUME NEW d \in deletes, DeleteFails(d) \/ Deleted(d) PROVE Confirms'
    BY <1>10 DEF DeleteFails, Deleted, Confirms, Question, RunNumbers, NamedOnly, runRecord,
       IdsOf, Since
  <1>11. CASE UNCHANGED runVars
    BY <1>3, <1>11 DEF runVars
  <1> QED
    BY <1>1, <1>2, <1>4, <1>5, <1>6, <1>7, <1>8, <1>9, <1>10, <1>11 DEF RunLogNext

\* What goes when a delete is served, or a request of it fails.
LEMMA DeletesNamed ==
  ASSUME Confirms, [RunLogNext]_runVars, NEW d \in deletes \ deletes',
         NEW r \in (runs \ runs') \cup (failures \ failures')
  PROVE  \E id \in d.for.ids : matches(r, id, d.for.outcome, d.for.since)
  <1>1. ASSUME NEW c \in deletes, remove_runs(c)
        PROVE  \E id \in d.for.ids : matches(r, id, d.for.outcome, d.for.since)
    BY <1>1, RemoveConfirms
  <1>2. ASSUME NEW c \in deletes, DeleteFails(c) \/ Deleted(c) PROVE FALSE
    BY <1>2 DEF DeleteFails, Deleted, runRecord
  <1>3. ASSUME NEW j \in RunJobs, NEW o \in Outcomes, record(j, o) PROVE FALSE
    BY <1>3 DEF record
  <1>4. CASE TimePasses \/ Starts \/ GetRuns \/ GetRunsFails \/ RunsArrive
    BY <1>4 DEF TimePasses, Starts, GetRuns, GetRunsFails, RunsArrive
  <1>5. ASSUME NEW f \in FilterPicks, FilterSelect(f) PROVE FALSE
    BY <1>5 DEF FilterSelect
  <1>6. CASE DeleteThese \/ CancelDelete \/ Delete
    BY <1>6 DEF DeleteThese, CancelDelete, Delete
  <1>7. CASE UNCHANGED runVars
    BY <1>7 DEF runVars
  <1> QED
    BY <1>1, <1>2, <1>3, <1>4, <1>5, <1>6, <1>7 DEF RunLogNext

\* Whatever picks, hours and runs come between the two clicks, and however
\* many deletes are under way: what is removed, from the record or from the
\* error logs, was in the filter both times.  It need not have been counted
\* (fe/src/pages/monitor_jobs.rs:1467, be/src/jobs/history.ts:262).
THEOREM DeletesAreInTheFilter == RunLogSpec => DeletesKeepToTheFilter
  <1> DEFINE Kept == \A d \in deletes \ deletes' : \A r \in Gone :
                    \E id \in d.for.ids : matches(r, id, d.for.outcome, d.for.since)
  <1>1. Confirms /\ [RunLogNext]_runVars => Kept
    BY DeletesNamed DEF Gone
  <1>2. AnyRunLogInit => Confirms
    BY RunLogInitConfirms
  <1>3. Confirms /\ [RunLogNext]_runVars => Confirms'
    BY RunLogStepConfirms
  <1> QED
    BY <1>1, <1>2, <1>3, PTL DEF RunLogSpec, DeletesKeepToTheFilter

-----------------------------------------------------------------------------
(* Webhooks: a save changes only what was typed.                           *)

\* From any store of definitions that fit their kinds.
HookStores == UNION {[ids -> Def] : ids \in SUBSET HookIds}
AnyHooksInit == \E initial \in SUBSET HookStores : HooksInit(initial)
HooksSpec == AnyHooksInit /\ [][HooksNext]_hookVars

DefFields == {"label", "family", "kind", "prefix", "job", "lookup", "routes"}
DraftFields == {"at", "typed", "replacing", "id", "bare_prefix"} \cup DefFields

\* A definition has what its kind uses and nothing else.
Fits(d) ==
    /\ DOMAIN d = DefFields
    /\ d.kind = "command" <=> d.job = Absent
    /\ d.kind = "notification" <=> d.lookup # Absent
    /\ d.kind = "command" <=> d.routes # Absent
AllFit(hs) == DOMAIN hs \subseteq HookIds /\ \A h \in DOMAIN hs : Fits(hs[h])

\* What was not typed is in the boxes as it was in the definition.
Untouched(f, d) ==
    /\ \A b \in {"label", "family", "kind"} : b \in f.typed \/ f[b] = d[b]
    /\ "prefix" \in f.typed \/ (f.prefix = Box(d.prefix) /\ f.bare_prefix = (d.prefix = Empty))
    /\ "job" \in f.typed \/ f.job = (IF d.job = Absent THEN TheJob ELSE d.job)
    /\ \A b \in {"lookup", "routes"} : b \in f.typed \/ f[b] = Box(d[b])

Draft(f) ==
    /\ DOMAIN f = DraftFields
    /\ f.id \in HookIds \cup {Empty} /\ f.bare_prefix \in BOOLEAN
    /\ f.job # Absent /\ f.lookup # Absent /\ f.routes # Absent
    /\ f.replacing # New => /\ f.replacing \in DOMAIN f.at
                            /\ Fits(f.at[f.replacing]) /\ Untouched(f, f.at[f.replacing])

\* A field that the form did not change is sent as it was listed.
Faithful(def, typed, d) ==
    \A b \in DefFields : def[b] = d[b] \/ b \in typed \/ (b \in KindFields /\ "kind" \in typed)

Sent(r) == Puts(r) =>
    /\ r.id \in HookIds /\ Fits(r.def)
    /\ r.replacing # New => r.path = r.replacing /\ Faithful(r.def, r.typed, r.at[r.replacing])

HooksInv ==
    /\ AllFit(hooks)
    /\ DOMAIN list = Doors /\ \A d \in Doors : Listed(d) => AllFit(list[d].hooks)
    /\ DOMAIN form = Doors /\ \A d \in Doors : IsOpen(d) => Draft(form[d])
    /\ \A r \in pending : Sent(r)

-----------------------------------------------------------------------------
LEMMA Strings == Empty # Absent /\ Empty # TheJob /\ TheJob # Absent
  BY Zenon DEF Empty, Absent, TheJob

\* From the definition to the boxes and back nothing is lost: a prefix that is
\* absent and one that is empty, and what the kind leaves off.
LEMMA RoundTrip ==
  ASSUME NEW f, Draft(f), NEW d, Fits(d), Untouched(f, d)
  PROVE  Fits(to_def(f)) /\ Faithful(to_def(f), f.typed, d)
  <1> DEFINE g == to_def(f)
  <1>1. /\ DOMAIN g = DefFields /\ g.label = f.label /\ g.family = f.family /\ g.kind = f.kind
        /\ g.prefix = (IF f.bare_prefix THEN Empty ELSE some_if_filled(f.prefix))
        /\ g.job = (IF f.kind = "command" THEN Absent ELSE f.job)
        /\ g.lookup = (IF f.kind = "notification" THEN f.lookup ELSE Absent)
        /\ g.routes = (IF f.kind = "command" THEN f.routes ELSE Absent)
    BY DEF to_def, DefFields
  <1> HIDE DEF g
  <1>2. Fits(g)
    BY <1>1 DEF Fits, Draft
  <1>3. \A b \in {"label", "family", "kind"} : g[b] = d[b] \/ b \in f.typed
    BY <1>1 DEF Untouched
  <1>4. g.prefix = d.prefix \/ "prefix" \in f.typed
    BY <1>1, Strings DEF Untouched, Box, some_if_filled
  <1>5. g.job = d.job \/ "job" \in f.typed \/ "kind" \in f.typed
    BY <1>1 DEF Untouched, Fits
  <1>6. g.lookup = d.lookup \/ "lookup" \in f.typed \/ "kind" \in f.typed
    BY <1>1 DEF Untouched, Fits, Box
  <1>7. g.routes = d.routes \/ "routes" \in f.typed \/ "kind" \in f.typed
    BY <1>1 DEF Untouched, Fits, Box
  <1> QED BY <1>2, <1>3, <1>4, <1>5, <1>6, <1>7 DEF Faithful, DefFields, KindFields, g

\* A new definition fits its kind as well.
LEMMA DraftFits ==
  ASSUME NEW f, Draft(f)
  PROVE  Fits(to_def(f))
  <1> DEFINE g == to_def(f)
  <1>1. /\ DOMAIN g = DefFields /\ g.kind = f.kind
        /\ g.job = (IF f.kind = "command" THEN Absent ELSE f.job)
        /\ g.lookup = (IF f.kind = "notification" THEN f.lookup ELSE Absent)
        /\ g.routes = (IF f.kind = "command" THEN f.routes ELSE Absent)
    BY DEF to_def, DefFields
  <1> HIDE DEF g
  <1>2. Fits(g)
    BY <1>1 DEF Fits, Draft
  <1> QED BY <1>2 DEF g

\* The forms that the buttons open.
LEMMA BlankDraft ==
  ASSUME NEW at, NEW kind, NEW family
  PROVE  Draft(blank(kind, family, at))
  <1> DEFINE f == blank(kind, family, at)
  <1>1. /\ DOMAIN f = DraftFields /\ f.id = Empty /\ f.bare_prefix = FALSE
        /\ f.job = TheJob /\ f.lookup = Empty /\ f.routes = Empty /\ f.replacing = New
    BY DEF blank, DraftFields, DefFields
  <1> HIDE DEF f
  <1>2. Draft(f)
    BY <1>1, Strings DEF Draft
  <1> QED BY <1>2 DEF f

LEMMA EditDraft ==
  ASSUME NEW at, NEW h \in DOMAIN at, AllFit(at)
  PROVE  Draft(from_webhook(h, at[h], at))
  <1> DEFINE d == at[h]
             f == from_webhook(h, d, at)
  <1>0. h \in HookIds /\ Fits(d)
    BY DEF AllFit
  <1>1. /\ DOMAIN f = DraftFields /\ f.id = h /\ f.replacing = h /\ f.at = at /\ f.typed = {}
        /\ f.label = d.label /\ f.family = d.family /\ f.kind = d.kind
        /\ f.prefix = Box(d.prefix) /\ f.bare_prefix = (d.prefix = Empty)
        /\ f.job = (IF d.job = Absent THEN TheJob ELSE d.job)
        /\ f.lookup = Box(d.lookup) /\ f.routes = Box(d.routes)
    <2> HIDE DEF d
    <2> QED BY DEF from_webhook, DraftFields, DefFields
  <1> HIDE DEF f, d
  <1>2. Untouched(f, d)
    BY <1>1 DEF Untouched
  <1>3. f.job # Absent /\ f.lookup # Absent /\ f.routes # Absent
    BY <1>0, <1>1, Strings DEF Box
  <1>4. f.bare_prefix \in BOOLEAN
    BY <1>1
  <1>5. f.at[f.replacing] = d
    BY <1>1 DEF d
  <1>6. Draft(f)
    BY <1>0, <1>1, <1>2, <1>3, <1>4, <1>5 DEF Draft
  <1> QED BY <1>6 DEF f, d

-----------------------------------------------------------------------------
(* The form. *)

Boxes == {"id"} \cup DefFields

\* Something is put into a box: the box has it, and is one that was typed in.
LEMMA TypedDraft ==
  ASSUME NEW f, Draft(f), NEW b \in Boxes, NEW v,
         b = "id" => v \in HookIds, b \in {"job", "lookup", "routes"} => v # Absent
  PROVE  Draft(Written(f, b, v))
  <1> DEFINE g == [f EXCEPT ![b] = v]
             h == [g EXCEPT !.typed = f.typed \cup {b}]
             w == Written(f, b, v)
  <1>0. DOMAIN f = DraftFields /\ b \in DraftFields /\ b \notin {"at", "typed", "replacing", "bare_prefix"}
    BY DEF Draft, DraftFields, DefFields, Boxes
  <1>1. /\ DOMAIN g = DraftFields /\ g[b] = v
        /\ \A x \in DraftFields \ {b} : g[x] = f[x]
    BY <1>0
  <1> HIDE DEF g
  <1>2. /\ DOMAIN h = DraftFields /\ h.typed = f.typed \cup {b}
        /\ \A x \in DraftFields \ {"typed"} : h[x] = g[x]
    BY <1>1 DEF DraftFields
  <1> HIDE DEF h
  <1>w. w = [h EXCEPT !.bare_prefix = f.bare_prefix /\ b # "prefix"]
    BY DEF Written, h, g
  <1>3. /\ DOMAIN w = DraftFields /\ w.bare_prefix = (f.bare_prefix /\ b # "prefix")
        /\ \A x \in DraftFields \ {"bare_prefix"} : w[x] = h[x]
    BY <1>2, <1>w DEF DraftFields
  <1> HIDE DEF w
  <1>4. /\ w.at = f.at /\ w.replacing = f.replacing /\ w.typed = f.typed \cup {b} /\ w[b] = v
        /\ \A x \in Boxes \ {b} : w[x] = f[x]
    BY <1>0, <1>1, <1>2, <1>3 DEF DraftFields, DefFields, Boxes
  <1>5. w.bare_prefix = (f.bare_prefix /\ b # "prefix")
    BY <1>3
  <1>6. w.id \in HookIds \cup {Empty} /\ w.bare_prefix \in BOOLEAN
    BY <1>4, <1>5 DEF Draft, Boxes
  <1>7. w.job # Absent /\ w.lookup # Absent /\ w.routes # Absent
    BY <1>4 DEF Draft, Boxes, DefFields
  <1>8. ASSUME f.replacing # New PROVE Untouched(w, f.at[f.replacing])
    <2> DEFINE d == f.at[f.replacing]
    <2>1. Untouched(f, d)
      BY <1>8 DEF Draft
    <2> HIDE DEF d
    <2>2. b \in w.typed /\ f.typed \subseteq w.typed
      BY <1>4
    <2>3. b # "prefix" => w.prefix = f.prefix /\ w.bare_prefix = f.bare_prefix
      <3>1. f.bare_prefix \in BOOLEAN
        BY DEF Draft
      <3> QED BY <1>4, <1>5, <3>1 DEF Boxes, DefFields
    <2>4. "prefix" \in w.typed \/ (w.prefix = Box(d.prefix) /\ w.bare_prefix = (d.prefix = Empty))
      BY <2>1, <2>2, <2>3 DEF Untouched
    <2>5. \A x \in {"label", "family", "kind"} : x \in w.typed \/ w[x] = d[x]
      BY <1>4, <2>1, <2>2 DEF Untouched, Boxes, DefFields
    <2>6. "job" \in w.typed \/ w.job = (IF d.job = Absent THEN TheJob ELSE d.job)
      BY <1>4, <2>1, <2>2 DEF Untouched, Boxes, DefFields
    <2>7. \A x \in {"lookup", "routes"} : x \in w.typed \/ w[x] = Box(d[x])
      BY <1>4, <2>1, <2>2 DEF Untouched, Boxes, DefFields
    <2>8. Untouched(w, d)
      BY <2>4, <2>5, <2>6, <2>7 DEF Untouched
    <2> QED BY <2>8 DEF d
  <1>9. Draft(w)
    BY <1>3, <1>4, <1>6, <1>7, <1>8 DEF Draft
  <1> QED BY <1>9 DEF w

\* "The value is a bare hex digest".
LEMMA TurnedDraft ==
  ASSUME NEW f, Draft(f)
  PROVE  Draft(Turned(f))
  <1> DEFINE w == Turned(f)
  <1>0. DOMAIN f = DraftFields
    BY DEF Draft
  <1>1. /\ DOMAIN w = DraftFields /\ w.typed = f.typed \cup {"prefix"}
        /\ \A x \in DraftFields \ {"bare_prefix", "typed", "prefix"} : w[x] = f[x]
    BY <1>0 DEF Turned, DraftFields, DefFields
  <1>2. w.bare_prefix = ~f.bare_prefix
    BY <1>0 DEF Turned, DraftFields, DefFields
  <1> HIDE DEF w
  <1>3. w.bare_prefix \in BOOLEAN
    BY <1>2
  <1>4. \A x \in {"at", "replacing", "id", "label", "family", "kind", "job", "lookup", "routes"} : w[x] = f[x]
    BY <1>1 DEF DraftFields, DefFields
  <1>5. ASSUME NEW d, Untouched(f, d) PROVE Untouched(w, d)
    BY <1>1, <1>4, <1>5 DEF Untouched
  <1>6. Draft(w)
    BY <1>1, <1>3, <1>4, <1>5 DEF Draft
  <1> QED BY <1>6 DEF w

\* What touches a door's form and nothing else.
LEMMA FormStep ==
  ASSUME HooksInv, NEW d \in Doors, NEW f, f = NoForm \/ Draft(f), form' = [form EXCEPT ![d] = f],
         UNCHANGED <<hooks, list, pending>>
  PROVE  HooksInv'
  <1>1. DOMAIN form' = Doors /\ form'[d] = f /\ \A e \in Doors \ {d} : form'[e] = form[e]
    BY DEF HooksInv
  <1>2. \A e \in Doors : IsOpen(e)' => Draft(form'[e])
    BY <1>1 DEF HooksInv, IsOpen
  <1>3. \A e \in Doors : Listed(e)' => AllFit(list'[e].hooks)
    BY DEF HooksInv, Listed
  <1> QED BY <1>1, <1>2, <1>3 DEF HooksInv

LEMMA TypesStep ==
  ASSUME HooksInv, NEW d \in Doors, NEW b \in Boxes, NEW v, Types(d, b, v),
         b = "id" => v \in HookIds, b \in {"job", "lookup", "routes"} => v # Absent
  PROVE  HooksInv'
  <1>1. Draft(form[d])
    BY DEF Types, HooksInv
  <1>2. Draft(Written(form[d], b, v))
    BY <1>1, TypedDraft
  <1> QED BY <1>2, FormStep DEF Types

LEMMA BareStep ==
  ASSUME HooksInv, NEW d \in Doors, Bare(d)
  PROVE  HooksInv'
  <1>1. Draft(Turned(form[d]))
    BY TurnedDraft DEF Bare, HooksInv
  <1> QED BY <1>1, FormStep DEF Bare

-----------------------------------------------------------------------------
(* The requests. *)

LEMMA SendsStep ==
  ASSUME HooksInv, NEW d \in Doors, NEW r, Sends(d, r), Sent(r)
  PROVE  HooksInv'
  BY DEF Sends, HooksInv, IsOpen, Listed, AllFit, Fits, Sent, Puts

LEMMA SaveStep ==
  ASSUME HooksInv, NEW d \in Doors, SaveForm(d)
  PROVE  HooksInv'
  <1> DEFINE f == form[d]
             r == [door |-> d, op |-> "save", path |-> IF f.replacing = New THEN f.id ELSE f.replacing,
                   replacing |-> f.replacing, id |-> f.id, def |-> to_def(f), at |-> f.at, typed |-> f.typed]
  <1>1. Draft(f) /\ f.id # Empty /\ Sends(d, r)
    BY DEF SaveForm, save_webhook, HooksInv
  <1> HIDE DEF f
  <1>2. Fits(to_def(f)) /\ f.id \in HookIds
    BY <1>1, DraftFits DEF Draft
  <1>3. f.replacing # New => Faithful(to_def(f), f.typed, f.at[f.replacing])
    BY <1>1, RoundTrip DEF Draft
  <1>4. Sent(r)
    BY <1>2, <1>3 DEF Sent
  <1> HIDE DEF r
  <1> QED BY <1>1, <1>4, SendsStep

LEMMA FileStep ==
  ASSUME HooksInv, NEW d \in Doors, NEW h \in HookIds, NEW family, File(d, h, family)
  PROVE  HooksInv'
  <1> DEFINE at == list[d].hooks
             def == [at[h] EXCEPT !.family = family]
             r == [door |-> d, op |-> "file", path |-> IF h = New THEN h ELSE h,
                   replacing |-> h, id |-> h, def |-> def, at |-> at, typed |-> {"family"}]
  <1>1. Listed(d) /\ h \in DOMAIN at /\ Sends(d, r)
    BY DEF File, save_webhook
  <1>2. Fits(at[h])
    BY <1>1 DEF HooksInv, AllFit
  <1>3. /\ DOMAIN def = DefFields /\ \A b \in DefFields \ {"family"} : def[b] = at[h][b]
    BY <1>2 DEF Fits, DefFields
  <1> HIDE DEF def
  <1>4. Fits(def) /\ Faithful(def, {"family"}, at[h])
    BY <1>2, <1>3 DEF Fits, Faithful, DefFields
  <1>5. Sent(r)
    BY <1>4 DEF Sent
  <1> HIDE DEF r
  <1> QED BY <1>1, <1>5, SendsStep

LEMMA RemoveStep ==
  ASSUME HooksInv, NEW d \in Doors, NEW h, RemoveHook(d, h)
  PROVE  HooksInv'
  <1> DEFINE r == [door |-> d, op |-> "delete", path |-> h]
  <1>1. Sends(d, r)
    BY DEF RemoveHook
  <1>2. Sent(r)
    BY DEF Sent, Puts
  <1> HIDE DEF r
  <1> QED BY <1>1, <1>2, SendsStep

\* An answer closes the form or leaves it, and takes the request with it.
LEMMA AnswersStep ==
  ASSUME HooksInv, NEW r \in pending, NEW ok, Answers(r, ok), AllFit(hooks')
  PROVE  HooksInv'
  <1>1. pending' = pending \ {r} /\ UNCHANGED list
    BY DEF Answers
  <1>2. DOMAIN form' = Doors /\ \A d \in Doors : form'[d] = form[d] \/ form'[d] = NoForm
    BY DEF Answers, HooksInv
  <1>3. \A d \in Doors : IsOpen(d)' => Draft(form'[d])
    BY <1>2 DEF HooksInv, IsOpen
  <1>4. \A d \in Doors : Listed(d)' => AllFit(list'[d].hooks)
    BY <1>1 DEF HooksInv, Listed
  <1>5. AllFit(hooks)'
    BY DEF AllFit
  <1> QED BY <1>1, <1>2, <1>3, <1>4, <1>5 DEF HooksInv

LEMMA PutStepHooks ==
  ASSUME HooksInv, NEW r \in pending, put_hook(r)
  PROVE  HooksInv'
  <1>1. /\ Puts(r) /\ Answers(r, TRUE)
        /\ hooks' = [h \in (DOMAIN hooks \ {r.path}) \cup {r.id} |-> IF h = r.id THEN r.def ELSE hooks[h]]
    BY DEF put_hook
  <1>2. r.id \in HookIds /\ Fits(r.def)
    BY <1>1 DEF HooksInv, Sent
  <1>3. AllFit(hooks')
    BY <1>1, <1>2 DEF HooksInv, AllFit
  <1> QED BY <1>1, <1>3, AnswersStep

LEMMA LookupsAreFilled == \A v \in Lookups : v # Absent
  BY Zenon DEF Lookups, Absent

LEMMA SignInFills ==
  ASSUME NEW d, FromASignIn(d)
  PROVE  \E v \in Lookups : Types(d, "lookup", v)
  BY Zenon DEF FromASignIn, Lookups

LEMMA HooksInitInv == AnyHooksInit => HooksInv
  <1> SUFFICES ASSUME NEW initial \in SUBSET HookStores, HooksInit(initial) PROVE HooksInv
    BY DEF AnyHooksInit
  <1>1. PICK ids \in SUBSET HookIds : hooks \in [ids -> Def]
    BY DEF HooksInit, HookStores
  <1>2. ASSUME NEW d \in Def PROVE Fits(d)
    BY DEF Def, Defs, Fits, DefFields
  <1>3. AllFit(hooks)
    BY <1>1, <1>2 DEF AllFit
  <1> QED BY <1>3 DEF HooksInit, HooksInv, Listed, IsOpen

LEMMA HooksStepInv == HooksInv /\ [HooksNext]_hookVars => HooksInv'
  <1> SUFFICES ASSUME HooksInv, [HooksNext]_hookVars PROVE HooksInv'
    OBVIOUS
  <1>1. ASSUME NEW d \in Doors, Lists(d) PROVE HooksInv'
    <2>1. DOMAIN list' = Doors /\ \A e \in Doors : list'[e] = list[e] \/ list'[e] = [st |-> "ok", hooks |-> hooks]
      BY <1>1 DEF Lists, HooksInv
    <2>2. \A e \in Doors : Listed(e)' => AllFit(list'[e].hooks)
      BY <2>1 DEF HooksInv, Listed
    <2> QED BY <1>1, <2>1, <2>2 DEF Lists, HooksInv, IsOpen
  <1>2. ASSUME NEW d \in Doors, ListFails(d) PROVE HooksInv'
    <2>1. DOMAIN list' = Doors /\ \A e \in Doors : list'[e] = list[e] \/ list'[e] = [st |-> "err"]
      BY <1>2 DEF ListFails, HooksInv
    <2>2. \A e \in Doors : Listed(e)' => AllFit(list'[e].hooks)
      BY <2>1 DEF HooksInv, Listed
    <2> QED BY <1>2, <2>1, <2>2 DEF ListFails, HooksInv, IsOpen
  <1>3. ASSUME NEW d \in Doors, KindButtons(d) PROVE HooksInv'
    BY <1>3, TypesStep DEF KindButtons, Boxes, DefFields
  <1>4. ASSUME NEW d \in Doors, Identity(d) PROVE HooksInv'
    <2>1. ASSUME NEW h \in HookIds, Types(d, "id", h) PROVE HooksInv'
      BY <2>1, TypesStep DEF Boxes
    <2>2. ASSUME NEW l \in Labels, Types(d, "label", l) PROVE HooksInv'
      BY <2>2, TypesStep DEF Boxes, DefFields
    <2>3. ASSUME NEW f \in Families \cup {Absent}, Types(d, "family", f) PROVE HooksInv'
      BY <2>3, TypesStep DEF Boxes, DefFields
    <2> QED BY <1>4, <2>1, <2>2, <2>3 DEF Identity
  <1>5. ASSUME NEW d \in Doors, LookupBoxes(d) PROVE HooksInv'
    <2>1. PICK v \in Lookups \cup {Empty} : Types(d, "lookup", v)
      BY <1>5 DEF LookupBoxes
    <2>2. v # Absent
      BY <2>1, Strings, LookupsAreFilled
    <2> QED BY <2>1, <2>2, TypesStep DEF Boxes, DefFields
  <1>6. ASSUME NEW d \in Doors, FromASignIn(d) PROVE HooksInv'
    <2>1. PICK v \in Lookups : Types(d, "lookup", v)
      BY <1>6, SignInFills
    <2>2. v # Absent
      BY LookupsAreFilled
    <2> QED BY <2>1, <2>2, TypesStep DEF Boxes, DefFields
  <1>7. ASSUME NEW d \in Doors, RouteRows(d) PROVE HooksInv'
    <2>1. PICK v \in {"routes", Empty} : Types(d, "routes", v)
      BY <1>7 DEF RouteRows
    <2>2. v # Absent
      BY <2>1, Strings DEF Absent
    <2> QED BY <2>1, <2>2, TypesStep DEF Boxes, DefFields
  <1>8. ASSUME NEW d \in Doors, SeenForRoutes(d) PROVE HooksInv'
    BY <1>8, TypesStep DEF SeenForRoutes, Absent, Boxes, DefFields
  <1>9. ASSUME NEW d \in Doors, Signing(d) PROVE HooksInv'
    <2>1. ASSUME NEW p \in SignaturePrefixes \cup {Empty}, Types(d, "prefix", p) PROVE HooksInv'
      BY <2>1, TypesStep DEF Boxes, DefFields
    <2> QED BY <1>9, <2>1, BareStep DEF Signing
  <1>10. ASSUME NEW d \in Doors, CancelForm(d) PROVE HooksInv'
    BY <1>10, FormStep DEF CancelForm, OpenForm
  <1>11. ASSUME NEW d \in Doors, NEW k \in HookKinds, NEW f \in Families \cup {Absent}, Make(d, k, f)
         PROVE  HooksInv'
    BY <1>11, BlankDraft, FormStep DEF Make, OpenForm
  <1>12. ASSUME NEW d \in Doors, NEW h \in HookIds, EditHook(d, h) PROVE HooksInv'
    <2>1. Draft(from_webhook(h, list[d].hooks[h], list[d].hooks))
      BY <1>12, EditDraft DEF EditHook, HooksInv
    <2> QED BY <1>12, <2>1, FormStep DEF EditHook, OpenForm
  <1>13. ASSUME NEW d \in Doors, SaveForm(d) PROVE HooksInv'
    BY <1>13, SaveStep
  <1>14. ASSUME NEW d \in Doors, NEW h \in HookIds, RemoveHook(d, h) PROVE HooksInv'
    BY <1>14, RemoveStep
  <1>15. ASSUME NEW d \in Doors, NEW h \in HookIds, NEW f \in Families, File(d, h, f) PROVE HooksInv'
    BY <1>15, FileStep
  <1>16. ASSUME NEW r \in pending, put_hook(r) PROVE HooksInv'
    BY <1>16, PutStepHooks
  <1>17. ASSUME NEW r \in pending, HookRefused(r) \/ Unanswered(r) PROVE HooksInv'
    <2>1. AllFit(hooks') /\ Answers(r, FALSE)
      BY <1>17 DEF HookRefused, Unanswered, HooksInv
    <2> QED BY <2>1, AnswersStep
  <1>18. ASSUME NEW r \in pending, remove_hook(r) PROVE HooksInv'
    <2>1. hooks' = [h \in DOMAIN hooks \ {r.path} |-> hooks[h]] /\ Answers(r, TRUE)
      BY <1>18 DEF remove_hook
    <2>2. AllFit(hooks')
      BY <2>1 DEF HooksInv, AllFit
    <2> QED BY <2>1, <2>2, AnswersStep
  <1>19. CASE UNCHANGED hookVars
    BY <1>19 DEF hookVars, HooksInv, AllFit, IsOpen, Listed
  <1> QED
    BY <1>1, <1>2, <1>3, <1>4, <1>5, <1>6, <1>7, <1>8, <1>9, <1>10, <1>11, <1>12, <1>13,
       <1>14, <1>15, <1>16, <1>17, <1>18, <1>19 DEF HooksNext

-----------------------------------------------------------------------------
\* What a request that is served leaves of the other hooks, and of the one it
\* replaces.
LEMMA PutKeeps ==
  ASSUME HooksInv, NEW r \in pending, put_hook(r)
  PROVE  /\ \A h \in DOMAIN hooks \ {r.path} : h \in DOMAIN hooks' /\ hooks'[h] = hooks[h]
         /\ r.replacing \in DOMAIN hooks /\ r.replacing \in DOMAIN r.at =>
                \A f \in DOMAIN r.def :
                    \/ hooks'[r.id][f] = hooks[r.replacing][f]
                    \/ f \in r.typed \/ (f \in KindFields /\ "kind" \in r.typed)
                    \/ hooks[r.replacing][f] # r.at[r.replacing][f]
  <1>1. /\ Puts(r) /\ validate_hook(r, r.path \in DOMAIN hooks)
        /\ hooks' = [h \in (DOMAIN hooks \ {r.path}) \cup {r.id} |-> IF h = r.id THEN r.def ELSE hooks[h]]
    BY DEF put_hook
  <1>2. \A h \in DOMAIN hooks \ {r.path} : h # r.id
    BY <1>1 DEF validate_hook
  <1>3. \A h \in DOMAIN hooks \ {r.path} : h \in DOMAIN hooks' /\ hooks'[h] = hooks[h]
    BY <1>1, <1>2
  <1>4. hooks'[r.id] = r.def
    BY <1>1
  <1>5. Sent(r) /\ DOMAIN hooks \subseteq HookIds
    BY DEF HooksInv, AllFit
  <1>6. ASSUME r.replacing \in DOMAIN hooks, NEW f \in DOMAIN r.def
        PROVE  \/ r.def[f] = r.at[r.replacing][f] \/ f \in r.typed
               \/ (f \in KindFields /\ "kind" \in r.typed)
    <2>1. r.replacing # New
      BY <1>5, <1>6, HooksAssumption
    <2> QED BY <1>1, <1>5, <1>6, <2>1 DEF Sent, Faithful, Fits
  <1> QED BY <1>3, <1>4, <1>6

LEMMA ServedTyped ==
  ASSUME HooksInv, [HooksNext]_hookVars, NEW r \in pending \ pending', Puts(r), hooks' # hooks
  PROVE  put_hook(r)
  <1>1. ASSUME NEW q \in pending, put_hook(q) PROVE put_hook(r)
    <2>1. q = r
      BY <1>1 DEF put_hook, Answers
    <2> QED BY <1>1, <2>1
  <1>2. ASSUME NEW q \in pending, remove_hook(q) PROVE FALSE
    <2>1. q = r
      BY <1>2 DEF remove_hook, Answers
    <2> QED BY <1>2, <2>1 DEF remove_hook, Puts
  <1>3. ASSUME NEW q \in pending, HookRefused(q) \/ Unanswered(q) PROVE FALSE
    BY <1>3 DEF HookRefused, Unanswered
  <1>4. CASE UNCHANGED hooks
    BY <1>4
  <1>5. ASSUME NEW d \in Doors, Lists(d) \/ ListFails(d) PROVE UNCHANGED hooks
    BY <1>5 DEF Lists, ListFails
  <1>6. ASSUME NEW d \in Doors, NEW b, NEW v, Types(d, b, v) PROVE UNCHANGED hooks
    BY <1>6 DEF Types
  <1>7. ASSUME NEW d \in Doors, KindButtons(d) \/ Identity(d) \/ LookupBoxes(d) \/ FromASignIn(d)
                                \/ RouteRows(d) \/ SeenForRoutes(d) \/ Signing(d)
        PROVE  UNCHANGED hooks
    <2>1. CASE FromASignIn(d)
      BY <1>6, <2>1, SignInFills
    <2>2. CASE KindButtons(d) \/ Identity(d) \/ LookupBoxes(d)
      BY <1>6, <2>2 DEF KindButtons, Identity, LookupBoxes
    <2>3. CASE RouteRows(d) \/ SeenForRoutes(d) \/ Signing(d)
      BY <1>6, <2>3 DEF RouteRows, SeenForRoutes, Signing, Bare
    <2> QED BY <1>7, <2>1, <2>2, <2>3
  <1>8. ASSUME NEW d \in Doors, CancelForm(d) PROVE UNCHANGED hooks
    BY <1>8 DEF CancelForm, OpenForm
  <1>9. ASSUME NEW d \in Doors, NEW h, SaveForm(d) \/ RemoveHook(d, h) \/ EditHook(d, h) PROVE UNCHANGED hooks
    BY <1>9 DEF SaveForm, save_webhook, Sends, RemoveHook, EditHook, OpenForm
  <1>10. ASSUME NEW d \in Doors, NEW h, NEW f, File(d, h, f) \/ Make(d, h, f) PROVE UNCHANGED hooks
    BY <1>10 DEF File, save_webhook, Sends, Make, OpenForm
  <1>11. CASE UNCHANGED hookVars
    BY <1>11 DEF hookVars
  <1> QED
    BY <1>1, <1>2, <1>3, <1>4, <1>5, <1>7, <1>8, <1>9, <1>10, <1>11 DEF HooksNext

\* A definition goes to the boxes of a form and comes back, by either door,
\* while the store changes behind it: a save changes only what was typed, and
\* no other hook (fe/src/components/webhooks.rs, be/src/webhooks.ts).
THEOREM SavesChangeWhatWasTyped == HooksSpec => OnlyWhatWasTyped
  <1> DEFINE Kept == \A r \in pending \ pending' : Puts(r) /\ hooks' # hooks =>
        /\ \A h \in DOMAIN hooks \ {r.path} : h \in DOMAIN hooks' /\ hooks'[h] = hooks[h]
        /\ r.replacing \in DOMAIN hooks /\ r.replacing \in DOMAIN r.at =>
            \A f \in DOMAIN r.def :
                \/ hooks'[r.id][f] = hooks[r.replacing][f]
                \/ f \in r.typed \/ (f \in KindFields /\ "kind" \in r.typed)
                \/ hooks[r.replacing][f] # r.at[r.replacing][f]
  <1>1. HooksInv /\ [HooksNext]_hookVars => Kept
    BY ServedTyped, PutKeeps
  <1>2. AnyHooksInit => HooksInv
    BY HooksInitInv
  <1>3. HooksInv /\ [HooksNext]_hookVars => HooksInv'
    BY HooksStepInv
  <1> QED
    BY <1>1, <1>2, <1>3, PTL DEF HooksSpec, OnlyWhatWasTyped

-----------------------------------------------------------------------------
(* The lists: Config -> Watching shows what is kept.                       *)

\* From any store of records.
AnyListInit == \E stored : \E lists \in SUBSET {"pages", "rules"} : ListInit(lists, stored)
ListSpec == AnyListInit /\ [][ListNext]_listVars

IsSeq(q) == \E S : q \in Seq(S)
RequestFields == {"op", "id", "from", "e", "st"}

\* There is one fetch at most, as there is one resource; and the requests are
\* requests.
ListShapes ==
    /\ IsSeq(reads) /\ (whose = "pages" => Len(reads) <= 1)
    /\ IsSeq(wire) /\ \A k \in DOMAIN wire : DOMAIN wire[k] = RequestFields

\* An answer that is to be made up after all that this page has changed.
ToBeRead ==
    \/ \E k \in DOMAIN reads : reads[k].st = "asked"
    \/ \E k \in DOMAIN wire : wire[k].st = "ok" /\ wire[k].from # "gone"

\* As long as nobody else changed anything unheard of, the latest answer is
\* what the store holds, or there is one to come.
UpToDate ==
    \/ untold \/ ToBeRead
    \/ IF reads # <<>> THEN \A k \in DOMAIN reads : reads[k].got = kept
                       ELSE IsList(listed) => listed = kept

ListInv == ListShapes /\ (whose = "pages" => UpToDate)

-----------------------------------------------------------------------------
LEMMA SeqFacts ==
  ASSUME NEW q, IsSeq(q)
  PROVE  Len(q) \in Nat /\ DOMAIN q = 1..Len(q) /\ (q = <<>> <=> Len(q) = 0)
  BY DEF IsSeq

\* A function on the places of a sequence is one.
LEMMA SeqOfPlaces ==
  ASSUME NEW n \in Nat, NEW f, f = [i \in 1..n |-> f[i]]
  PROVE  IsSeq(f) /\ Len(f) = n
  <1>1. f \in [1..n -> Range(f)]
    BY DEF Range
  <1>2. f \in Seq(Range(f))
    BY <1>1, SeqDef
  <1>3. Len(f) \in Nat /\ DOMAIN f = 1..Len(f)
    BY <1>2
  <1>4. DOMAIN f = 1..n
    BY <1>1
  <1>5. Len(f) = n
    BY <1>3, <1>4
  <1> QED BY <1>2, <1>5 DEF IsSeq

LEMMA OneMoreInSeq ==
  ASSUME NEW q, IsSeq(q), NEW x
  PROVE  /\ IsSeq(Append(q, x)) /\ Len(Append(q, x)) = Len(q) + 1
         /\ \A i \in DOMAIN q : i \in DOMAIN Append(q, x) /\ Append(q, x)[i] = q[i]
         /\ \A i \in DOMAIN Append(q, x) : i \in DOMAIN q \/ Append(q, x)[i] = x
  <1>0. PICK T : q \in Seq(T)
    BY DEF IsSeq
  <1> DEFINE S == T \cup {x}
  <1>1. q \in Seq(S)
    BY <1>0, SeqMonotonic
  <1>2. x \in S
    OBVIOUS
  <1> HIDE DEF S
  <1> DEFINE p == Append(q, x)
  <1>3. /\ p \in Seq(S) /\ Len(p) = Len(q) + 1 /\ Len(q) \in Nat
        /\ \A i \in 1..Len(q) : p[i] = q[i]
        /\ p[Len(q) + 1] = x
    BY <1>1, <1>2, AppendProperties, LenProperties
  <1> HIDE DEF p
  <1>4. DOMAIN p = 1..Len(q) + 1 /\ DOMAIN q = 1..Len(q)
    BY <1>1, <1>3, LenProperties
  <1>5. IsSeq(p)
    BY <1>3 DEF IsSeq
  <1>6. \A i \in DOMAIN p : i \in DOMAIN q \/ p[i] = x
    BY <1>3, <1>4
  <1>7. \A i \in DOMAIN q : i \in DOMAIN p /\ p[i] = q[i]
    BY <1>3, <1>4
  <1> QED BY <1>3, <1>5, <1>6, <1>7 DEF p

\* One place fewer: what was elsewhere is still there, and nothing else is.
LEMMA OneFewerInSeq ==
  ASSUME NEW q, IsSeq(q), NEW k \in DOMAIN q
  PROVE  /\ IsSeq(RemoveAt(q, k)) /\ Len(RemoveAt(q, k)) = Len(q) - 1
         /\ \A i \in DOMAIN q \ {k} : \E j \in DOMAIN RemoveAt(q, k) : RemoveAt(q, k)[j] = q[i]
         /\ \A j \in DOMAIN RemoveAt(q, k) : \E i \in DOMAIN q : RemoveAt(q, k)[j] = q[i]
  <1>0. PICK S : q \in Seq(S)
    BY DEF IsSeq
  <1> DEFINE a == SubSeq(q, 1, k - 1)
             b == SubSeq(q, k + 1, Len(q))
             p == RemoveAt(q, k)
  <1>1. q \in Seq(S) /\ Len(q) \in Nat /\ DOMAIN q = 1..Len(q) /\ k \in 1..Len(q)
    BY <1>0, LenProperties
  <1>2. \A i \in 1..Len(q) : q[i] \in S
    BY <1>1, ElementOfSeq
  <1>3. a \in Seq(S) /\ Len(a) = k - 1 /\ \A i \in 1..k - 1 : a[i] = q[i]
    <2>1. 1 \in Int /\ k - 1 \in Int /\ \A i \in 1..k - 1 : q[i] \in S
      BY <1>1, <1>2
    <2>2. /\ a \in Seq(S) /\ Len(a) = (IF 1 <= k - 1 THEN k - 1 - 1 + 1 ELSE 0)
          /\ \A i \in 1..k - 1 - 1 + 1 : a[i] = q[1 + i - 1]
      BY <2>1, SubSeqProperties
    <2> HIDE DEF a
    <2> QED BY <1>1, <2>2
  <1>4. b \in Seq(S) /\ Len(b) = Len(q) - k /\ \A i \in 1..Len(q) - k : b[i] = q[k + i]
    <2>1. k + 1 \in Int /\ Len(q) \in Int /\ \A i \in k + 1..Len(q) : q[i] \in S
      BY <1>1, <1>2
    <2>2. /\ b \in Seq(S) /\ Len(b) = (IF k + 1 <= Len(q) THEN Len(q) - (k + 1) + 1 ELSE 0)
          /\ \A i \in 1..Len(q) - (k + 1) + 1 : b[i] = q[k + 1 + i - 1]
      BY <2>1, SubSeqProperties
    <2> HIDE DEF b
    <2>3. Len(b) = Len(q) - k
      <3> DEFINE n == Len(q)
      <3>1. Len(b) = IF k + 1 <= n THEN n - (k + 1) + 1 ELSE 0
        BY <2>2
      <3>2. n \in Nat /\ k \in 1..n
        BY <1>1
      <3> HIDE DEF n
      <3>3. (IF k + 1 <= n THEN n - (k + 1) + 1 ELSE 0) = n - k
        BY <3>2
      <3> QED BY <3>1, <3>3 DEF n
    <2>4. Len(q) - (k + 1) + 1 = Len(q) - k /\ \A i \in 1..Len(q) - k : k + 1 + i - 1 = k + i
      BY <1>1
    <2> QED BY <2>2, <2>3, <2>4
  <1> HIDE DEF a, b
  <1>5. p = a \o b
    BY DEF RemoveAt, a, b
  <1> HIDE DEF p
  <1>6. /\ p \in Seq(S) /\ Len(p) = Len(q) - 1
        /\ \A i \in 1..Len(q) - 1 : p[i] = IF i <= k - 1 THEN a[i] ELSE b[i - (k - 1)]
    <2>1. a \in Seq(S) /\ b \in Seq(S)
      BY <1>3, <1>4
    <2>2. /\ p \in Seq(S) /\ Len(p) = Len(a) + Len(b)
          /\ \A i \in 1..Len(a) + Len(b) : p[i] = IF i <= Len(a) THEN a[i] ELSE b[i - Len(a)]
      BY <1>5, <2>1, ConcatProperties
    <2>3. Len(a) + Len(b) = Len(q) - 1
      BY <1>1, <1>3, <1>4
    <2> QED BY <1>3, <2>2, <2>3
  <1>7. \A i \in 1..Len(q) - 1 : p[i] = IF i < k THEN q[i] ELSE q[i + 1]
    <2> SUFFICES ASSUME NEW i \in 1..Len(q) - 1 PROVE p[i] = IF i < k THEN q[i] ELSE q[i + 1]
      OBVIOUS
    <2>1. CASE i < k
      BY <1>1, <1>3, <1>6, <2>1
    <2>2. CASE ~(i < k)
      <3>1. i - (k - 1) \in 1..Len(q) - k /\ k + (i - (k - 1)) = i + 1 /\ ~(i <= k - 1)
        BY <1>1, <2>2
      <3> QED BY <1>4, <1>6, <2>2, <3>1
    <2> QED BY <2>1, <2>2
  <1>8. DOMAIN p = 1..Len(q) - 1
    BY <1>1, <1>6, LenProperties
  <1>9. ASSUME NEW i \in DOMAIN q \ {k} PROVE \E j \in DOMAIN p : p[j] = q[i]
    <2>1. CASE i < k
      BY <1>1, <1>7, <1>8, <2>1
    <2>2. CASE ~(i < k)
      <3>1. i - 1 \in DOMAIN p /\ ~(i - 1 < k) /\ (i - 1) + 1 = i
        BY <1>1, <1>8, <2>2
      <3> QED BY <1>7, <1>8, <3>1
    <2> QED BY <2>1, <2>2
  <1>10. ASSUME NEW j \in DOMAIN p PROVE \E i \in DOMAIN q : p[j] = q[i]
    <2>1. j \in DOMAIN q /\ j + 1 \in DOMAIN q
      BY <1>1, <1>8
    <2> QED BY <1>7, <1>8, <2>1
  <1>11. IsSeq(p)
    BY <1>6 DEF IsSeq
  <1> QED BY <1>6, <1>9, <1>10, <1>11 DEF p

LEMMA SmallSeqs == IsSeq(<<>>) /\ \A x : IsSeq(<<x>>) /\ Len(<<x>>) = 1
  <1>1. <<>> \in Seq({})
    OBVIOUS
  <1>2. ASSUME NEW x PROVE IsSeq(<<x>>) /\ Len(<<x>>) = 1
    <2>1. <<x>> \in Seq({x}) /\ Len(<<x>>) = 1
      OBVIOUS
    <2> QED BY <2>1 DEF IsSeq
  <1> QED BY <1>1, <1>2 DEF IsSeq

-----------------------------------------------------------------------------
(* What the steps have in common. *)

RequestShapes == IsSeq(wire) /\ \A k \in DOMAIN wire : DOMAIN wire[k] = RequestFields

\* Every answer that is to be heard still is, or nobody will hear of it and
\* that is known.
Heeded == \A k \in DOMAIN wire : wire[k].st = "ok" /\ wire[k].from # "gone" =>
            untold' \/ \E j \in DOMAIN wire' : wire'[j].st = "ok" /\ wire'[j].from # "gone"

\* Nothing happens to the store, the list or the fetch.
LEMMA WireStep ==
  ASSUME ListInv, UNCHANGED <<whose, kept, listed, reads>>, untold => untold', RequestShapes', Heeded
  PROVE  ListInv'
  <1>1. ListShapes'
    BY DEF ListInv, ListShapes, RequestShapes
  <1>2. ASSUME whose = "pages" PROVE UpToDate'
    <2>1. UpToDate
      BY <1>2 DEF ListInv
    <2>2. ToBeRead => untold' \/ ToBeRead'
      BY DEF ToBeRead, Heeded
    <2> QED BY <2>1, <2>2 DEF UpToDate
  <1> QED BY <1>1, <1>2 DEF ListInv

\* Some of the requests are left by those who sent them.
LEMMA OrphansLeft ==
  ASSUME RequestShapes, NEW G,
         wire' = [k \in DOMAIN wire |-> IF k \in G THEN [wire[k] EXCEPT !.from = "gone"] ELSE wire[k]],
         untold' = (untold \/ \E k \in DOMAIN wire : k \in G /\ wire[k].st = "ok")
  PROVE  RequestShapes' /\ Heeded /\ (untold => untold')
  <1>1. Len(wire) \in Nat /\ DOMAIN wire = 1..Len(wire)
    BY SeqFacts DEF RequestShapes
  <1>2. DOMAIN wire' = 1..Len(wire) /\ wire' = [k \in 1..Len(wire) |-> wire'[k]]
    BY <1>1
  <1>3. IsSeq(wire')
    BY <1>1, <1>2, SeqOfPlaces
  <1>4. ASSUME NEW k \in DOMAIN wire PROVE DOMAIN wire'[k] = RequestFields
    BY <1>4 DEF RequestShapes
  <1>5. RequestShapes'
    BY <1>1, <1>2, <1>3, <1>4 DEF RequestShapes
  <1>6. Heeded
    BY DEF Heeded
  <1> QED BY <1>5, <1>6

\* A request is sent.
LEMMA SendsWire ==
  ASSUME RequestShapes, NEW op, NEW id, NEW from, NEW e, SendsRecord(op, id, from, e)
  PROVE  RequestShapes' /\ Heeded /\ UNCHANGED untold
  <1> DEFINE r == [op |-> op, id |-> id, from |-> from, e |-> e, st |-> "asked"]
  <1>1. wire' = Append(wire, r) /\ UNCHANGED untold
    BY DEF SendsRecord
  <1>2. DOMAIN r = RequestFields
    BY DEF RequestFields
  <1> HIDE DEF r
  <1>3. /\ IsSeq(wire')
        /\ \A i \in DOMAIN wire : i \in DOMAIN wire' /\ wire'[i] = wire[i]
        /\ \A i \in DOMAIN wire' : i \in DOMAIN wire \/ wire'[i] = r
    BY <1>1, OneMoreInSeq DEF RequestShapes
  <1> QED BY <1>1, <1>2, <1>3 DEF RequestShapes, Heeded

\* A request is served, or refused.
LEMMA BecomesWire ==
  ASSUME RequestShapes, NEW k \in DOMAIN wire, IsAsked(k), NEW st, Becomes(k, st)
  PROVE  /\ RequestShapes' /\ Heeded
         /\ k \in DOMAIN wire' /\ wire'[k].st = st /\ wire'[k].from = wire[k].from
  <1>1. Len(wire) \in Nat /\ DOMAIN wire = 1..Len(wire)
    BY SeqFacts DEF RequestShapes
  <1>2. wire' = [wire EXCEPT ![k].st = st]
    BY DEF Becomes
  <1>3. DOMAIN wire' = 1..Len(wire) /\ wire' = [i \in 1..Len(wire) |-> wire'[i]]
    BY <1>1, <1>2
  <1>4. IsSeq(wire')
    BY <1>1, <1>3, SeqOfPlaces
  <1>5. wire'[k] = [wire[k] EXCEPT !.st = st] /\ \A i \in DOMAIN wire \ {k} : wire'[i] = wire[i]
    BY <1>2
  <1>6. DOMAIN wire[k] = RequestFields
    BY DEF RequestShapes
  <1>7. DOMAIN wire'[k] = RequestFields /\ wire'[k].st = st /\ wire'[k].from = wire[k].from
    BY <1>5, <1>6 DEF RequestFields
  <1>8. RequestShapes'
    BY <1>1, <1>3, <1>4, <1>5, <1>7 DEF RequestShapes
  <1>9. Heeded
    BY <1>1, <1>3, <1>5 DEF Heeded, IsAsked
  <1> QED BY <1>1, <1>3, <1>7, <1>8, <1>9

-----------------------------------------------------------------------------
(* The fetches. *)

LEMMA OneRead ==
  ASSUME ListInv, whose = "pages", NEW k \in DOMAIN reads
  PROVE  k = 1 /\ DOMAIN reads = {1} /\ reads # <<>>
  <1>1. IsSeq(reads) /\ Len(reads) <= 1
    BY DEF ListInv, ListShapes
  <1>2. Len(reads) \in Nat /\ DOMAIN reads = 1..Len(reads) /\ (reads = <<>> <=> Len(reads) = 0)
    BY <1>1, SeqFacts
  <1>3. Len(reads) = 1
    BY <1>1, <1>2
  <1> QED BY <1>2, <1>3

\* A fetch is answered.
LEMMA GetListStep ==
  ASSUME ListInv, NEW k \in DOMAIN reads, GetList(k)
  PROVE  ListInv'
  <1>1. /\ reads' = [reads EXCEPT ![k] = [st |-> "answered", got |-> kept]]
        /\ UNCHANGED <<whose, kept, wire>>
    BY DEF GetList
  <1>2. Len(reads) \in Nat /\ DOMAIN reads = 1..Len(reads)
    BY SeqFacts DEF ListInv, ListShapes
  <1>3. DOMAIN reads' = 1..Len(reads) /\ reads' = [i \in 1..Len(reads) |-> reads'[i]]
    BY <1>1, <1>2
  <1>4. IsSeq(reads') /\ Len(reads') = Len(reads)
    BY <1>2, <1>3, SeqOfPlaces
  <1>5. ListShapes'
    BY <1>1, <1>4 DEF ListInv, ListShapes
  <1>6. ASSUME whose = "pages" PROVE UpToDate'
    <2>1. k = 1 /\ DOMAIN reads = {1}
      BY <1>6, OneRead
    <2>2. DOMAIN reads' = {1} /\ reads'[1].got = kept
      BY <1>1, <2>1
    <2>3. reads' # <<>>
      BY <2>2
    <2> QED BY <1>1, <2>2, <2>3 DEF UpToDate
  <1> QED BY <1>1, <1>5, <1>6 DEF ListInv

\* The fetch that is over leaves none, on Config -> Watching.
LEMMA NoReadLeft ==
  ASSUME ListInv, NEW k \in DOMAIN reads, reads' = RemoveAt(reads, k)
  PROVE  /\ IsSeq(reads') /\ (whose = "pages" => Len(reads') <= 1)
         /\ whose = "pages" => reads' = <<>> /\ DOMAIN reads' = {}
  <1>1. IsSeq(reads') /\ Len(reads') = Len(reads) - 1
    BY OneFewerInSeq DEF ListInv, ListShapes
  <1>2. Len(reads) \in Nat /\ Len(reads') \in Nat /\ DOMAIN reads' = 1..Len(reads')
        /\ (reads' = <<>> <=> Len(reads') = 0)
    BY <1>1, SeqFacts DEF ListInv, ListShapes
  <1>3. whose = "pages" => Len(reads') = 0
    BY <1>1, <1>2 DEF ListInv, ListShapes
  <1>4. whose = "pages" => reads' = <<>> /\ DOMAIN reads' = {}
    BY <1>2, <1>3
  <1>5. whose = "pages" => Len(reads') <= 1
    BY <1>3
  <1> QED BY <1>1, <1>4, <1>5

LEMMA ListArrivesStep ==
  ASSUME ListInv, NEW k \in DOMAIN reads, ListArrives(k)
  PROVE  ListInv'
  <1> DEFINE G == {i \in DOMAIN wire : wire[i].from \in {"row", "edit"} /\ wire[i].id \notin DOMAIN listed'}
  <1>1. /\ reads[k].st = "answered" /\ reads' = RemoveAt(reads, k) /\ listed' = reads[k].got
        /\ UNCHANGED <<whose, kept>>
    BY DEF ListArrives
  <1>2. /\ wire' = [i \in DOMAIN wire |-> IF i \in G THEN [wire[i] EXCEPT !.from = "gone"] ELSE wire[i]]
        /\ untold' = (untold \/ \E i \in DOMAIN wire : i \in G /\ wire[i].st = "ok")
    BY DEF ListArrives, Orphans
  <1> HIDE DEF G
  <1>3. RequestShapes' /\ Heeded /\ (untold => untold')
    BY <1>2, OrphansLeft DEF ListInv, ListShapes, RequestShapes
  <1>4. ListShapes'
    BY <1>1, <1>3, NoReadLeft DEF ListShapes, RequestShapes
  <1>5. ASSUME whose = "pages" PROVE UpToDate'
    <2>1. k = 1 /\ DOMAIN reads = {1} /\ reads # <<>>
      BY <1>5, OneRead
    <2>2. reads' = <<>>
      BY <1>1, <1>5, NoReadLeft
    <2>3. UpToDate
      BY <1>5 DEF ListInv
    <2>4. CASE untold
      BY <1>3, <2>4 DEF UpToDate
    <2>5. CASE ToBeRead
      BY <1>1, <1>3, <2>1, <2>5 DEF ToBeRead, Heeded, UpToDate
    <2>6. CASE \A i \in DOMAIN reads : reads[i].got = kept
      BY <1>1, <2>1, <2>2, <2>6 DEF UpToDate
    <2> QED BY <2>1, <2>3, <2>4, <2>5, <2>6 DEF UpToDate
  <1> QED BY <1>1, <1>4, <1>5 DEF ListInv

\* There is nothing on the page, and the next list will be the store's.
LEMMA EmptiedStep ==
  ASSUME ListInv, Emptied, IsSeq(reads'), whose = "pages" => Len(reads') <= 1,
         whose = "pages" => reads' = <<>> \/ \E k \in DOMAIN reads' : reads'[k].st = "asked"
  PROVE  ListInv'
  <1> DEFINE G == DOMAIN wire
  <1>1. listed' = NotListed /\ UNCHANGED <<whose, kept>>
    BY DEF Emptied
  <1>2. /\ wire' = [i \in DOMAIN wire |-> IF i \in G THEN [wire[i] EXCEPT !.from = "gone"] ELSE wire[i]]
        /\ untold' = (untold \/ \E i \in DOMAIN wire : i \in G /\ wire[i].st = "ok")
    BY DEF Emptied, Orphans
  <1> HIDE DEF G
  <1>3. RequestShapes'
    BY <1>2, OrphansLeft DEF ListInv, ListShapes, RequestShapes
  <1>4. ListShapes'
    BY <1>1, <1>3 DEF ListShapes, RequestShapes
  <1>5. ASSUME whose = "pages" PROVE UpToDate'
    BY <1>1, <1>5 DEF UpToDate, ToBeRead, IsList
  <1> QED BY <1>1, <1>4, <1>5 DEF ListInv

LEMMA AskedAnew ==
  /\ IsSeq(<<[st |-> "asked"]>>) /\ Len(<<[st |-> "asked"]>>) = 1
  /\ \E k \in DOMAIN <<[st |-> "asked"]>> : <<[st |-> "asked"]>>[k].st = "asked"
  <1> DEFINE r == [st |-> "asked"]
  <1>1. r.st = "asked"
    OBVIOUS
  <1> HIDE DEF r
  <1>2. IsSeq(<<r>>) /\ Len(<<r>>) = 1
    BY SmallSeqs
  <1>3. 1 \in DOMAIN <<r>> /\ <<r>>[1] = r
    OBVIOUS
  <1>4. \E k \in DOMAIN <<r>> : <<r>>[k].st = "asked"
    BY <1>1, <1>3
  <1> QED BY <1>2, <1>4 DEF r

LEMMA PageEmptied ==
  ASSUME ListInv, ComesAgain \/ \E k \in DOMAIN reads : GetListFails(k)
  PROVE  ListInv'
  <1>1. CASE ComesAgain
    <2>1. Emptied /\ reads' = <<[st |-> "asked"]>>
      BY <1>1 DEF ComesAgain
    <2> QED BY <2>1, AskedAnew, EmptiedStep
  <1>2. ASSUME NEW k \in DOMAIN reads, GetListFails(k) PROVE ListInv'
    <2>1. Emptied /\ reads' = RemoveAt(reads, k)
      BY <1>2 DEF GetListFails
    <2> QED BY <2>1, NoReadLeft, EmptiedStep
  <1> QED BY <1>1, <1>2

-----------------------------------------------------------------------------
(* The requests, and what the user does. *)

LEMMA WireShapes == ListInv => RequestShapes
  BY DEF ListInv, ListShapes, RequestShapes

\* The store changes.
LEMMA DoesStep ==
  ASSUME ListInv, NEW k \in DOMAIN wire, IsAsked(k), NEW l, Does(k, l), UnservedRest
  PROVE  ListInv'
  <1>1. /\ RequestShapes' /\ k \in DOMAIN wire' /\ wire'[k].st = "ok" /\ wire'[k].from = wire[k].from
    BY WireShapes, BecomesWire DEF Does
  <1>2. UNCHANGED <<whose, reads, listed>> /\ (wire[k].from = "gone" => untold')
    BY DEF Does, UnservedRest, listPage
  <1>3. ListShapes'
    BY <1>1, <1>2 DEF ListInv, ListShapes, RequestShapes
  <1>4. UpToDate'
    BY <1>1, <1>2 DEF UpToDate, ToBeRead
  <1> QED BY <1>2, <1>3, <1>4 DEF ListInv

LEMMA RecordStep ==
  ASSUME ListInv, NEW k \in DOMAIN wire, PutRecord(k) \/ DeleteRecord(k)
  PROVE  ListInv'
  <1>1. CASE PutRecord(k)
    <2>1. PICK id : Does(k, Put(id, wire[k].e))
      BY <1>1 DEF PutRecord
    <2> QED BY <1>1, <2>1, DoesStep DEF PutRecord, CanPut
  <1>2. CASE DeleteRecord(k)
    BY <1>2, DoesStep DEF DeleteRecord, CanDelete
  <1> QED BY <1>1, <1>2

LEMMA FailureStep ==
  ASSUME ListInv, NEW k \in DOMAIN wire, RecordRefused(k) \/ RecordFails(k)
  PROVE  ListInv'
  <1>1. RequestShapes' /\ Heeded
    BY WireShapes, BecomesWire DEF RecordRefused, RecordFails
  <1>2. UNCHANGED <<whose, reads, listed>>
    BY DEF RecordRefused, RecordFails, UnservedRest, listPage
  <1>3. UNCHANGED <<kept, untold>> \/ untold' = TRUE
    BY DEF RecordRefused, RecordFails
  <1>4. CASE UNCHANGED <<kept, untold>>
    BY <1>1, <1>2, <1>4, WireStep
  <1>5. CASE untold' = TRUE
    BY <1>1, <1>2, <1>5 DEF ListInv, ListShapes, RequestShapes, UpToDate
  <1> QED BY <1>3, <1>4, <1>5

\* An answer that brought a change has the list fetched again.
LEMMA HearsStep ==
  ASSUME ListInv, NEW k \in DOMAIN wire, Hears(k)
  PROVE  ListInv'
  <1> DEFINE told == wire[k].st = "ok" /\ wire[k].from # "gone"
  <1>1. /\ wire' = RemoveAt(wire, k) /\ UNCHANGED <<whose, kept, listed, untold>>
        /\ IF told THEN Refetch ELSE UNCHANGED reads
    BY DEF Hears
  <1>2. /\ IsSeq(wire')
        /\ \A i \in DOMAIN wire \ {k} : \E j \in DOMAIN wire' : wire'[j] = wire[i]
        /\ \A j \in DOMAIN wire' : \E i \in DOMAIN wire : wire'[j] = wire[i]
    BY <1>1, WireShapes, OneFewerInSeq DEF RequestShapes
  <1>3. RequestShapes'
    BY <1>2, WireShapes DEF RequestShapes
  <1>4. CASE told
    <2>1. CASE whose = "pages" /\ reads' = <<[st |-> "asked"]>>
      <3>1. IsSeq(reads') /\ Len(reads') = 1 /\ \E i \in DOMAIN reads' : reads'[i].st = "asked"
        BY <2>1, AskedAnew
      <3> QED BY <1>1, <1>3, <2>1, <3>1 DEF ListInv, ListShapes, RequestShapes, UpToDate,
                 ToBeRead
    <2>2. CASE whose = "rules" /\ reads' = Append(reads, [st |-> "asked"])
      <3>1. IsSeq(reads')
        BY <2>2, OneMoreInSeq DEF ListInv, ListShapes
      <3>2. whose' # "pages"
        BY <1>1, <2>2
      <3> QED BY <1>3, <3>1, <3>2 DEF ListInv, ListShapes, RequestShapes
    <2> QED BY <1>1, <1>4, <2>1, <2>2 DEF Refetch
  <1>5. CASE ~told
    <2>1. Heeded
      BY <1>2, <1>5 DEF Heeded
    <2> QED BY <1>1, <1>3, <1>5, <2>1, WireStep
  <1> QED BY <1>4, <1>5

\* A request is sent, and what else the user does at a row or at a form.
LEMMA SendsStepList ==
  ASSUME ListInv, NEW op, NEW id, NEW from, NEW e, SendsRecord(op, id, from, e),
         UNCHANGED <<whose, kept, listed, reads>>
  PROVE  ListInv'
  BY WireShapes, SendsWire, WireStep

LEMMA QuietStep ==
  ASSUME ListInv, UNCHANGED <<whose, kept, listed, reads, wire, untold>>
  PROVE  ListInv'
  <1>1. RequestShapes' /\ Heeded
    BY WireShapes DEF RequestShapes, Heeded
  <1> QED BY <1>1, WireStep

LEMMA EditStep ==
  ASSUME ListInv, NEW id, EditRecord(id)
  PROVE  ListInv'
  <1> DEFINE G == {i \in DOMAIN wire : cards[id].edit.open /\ wire[i].from = "edit" /\ wire[i].id = id}
  <1>1. /\ wire' = [i \in DOMAIN wire |-> IF i \in G THEN [wire[i] EXCEPT !.from = "gone"] ELSE wire[i]]
        /\ untold' = (untold \/ \E i \in DOMAIN wire : i \in G /\ wire[i].st = "ok")
    BY DEF EditRecord, Orphans
  <1> HIDE DEF G
  <1>2. RequestShapes' /\ Heeded /\ (untold => untold')
    BY <1>1, WireShapes, OrphansLeft
  <1>3. UNCHANGED <<whose, kept, listed, reads>>
    BY DEF EditRecord
  <1> QED BY <1>2, <1>3, WireStep

LEMMA RowStep ==
  ASSUME ListInv, NEW id,
         Toggle(id) \/ AskRemove(id) \/ RemoveRecord(id) \/ SaveRecord(id) \/ \E text : TypesIn(id, text)
  PROVE  ListInv'
  <1>1. CASE Toggle(id)
    BY <1>1, SendsStepList DEF Toggle
  <1>2. CASE AskRemove(id)
    BY <1>2, QuietStep DEF AskRemove
  <1>3. CASE RemoveRecord(id)
    BY <1>3, SendsStepList DEF RemoveRecord
  <1>4. CASE SaveRecord(id)
    BY <1>4, SendsStepList DEF SaveRecord
  <1>5. ASSUME NEW text, TypesIn(id, text) PROVE ListInv'
    BY <1>5, QuietStep DEF TypesIn
  <1> QED BY <1>1, <1>2, <1>3, <1>4, <1>5

LEMMA ListInitInv == AnyListInit => ListInv
  <1> SUFFICES ASSUME NEW stored, NEW lists \in SUBSET {"pages", "rules"}, ListInit(lists, stored)
               PROVE  ListInv
    BY DEF AnyListInit
  <1>1. wire = <<>> /\ reads = <<[st |-> "asked"]>>
    BY DEF ListInit
  <1>2. IsSeq(wire) /\ DOMAIN wire = {}
    BY <1>1, SmallSeqs
  <1>3. IsSeq(reads) /\ Len(reads) = 1 /\ \E k \in DOMAIN reads : reads[k].st = "asked"
    BY <1>1, AskedAnew
  <1> QED BY <1>2, <1>3 DEF ListInv, ListShapes, UpToDate, ToBeRead

LEMMA ListStepInv == ListInv /\ [ListNext]_listVars => ListInv'
  <1> SUFFICES ASSUME ListInv, [ListNext]_listVars PROVE ListInv'
    OBVIOUS
  <1>1. ASSUME NEW k \in DOMAIN reads, GetList(k) PROVE ListInv'
    BY <1>1, GetListStep
  <1>2. ASSUME NEW k \in DOMAIN reads, ListArrives(k) PROVE ListInv'
    BY <1>2, ListArrivesStep
  <1>3. ASSUME NEW k \in DOMAIN reads, GetListFails(k) PROVE ListInv'
    BY <1>3, PageEmptied
  <1>4. CASE ComesAgain
    BY <1>4, PageEmptied
  <1>5. ASSUME NEW id, Toggle(id) \/ AskRemove(id) \/ RemoveRecord(id) \/ SaveRecord(id)
                         \/ \E text : TypesIn(id, text)
        PROVE  ListInv'
    BY <1>5, RowStep
  <1>6. ASSUME NEW id, EditRecord(id) PROVE ListInv'
    BY <1>6, EditStep
  <1>7. ASSUME NEW text, TypesNew(text) PROVE ListInv'
    BY <1>7, QuietStep DEF TypesNew
  <1>8. CASE AddRecord
    BY <1>8, SendsStepList DEF AddRecord
  <1>9. ASSUME NEW k \in DOMAIN wire, PutRecord(k) \/ DeleteRecord(k) PROVE ListInv'
    BY <1>9, RecordStep
  <1>10. ASSUME NEW k \in DOMAIN wire, RecordRefused(k) \/ RecordFails(k) PROVE ListInv'
    BY <1>10, FailureStep
  <1>11. ASSUME NEW k \in DOMAIN wire, Hears(k) PROVE ListInv'
    BY <1>11, HearsStep
  <1>12. CASE InAnotherTab
    <2>1. untold' = TRUE /\ UNCHANGED <<whose, listed, reads, wire>>
      BY <1>12 DEF InAnotherTab, listPage
    <2> QED BY <2>1 DEF ListInv, ListShapes, UpToDate
  <1>13. CASE UNCHANGED listVars
    BY <1>13, QuietStep DEF listVars
  <1> QED
    BY <1>1, <1>2, <1>3, <1>4, <1>5, <1>6, <1>7, <1>8, <1>9, <1>10, <1>11, <1>12,
       <1>13 DEF ListNext

\* Whatever the records are, however many requests are under way and in
\* whatever order they are answered: once there is nothing under way,
\* Config -> Watching shows what is kept, unless somebody else changed it or
\* the row that asked went before its answer (fe/src/pages/config_watching.rs).
THEOREM WatchingShowsTheStore == ListSpec => []ListIsTheStores
  <1>1. ListInv => ListIsTheStores
    <2> SUFFICES ASSUME ListInv, whose = "pages", wire = <<>>, reads = <<>>, IsList(listed), ~untold
                 PROVE  listed = kept
      BY DEF ListIsTheStores
    <2>1. UpToDate /\ ~ToBeRead
      BY DEF ListInv, ToBeRead
    <2> QED BY <2>1 DEF UpToDate
  <1> QED
    BY <1>1, ListInitInv, ListStepInv, PTL DEF ListSpec
=============================================================================
