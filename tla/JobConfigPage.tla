--------------------------- MODULE JobConfigPage ---------------------------
(***************************************************************************)
(* Config -> Jobs: the cards that override one job's schedule, timeout,    *)
(* handlers and retry (fe/src/pages/config_jobs.rs), the rows above them   *)
(* that save one setting on the spot, what they call                       *)
(* (fe/src/api/client.rs), and what that changes (be/src/server.ts,        *)
(* jobs/overrides.ts, jobs/scheduler.ts).                                  *)
(*                                                                         *)
(* A save is sent, served and answered in three steps, and so is a fetch:  *)
(* nothing keeps a second save from being sent before the first is         *)
(* answered.  A task ends with the page that spawned it, but what it sent  *)
(* is still served: such a save is "gone".                                 *)
(***************************************************************************)
EXTENDS FiniteSets, Naturals

CONSTANTS
    Jobs,       \* the catalogue
    Fields,     \* what may be overridden: "schedule", "timeoutMs", "onFailure", "onChange", "retry"
    Declared,   \* job -> field -> what its file says
    Picks,      \* field -> what the card's control may be set to
    Rows,       \* setting -> the values its row offers
    MaxSaves,   \* bound: saves under way at once
    MaxActs     \* bound: saves of this page, saves elsewhere, restarts, visits

ASSUME JobsAssumption == "schedule" \in Fields /\ MaxActs \in Nat

VARIABLES
    overrides,  \* jobs/overrides.ts: store
    ondisk,     \* job-overrides.json
    globals,    \* the settings the rows show
    timetable,  \* the schedules the scheduler was last started with
    catalogue,  \* the page's resource: GET /api/jobs
    asked,      \* ... and the fetch under way
    saves,      \* save_job_config and save_one_setting under way
    elsewhere,  \* history: changed by others since the answer was made up
    slipped,    \* history: a save took effect and failed, after the scheduler's start
    acts

jobsBack == <<overrides, ondisk, globals, timetable>>
jobsPage == <<catalogue, asked>>
jobsSeen == <<elsewhere, slipped>>
jobsVars == <<jobsBack, jobsPage, saves, jobsSeen, acts>>

Inherit == "inherit"
OutOfRange == "bad"
Policy == "policy"      \* three attempts, half a minute between them
none == [f \in Fields |-> Inherit]
Override == {o \in [Fields -> (UNION {Picks[f] : f \in Fields}) \cup {Inherit}] :
                \A f \in Fields : o[f] \in Picks[f] \cup {Inherit}}
Globals == {g \in [DOMAIN Rows -> UNION {Rows[s] : s \in DOMAIN Rows}] :
                \A s \in DOMAIN Rows : g[s] \in Rows[s]}
Payload == [overrides : [Jobs -> Override], globals : Globals]

effective(j, o) == [f \in Fields |-> IF o[f] = Inherit THEN Declared[j][f] ELSE o[f]]

\* Out of range, or a handler that is the job itself.
validate(j, o) == \A f \in Fields : o[f] # OutOfRange /\ o[f] # j

schedules(os) == [j \in Jobs |-> effective(j, os[j]).schedule]

JobsTypeOK ==
    /\ overrides \in [Jobs -> Override] /\ ondisk \in [Jobs -> Override]
    /\ slipped \in BOOLEAN /\ elsewhere \in BOOLEAN /\ globals \in Globals
    /\ DOMAIN timetable = Jobs
    /\ catalogue.st \in {"away", "loading", "err"} \/ (catalogue.st = "ok" /\ catalogue.of \in Payload)
    /\ asked.st \in {"none", "sent"} \/ (asked.st = "answered" /\ asked.of \in Payload)
    /\ \A s \in saves : s.st \in {"sent", "read", "ok", "err"} /\ s.gone \in BOOLEAN
    /\ acts \in 0..MaxActs

Now == [overrides |-> overrides, globals |-> globals]
Away == [st |-> "away"]
Nothing == [st |-> "none"]

JobsInit(initial) ==
    /\ overrides = [j \in Jobs |-> none] /\ ondisk = overrides /\ slipped = FALSE
    /\ globals \in initial /\ timetable = schedules(overrides)
    /\ catalogue = [st |-> "loading"] /\ asked = [st |-> "sent"]
    /\ saves = {} /\ elsewhere = FALSE /\ acts = 0

Counts == acts < MaxActs /\ acts' = acts + 1

-----------------------------------------------------------------------------
(* The resource.  A restart drops the fetch that is under way. *)

\* Mutant: while a fetch is under way there is no need for another.
restart_once == asked' = IF asked.st = "none" THEN [st |-> "sent"] ELSE asked
restart == asked' = [st |-> "sent"]

\* This page, or Config -> Mail, which has the cards of the two mail jobs.
Opens ==
    /\ catalogue.st = "away" /\ catalogue' = [st |-> "loading"] /\ restart
    /\ Counts /\ UNCHANGED <<jobsBack, saves, jobsSeen>>

\* What was sent is served: of a row that has read, perhaps its write.
Leaves ==
    /\ catalogue.st # "away" /\ catalogue' = Away /\ asked' = Nothing
    /\ \E put \in SUBSET {t \in saves : t.st = "read"} :
        saves' = {[s EXCEPT !.gone = TRUE] : s \in {t \in saves : t.st = "sent"} \cup put}
    /\ UNCHANGED <<jobsBack, jobsSeen, acts>>

GetJobs ==
    /\ asked.st = "sent" /\ asked' = [st |-> "answered", of |-> Now]
    /\ elsewhere' = FALSE
    /\ UNCHANGED <<jobsBack, catalogue, saves, slipped, acts>>

Resolves ==
    /\ asked.st = "answered" /\ asked' = Nothing
    /\ catalogue' = [st |-> "ok", of |-> asked.of]
    /\ UNCHANGED <<jobsBack, saves, jobsSeen, acts>>

-----------------------------------------------------------------------------
(* The controls. *)

Ready == catalogue.st = "ok" /\ Cardinality(saves) < MaxSaves /\ Counts

\* One field of the override the last answer brought, and the rest of it.
commit(j, f, v) ==
    /\ Ready
    /\ saves' = saves \cup {[by |-> "card", job |-> j, field |-> f, st |-> "sent", gone |-> FALSE,
                             base |-> catalogue.of.overrides[j],
                             next |-> [catalogue.of.overrides[j] EXCEPT ![f] = v]]}
    /\ UNCHANGED <<jobsBack, jobsPage, jobsSeen>>

\* The rows of one card.  A schedule is chosen from a list, with "inherit" in it.
ScheduleRow(j, v) == v \in Picks["schedule"] \cup {Inherit} /\ commit(j, "schedule", v)

\* A number box, and a link that resets it where there is something to reset.
TimeoutRow(j, v) ==
    /\ v \in Picks["timeoutMs"] \/ (v = Inherit /\ catalogue.of.overrides[j]["timeoutMs"] # Inherit)
    /\ commit(j, "timeoutMs", v)

\* Who is called: nobody, or another job.
HandlerSelect(j, f, v) ==
    /\ f \in {"onFailure", "onChange"}
    /\ v \in (Picks[f] \cup {Inherit}) \ {j} /\ commit(j, f, v)

\* A policy is chosen as a whole; its numbers are changed where there is one.
RetryRow(j, v) ==
    /\ v \in {"off", Policy, Inherit}
        \/ (v \in Picks["retry"] /\ catalogue.of.overrides[j]["retry"] \notin {"off", Inherit})
    /\ commit(j, "retry", v)

JobConfigRow(j, f, v) == Ready /\
    (\/ f = "schedule" /\ ScheduleRow(j, v)
     \/ f = "timeoutMs" /\ TimeoutRow(j, v)
     \/ HandlerSelect(j, f, v)
     \/ f = "retry" /\ RetryRow(j, v))

\* A row of the board above; the switch takes no second click while it saves.
LiveRow(s, v) ==
    /\ Ready
    /\ catalogue.of.globals[s] # v
    /\ s = "dryRun" => \A t \in saves : t.by = "row" /\ ~t.gone => t.field # s
    /\ saves' = saves \cup {[by |-> "row", field |-> s, value |-> v, st |-> "sent", gone |-> FALSE]}
    /\ UNCHANGED <<jobsBack, jobsPage, jobsSeen>>

-----------------------------------------------------------------------------
(* The handlers. *)

After(s, st) == saves' = (saves \ {s}) \cup (IF s.gone THEN {} ELSE {[s EXCEPT !.st = st]})
ByOthers(s) == elsewhere' = (elsewhere \/ s.gone)

\* Mutant: whether the schedule moved is asked after the write.
Reschedule_late(before, after) == timetable' = IF after.schedule # after.schedule
                                               THEN schedules(overrides') ELSE timetable
\* Every job's next run is worked out anew, if this one's schedule moved.
Reschedule(before, after) == timetable' = IF before.schedule # after.schedule
                                          THEN schedules(overrides') ELSE timetable

PutConfig(s) ==
    /\ s.by = "card" /\ s.st = "sent" /\ validate(s.job, s.next)
    /\ overrides' = [overrides EXCEPT ![s.job] = s.next]
    /\ ondisk' = overrides'
    /\ Reschedule(overrides[s.job], s.next)
    /\ slipped' = (slipped /\ overrides[s.job].schedule = s.next.schedule)
    /\ After(s, "ok") /\ ByOthers(s)
    /\ UNCHANGED <<globals, jobsPage, acts>>

\* The write throws: what is in memory is already the new one.  The file is
\* written in place, so it is as it was or cut short, which reads as nothing.
PutConfigFails(s) ==
    /\ s.by = "card" /\ s.st = "sent" /\ validate(s.job, s.next)
    /\ overrides' = [overrides EXCEPT ![s.job] = s.next]
    /\ ondisk' \in {ondisk, [j \in Jobs |-> none]}
    /\ After(s, "err") /\ elsewhere' = TRUE /\ slipped' = TRUE
    /\ UNCHANGED <<timetable, globals, jobsPage, acts>>

PutConfigRefused(s) ==
    /\ s.by = "card" /\ s.st = "sent" /\ ~validate(s.job, s.next)
    /\ After(s, "err")
    /\ UNCHANGED <<jobsBack, jobsPage, jobsSeen, acts>>

\* save_one_setting reads all of the settings, ...
RowReads(s) ==
    /\ s.by = "row" /\ s.st = "sent"
    /\ saves' = (saves \ {s}) \cup
            (IF s.gone THEN {} ELSE {[by |-> "row", field |-> s.field, value |-> s.value, st |-> "read",
                                      gone |-> FALSE, base |-> globals]})
    /\ UNCHANGED <<jobsBack, jobsPage, jobsSeen, acts>>

\* ... and writes all of them, with one changed.
RowWrites(s) ==
    /\ s.by = "row" /\ s.st = "read"
    /\ globals' = [s.base EXCEPT ![s.field] = s.value]
    /\ After(s, "ok") /\ ByOthers(s)
    /\ UNCHANGED <<overrides, ondisk, timetable, jobsPage, slipped, acts>>

\* Saved: the page reads again.  Not saved: the card says why.
Told(s) ==
    /\ s.st \in {"ok", "err"} /\ saves' = saves \ {s}
    /\ IF s.st = "ok" THEN restart ELSE UNCHANGED asked
    /\ UNCHANGED <<jobsBack, catalogue, jobsSeen, acts>>

-----------------------------------------------------------------------------
(* The process, and another tab. *)

\* A new process reads the file; what was under way comes to nothing, but for
\* the write of a row that has read, if it finds the new process there.
BackEndRestarts ==
    /\ Counts
    /\ overrides' = ondisk /\ slipped' = FALSE /\ timetable' = schedules(ondisk)
    /\ \E still \in SUBSET {t \in saves : t.st = "read"} :
        saves' = {IF s \in still \/ s.st \in {"ok", "err"} THEN s ELSE [s EXCEPT !.st = "err"] :
                    s \in {t \in saves : ~t.gone}}
    /\ elsewhere' = (elsewhere \/ overrides # ondisk)
    /\ IF asked.st = "sent" THEN asked' = Nothing /\ catalogue' = [st |-> "err"]
                            ELSE UNCHANGED jobsPage
    /\ UNCHANGED <<ondisk, globals>>

SavedElsewhere(s, v) ==
    /\ Counts /\ globals[s] # v
    /\ globals' = [globals EXCEPT ![s] = v] /\ elsewhere' = TRUE
    /\ UNCHANGED <<overrides, ondisk, timetable, jobsPage, saves, slipped>>

Controls ==
    \/ \E j \in Jobs, f \in Fields : \E v \in Picks[f] \cup {Inherit} : JobConfigRow(j, f, v)
    \/ \E s \in DOMAIN Rows : \E v \in Rows[s] : LiveRow(s, v) \/ SavedElsewhere(s, v)
Handlers == \E s \in saves : PutConfig(s) \/ PutConfigFails(s) \/ PutConfigRefused(s)
                                 \/ RowReads(s) \/ RowWrites(s) \/ Told(s)
JobsNext == Opens \/ Leaves \/ GetJobs \/ Resolves \/ Controls \/ Handlers \/ BackEndRestarts

-----------------------------------------------------------------------------
(* Properties. *)

\* Once nothing is under way the page shows what the back end holds, "never
\* what was typed at it": whatever order the saves and the fetches overtook
\* each other in.
ShowsConfirmed ==
    catalogue.st = "ok" /\ asked.st = "none" /\ saves = {} /\ ~elsewhere
        => catalogue.of = Now

\* A row is to "change one runtime setting and leave every other one alone"
\* (fe/src/api/client.rs:59).  Not so: it writes all of the settings as it read
\* them, over whatever was saved between its two requests.
OthersLeftAlone == [][\A s \in saves : RowWrites(s) =>
    \A g \in DOMAIN Rows \ {s.field} : globals'[g] = globals[g]]_jobsVars

\* The scheduler goes by the schedules in force, and not by those of some
\* earlier save; after a save that took effect and failed, only once it is
\* started again, which a repeat of that save does not do.
SchedulerFollows == ~slipped => timetable = schedules(overrides)
==============================================================================
