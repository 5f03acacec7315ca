----------------------------- MODULE RunLogPage -----------------------------
(***************************************************************************)
(* The run log of Monitor -> Jobs, and of Monitor -> Mail, which shows two *)
(* jobs' runs only: its filters, the count beside them and the delete in   *)
(* two clicks (fe/src/pages/monitor_jobs.rs), the requests those make, one *)
(* per job (fe/src/api/client.rs), and the record they narrow              *)
(* (be/src/jobs/history.ts, be/src/server.ts).                             *)
(*                                                                         *)
(* Runs are numbered as they are recorded, and the number is also their    *)
(* time: a window is the first number that is inside it.  A count is kept  *)
(* as the set of the runs it counts.                                       *)
(***************************************************************************)
EXTENDS Naturals, FiniteSets, Sequences, SequencesExt

CONSTANTS
    RunJobs,        \* the catalogue
    Scopes,         \* what a log is about: sequences of jobs, <<>> being all of them
    Outcomes,
    capacity, failureCapacity,
    MaxRuns,        \* bound: runs recorded
    MaxClicks       \* bound: clicks, picks and hours that pass

ASSUME ScopesAssumption == Scopes \subseteq Seq(RunJobs)

VARIABLES
    runs, failures, \* history.ts
    newest, hourAgo,    \* the clock: the last run, and the first of the last hour
    only,           \* which of the two logs this is
    filter,         \* job, outcome and window
    answer,         \* the resource's value: what the filter's count counted
    fetch,          \* the request under way for it
    confirming, deleted,
    deletes,        \* delete_runs_for under way
    offered,        \* history: what "Delete these" was pressed for
    clicks

runRecord == <<runs, failures, newest, hourAgo>>
runControls == <<filter, confirming, deleted, offered>>
runVars == <<runRecord, only, answer, fetch, deletes, runControls, clicks>>

Run == [at : 1..MaxRuns, job : RunJobs, outcome : Outcomes]
Every == ""
NoAnswer == [st |-> "none"]

Since == IF filter.hours = "all" THEN 0 ELSE hourAgo
IdsOf == IF filter.job # Every THEN <<filter.job>> ELSE IF only = <<>> THEN <<Every>> ELSE only

matches(r, job, outcome, since) ==
    (job = Every \/ r.job = job) /\ (outcome = Every \/ r.outcome = outcome) /\ r.at >= since

query(job, outcome, since) == {r \in runs : matches(r, job, outcome, since)}

RunLogTypeOK ==
    /\ runs \subseteq Run /\ Cardinality(runs) <= capacity
    /\ failures \subseteq Run /\ Cardinality(failures) <= failureCapacity
    /\ newest \in 0..MaxRuns /\ hourAgo \in 1..MaxRuns + 1 /\ only \in Scopes
    /\ filter \in [job : RunJobs \cup {Every}, outcome : Outcomes \cup {Every}, hours : {"all", "hour"}]
    /\ answer.st \in {"none", "err"} \/ (answer.st = "ok" /\ answer.matched \subseteq Run)
    /\ confirming \in BOOLEAN /\ clicks \in 0..MaxClicks

RunLogInit(scopes) ==
    /\ runs = {} /\ failures = {} /\ newest = 0 /\ hourAgo = 1
    /\ only \in scopes
    /\ filter = [job |-> Every, outcome |-> Every, hours |-> "all"]
    /\ answer = NoAnswer /\ fetch = [st |-> "restart"]
    /\ confirming = FALSE /\ deleted = "none" /\ deletes = {} /\ offered = NoAnswer
    /\ clicks = 0

-----------------------------------------------------------------------------
(* The record. *)

Newest(rs, n) == {r \in rs : Cardinality({q \in rs : q.at > r.at}) < n}

record(job, outcome) ==
    /\ newest < MaxRuns /\ newest' = newest + 1
    /\ LET run == [at |-> newest', job |-> job, outcome |-> outcome] IN
        /\ runs' = Newest(runs \cup {run}, capacity)
        /\ failures' = IF outcome = "failed" THEN Newest(failures \cup {run}, failureCapacity) ELSE failures
    /\ UNCHANGED <<hourAgo, only, answer, fetch, deletes, runControls, clicks>>

Clicks == clicks < MaxClicks /\ clicks' = clicks + 1

\* An hour passes for the oldest run that is inside the window.
TimePasses ==
    /\ hourAgo <= newest /\ hourAgo' = hourAgo + 1 /\ Clicks
    /\ UNCHANGED <<runs, failures, newest, only, answer, fetch, deletes, runControls>>

-----------------------------------------------------------------------------
(* The log. *)

\* The resource depends on the filter: it runs again, and the old value stays
\* until there is a new one.
Starts ==
    /\ fetch.st = "restart"
    /\ fetch' = [st |-> "asking", todo |-> IdsOf, outcome |-> filter.outcome, since |-> Since, matched |-> {}]
    /\ UNCHANGED <<runRecord, only, answer, deletes, runControls, clicks>>

\* GET /api/runs, for one job of several.
GetRuns ==
    /\ fetch.st = "asking" /\ fetch.todo # <<>>
    /\ fetch' = [fetch EXCEPT !.todo = Tail(@),
                              !.matched = @ \cup query(Head(fetch.todo), fetch.outcome, fetch.since)]
    /\ UNCHANGED <<runRecord, only, answer, deletes, runControls, clicks>>

RunsArrive ==
    /\ fetch.st = "asking" /\ fetch.todo = <<>>
    /\ answer' = [st |-> "ok", matched |-> fetch.matched] /\ fetch' = NoAnswer
    /\ UNCHANGED <<runRecord, only, deletes, runControls, clicks>>

\* What was asked for the other jobs is dropped.
GetRunsFails ==
    /\ fetch.st = "asking" /\ fetch.todo # <<>>
    /\ answer' = [st |-> "err"] /\ fetch' = NoAnswer
    /\ UNCHANGED <<runRecord, only, deletes, runControls, clicks>>

\* Mutant: a pick leaves the question that was put.
FilterSelect_quietly(f) ==
    /\ Clicks /\ f # filter /\ filter' = f
    /\ deleted' = "none" /\ UNCHANGED <<confirming, offered>>
    /\ fetch' = [st |-> "restart"]
    /\ UNCHANGED <<runRecord, only, answer, deletes>>

\* The job, the outcome or the window.
FilterSelect(f) ==
    /\ Clicks /\ f # filter /\ filter' = f
    /\ deleted' = "none" /\ confirming' = FALSE /\ offered' = NoAnswer
    /\ fetch' = [st |-> "restart"]
    /\ UNCHANGED <<runRecord, only, answer, deletes>>

DeleteThese ==
    /\ Clicks /\ ~confirming /\ answer.st = "ok" /\ answer.matched # {}
    /\ confirming' = TRUE /\ deleted' = "none"
    /\ offered' = [ids |-> Range(IdsOf), outcome |-> filter.outcome, since |-> Since]
    /\ UNCHANGED <<runRecord, only, filter, answer, fetch, deletes>>

CancelDelete ==
    /\ Clicks /\ confirming /\ answer.st = "ok" /\ answer.matched # {}
    /\ confirming' = FALSE /\ offered' = NoAnswer
    /\ UNCHANGED <<runRecord, only, filter, answer, fetch, deletes, deleted>>

\* The window is worked out again, and the rest is what the controls say.
Delete ==
    /\ Clicks /\ confirming /\ answer.st = "ok" /\ answer.matched # {}
    /\ confirming' = FALSE /\ offered' = NoAnswer
    /\ deletes' = deletes \cup {[todo |-> IdsOf, outcome |-> filter.outcome, since |-> Since,
                                 for |-> offered, promised |-> answer.matched]}
    /\ UNCHANGED <<runRecord, only, filter, answer, fetch, deleted>>

\* DELETE /api/runs for the next job: from both lists, of which the one of the
\* failures holds on to runs that the other has let go of.
remove_runs(d) ==
    /\ d.todo # <<>>
    /\ LET gone(r) == matches(r, Head(d.todo), d.outcome, d.since) IN
        /\ runs' = {r \in runs : ~gone(r)}
        /\ failures' = {r \in failures : ~gone(r)}
    /\ deletes' = (deletes \ {d}) \cup {[d EXCEPT !.todo = Tail(@)]}
    /\ UNCHANGED <<newest, hourAgo, only, answer, fetch, runControls, clicks>>

\* A request fails: what the ones before it deleted is not reported.
DeleteFails(d) ==
    /\ d.todo # <<>> /\ deletes' = deletes \ {d}
    /\ deleted' = "err" /\ fetch' = [st |-> "restart"]
    /\ UNCHANGED <<runRecord, only, filter, answer, confirming, offered, clicks>>

Deleted(d) ==
    /\ d.todo = <<>> /\ deletes' = deletes \ {d}
    /\ deleted' = "ok" /\ fetch' = [st |-> "restart"]
    /\ UNCHANGED <<runRecord, only, filter, answer, confirming, offered, clicks>>

FilterPicks == {[filter EXCEPT !.job = j] : j \in RunJobs \cup {Every}}
    \cup {[filter EXCEPT !.outcome = o] : o \in Outcomes \cup {Every}}
    \cup {[filter EXCEPT !.hours = h] : h \in {"all", "hour"}}

RunLogNext ==
    \/ \E j \in RunJobs, o \in Outcomes : record(j, o)
    \/ TimePasses \/ Starts \/ GetRuns \/ GetRunsFails \/ RunsArrive
    \/ \E f \in FilterPicks : FilterSelect(f)
    \/ DeleteThese \/ CancelDelete \/ Delete
    \/ \E d \in deletes : remove_runs(d) \/ DeleteFails(d) \/ Deleted(d)

-----------------------------------------------------------------------------
(* Properties. *)

Gone == (runs \ runs') \cup (failures \ failures')

\* What a delete removes was asked for twice: it is in the job, the outcome and
\* the window that were on the page when "Delete these" was pressed as well as
\* when it was confirmed, in the run log and in the error logs
\* (monitor_jobs.rs:1467-1562, history.ts:262).
DeletesKeepToTheFilter == [][\A d \in deletes \ deletes' : \A r \in Gone :
    \E id \in d.for.ids : matches(r, id, d.for.outcome, d.for.since)]_runVars

\* A delete "removes exactly the runs the count beside it describes"
\* (monitor_jobs.rs:1601) and can take "less than promised, never more" (1624).
\* Not so: a run that ended after the count was taken goes with it, and so does
\* a failure which the run log has let go of and did not count.
DeletesTheCounted == [][\A d \in deletes \ deletes' : Gone \subseteq d.promised]_runVars
==============================================================================
