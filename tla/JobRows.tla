------------------------------ MODULE JobRows ------------------------------
(***************************************************************************)
(* The catalogue of Monitor -> Jobs (fe/src/pages/monitor_jobs.rs): a card *)
(* per job behind the filter "Triggered by", and what can be done on one:  *)
(* run it, look at its source and its errors, forget its memory in two     *)
(* clicks, send it a test delivery; with the requests those make           *)
(* (fe/src/api/client.rs) and their answers (be/src/server.ts).            *)
(*                                                                         *)
(* The cards are drawn in a loop without a key, so what a card remembers   *)
(* belongs to its place in the list, and not to the job it shows.  Where   *)
(* the code remembers only that something happened, a card here remembers  *)
(* also to which job.                                                      *)
(***************************************************************************)
EXTENDS Naturals, FiniteSets, Sequences, SequencesExt

CONSTANTS
    Cards,          \* the catalogue of this page, in order
    HookCards,      \* the jobs that declare a webhook
    InputsOf,       \* [a job |-> the inputs it declares]
    Required,       \* those that have no default
    Calls,          \* the handlers to begin with: [a job |-> the job its onChange names]
    MaxPresses,     \* bound: what the user does
    MaxWirings      \* bound: what others change meanwhile

VARIABLES
    facts,          \* the back end's: schedules, handlers, memories, running jobs
    jobs,           \* GET /api/jobs as the page has it
    fetching,       \* jobs.restart()
    door, rows,     \* signals of Catalogue, and of each JobRow
    asks,           \* requests under way
    presses, wirings

rowVars == <<facts, jobs, fetching, door, rows, asks, presses, wirings>>
page == <<jobs, fetching, door, rows>>

CardJobs == ToSet(Cards)
NoJob == "none"
Filters == {"any", "scheduled", "webhook", "handler", "on request"}

JobFacts == [scheduled : SUBSET CardJobs, calls : [DOMAIN Calls -> CardJobs \cup {NoJob}],
             held : SUBSET CardJobs, running : SUBSET CardJobs]

\* Handlers are looked for in the whole catalogue, the mail jobs included.
has_door(j, fs, d) ==
    LET handler == \E k \in DOMAIN fs.calls : fs.calls[k] = j IN
    CASE d = "any" -> TRUE
      [] d = "scheduled" -> j \in fs.scheduled
      [] d = "webhook" -> j \in HookCards
      [] d = "handler" -> handler
      [] d = "on request" -> ~(j \in fs.scheduled \/ j \in HookCards \/ handler)

Visible(fs, d) == SelectSeq(Cards, LAMBDA j : has_door(j, fs, d))
Shown == Visible(jobs, door)

\* The chips: only those that select something, and only where there is a choice.
Chips ==
    LET found == {d \in Filters \ {"any"} : Visible(jobs, d) # <<>>} IN
    IF Len(Cards) > 3 /\ Cardinality(found) > 1 THEN found \cup {"any"} ELSE {}

\* The draft is the fields that are filled: with their defaults to begin with.
Defaults(j) == InputsOf[j] \ Required
JobRow(j) == [confirming |-> NoJob, draft |-> Defaults(j), source |-> NoJob,
              errors |-> NoJob, open |-> {}, outcome |-> NoJob]

RowsTypeOK ==
    /\ facts \in JobFacts /\ jobs \in JobFacts /\ fetching \in BOOLEAN
    /\ door \in Filters /\ Len(rows) = Len(Shown)
    /\ \A i \in DOMAIN rows :
        /\ rows[i].open \subseteq {"source", "errors"}
        /\ rows[i].draft \subseteq UNION {InputsOf[j] : j \in CardJobs}
        /\ \A f \in DOMAIN rows[i] \ {"open", "draft"} : rows[i][f] \in CardJobs \cup {NoJob}
    /\ \A a \in asks : a.job \in CardJobs
    /\ presses \in 0..MaxPresses /\ wirings \in 0..MaxWirings

RowsInit ==
    /\ facts = [scheduled |-> {Cards[1]}, calls |-> Calls, held |-> CardJobs, running |-> {}]
    /\ jobs = facts /\ fetching = FALSE /\ door = "any"
    /\ rows = [i \in DOMAIN Cards |-> JobRow(Cards[i])]
    /\ asks = {} /\ presses = 0 /\ wirings = 0

\* A card keeps what the card in its place had; only a new place starts afresh.
\* A place that goes takes with it whoever waited there for an answer.
Redraw(fs, d) ==
    LET now == Visible(fs, d) IN
    /\ rows' = [i \in DOMAIN now |-> IF i \in DOMAIN rows THEN rows[i] ELSE JobRow(now[i])]
    /\ asks' = {IF a.row \in DOMAIN now THEN a ELSE [a EXCEPT !.row = 0] : a \in asks}

Pressed == presses < MaxPresses /\ presses' = presses + 1
Alters(i, f, v) == rows' = [rows EXCEPT ![i] = [@ EXCEPT ![f] = v]]
Asks(op, i, about) ==
    asks' = asks \cup {[op |-> op, job |-> Shown[i], row |-> i, about |-> about, st |-> "asked"]}

-----------------------------------------------------------------------------
(* The page. *)

PicksDoor(d) ==
    /\ d \in Chips /\ d # door /\ Pressed /\ door' = d /\ Redraw(jobs, d)
    /\ UNCHANGED <<facts, jobs, fetching, wirings>>

\* jobs.restart(): the old value stays until there is a new one.
JobsAnswered ==
    /\ fetching /\ fetching' = FALSE /\ jobs' = facts /\ Redraw(facts, door)
    /\ UNCHANGED <<facts, door, presses, wirings>>

\* A field of the form that is there, which is the job's, and the draft's.
InputForm(i) == InputsOf[Shown[i]]
InputField(i, f) ==
    /\ f \in InputForm(i) /\ Pressed
    /\ Alters(i, "draft", IF f \in rows[i].draft THEN rows[i].draft \ {f} ELSE rows[i].draft \cup {f})
    /\ UNCHANGED <<facts, jobs, fetching, door, asks, wirings>>

\* With the whole draft.
RunNow(i) ==
    /\ Pressed /\ Asks("run", i, rows[i].draft)
    /\ UNCHANGED <<facts, page, wirings>>

SendTestDelivery(i) ==
    /\ Shown[i] \in HookCards /\ Pressed /\ Asks("delivery", i, InputsOf[Shown[i]])
    /\ UNCHANGED <<facts, page, wirings>>

Toggles(i, what) ==
    LET opens == what \notin rows[i].open IN
    Alters(i, "open", IF opens THEN rows[i].open \cup {what} ELSE rows[i].open \ {what})

\* Fetched once, on first open.
ViewSource(i) ==
    /\ Pressed /\ Toggles(i, "source")
    /\ IF "source" \notin rows[i].open /\ rows[i].source = NoJob
       THEN Asks("source", i, Shown[i]) ELSE UNCHANGED asks
    /\ UNCHANGED <<facts, jobs, fetching, door, wirings>>

\* Fetched on every open; what was read before is shown until then.
ErrorLog(i) ==
    /\ Pressed /\ Toggles(i, "errors")
    /\ IF "errors" \notin rows[i].open THEN Asks("errors", i, Shown[i]) ELSE UNCHANGED asks
    /\ UNCHANGED <<facts, jobs, fetching, door, wirings>>

ForgetMemory(i) ==
    /\ Shown[i] \in jobs.held /\ rows[i].confirming = NoJob
    /\ Pressed /\ Alters(i, "confirming", Shown[i])
    /\ UNCHANGED <<facts, jobs, fetching, door, asks, wirings>>

CancelForget(i) ==
    /\ Shown[i] \in jobs.held /\ rows[i].confirming # NoJob
    /\ Pressed /\ Alters(i, "confirming", NoJob)
    /\ UNCHANGED <<facts, jobs, fetching, door, asks, wirings>>

\* The answer changes no number on the page: nothing is fetched after it.
Forget(i) ==
    /\ Shown[i] \in jobs.held /\ rows[i].confirming # NoJob
    /\ Pressed /\ Alters(i, "confirming", NoJob)
    /\ Asks("forget", i, rows[i].confirming)
    /\ UNCHANGED <<facts, jobs, fetching, door, wirings>>

-----------------------------------------------------------------------------
(* The back end. *)

Answers(a, fs) ==
    /\ a \in asks /\ a.st = "asked"
    /\ asks' = (asks \ {a}) \cup {[a EXCEPT !.st = "answered"]}
    /\ facts' = fs
    /\ UNCHANGED <<page, presses, wirings>>

\* 409 while the job runs.
reset_state(a) ==
    a.op = "forget" /\ Answers(a, IF a.job \in facts.running THEN facts
                                  ELSE [facts EXCEPT !.held = @ \ {a.job}])

\* 400 for an input the job does not declare, or one that it needs and that is
\* not there.
resolveInput(j, body) == body \subseteq InputsOf[j] /\ InputsOf[j] \cap Required \subseteq body
Accepted(a) == resolveInput(a.job, a.about) /\ a.job \notin facts.running

run_begins(a) ==
    /\ a.op \in {"run", "delivery"} /\ Accepted(a)
    /\ a \in asks /\ a.st = "asked" /\ asks' = (asks \ {a}) \cup {[a EXCEPT !.st = "running"]}
    /\ facts' = [facts EXCEPT !.running = @ \cup {a.job}]
    /\ UNCHANGED <<page, presses, wirings>>

run_ends(a) ==
    /\ a \in asks /\ a.st = "running" /\ asks' = (asks \ {a}) \cup {[a EXCEPT !.st = "answered"]}
    /\ facts' = [facts EXCEPT !.running = @ \ {a.job}, !.held = @ \cup {a.job}]
    /\ UNCHANGED <<page, presses, wirings>>

Refused(a) == a.op \in {"run", "delivery"} /\ ~Accepted(a) /\ Answers(a, facts)
Reads(a) == a.op \in {"source", "errors"} /\ Answers(a, facts)

\* Into the place from which it was asked; a run's is followed by on_ran.
Told(a) ==
    /\ a \in asks /\ a.st = "answered" /\ asks' = asks \ {a}
    /\ rows' = IF a.row = 0 \/ a.op = "forget" THEN rows
               ELSE [rows EXCEPT ![a.row] =
                       [@ EXCEPT ![IF a.op \in {"run", "delivery"} THEN "outcome" ELSE a.op] = a.job]]
    /\ fetching' = (fetching \/ (a.op = "run" /\ a.row # 0))
    /\ UNCHANGED <<facts, jobs, door, presses, wirings>>

\* Config -> Jobs, in another tab: a schedule, or which job another hands to.
Wired(fs) ==
    /\ wirings < MaxWirings /\ wirings' = wirings + 1 /\ facts' = fs
    /\ UNCHANGED <<page, asks, presses>>
Schedules(j) ==
    Wired([facts EXCEPT !.scheduled = IF j \in @ THEN @ \ {j} ELSE @ \cup {j}])
HandsTo(k, j) == facts.calls[k] # j /\ Wired([facts EXCEPT !.calls[k] = j])

RowsNext ==
    \/ \E d \in Filters : PicksDoor(d)
    \/ JobsAnswered
    \/ \E i \in DOMAIN rows :
        \/ \E f \in InputForm(i) : InputField(i, f)
        \/ RunNow(i) \/ SendTestDelivery(i) \/ ViewSource(i) \/ ErrorLog(i)
        \/ ForgetMemory(i) \/ CancelForget(i) \/ Forget(i)
    \/ \E a \in asks : reset_state(a) \/ run_begins(a) \/ run_ends(a) \/ Refused(a) \/ Reads(a) \/ Told(a)
    \/ \E j \in CardJobs : Schedules(j)
    \/ \E k \in DOMAIN Calls, j \in CardJobs \cup {NoJob} : HandsTo(k, j)

RowsSpec == RowsInit /\ [][RowsNext]_rowVars

-----------------------------------------------------------------------------
(* Forgetting is two clicks: what is sent off to be forgotten is the       *)
(* memory about which the user was asked.  It is not so: the question      *)
(* stays where it was put while the filter puts another job there.         *)
ForgetsWhatWasAsked ==
    \A a \in asks : a.op = "forget" => a.about = a.job
==============================================================================
