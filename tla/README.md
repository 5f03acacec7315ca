# TLA+ models of rn

rn is a personal automation app: a TypeScript back end (`be/`) that runs jobs on
a schedule, by hand, for webhooks and for mail; a Rust launcher (`launcher/`)
that supervises it; and a wasm page (`fe/`). These modules model the logic of the
back end, the supervision by the launcher, and the pages on which the user changes
something together with what they change. TLC checks them on small instances, and
TLAPS proves what matters most for every value of the constants. `PROJECT.json` ties every definition to
the lines it models and every property to the hazards it is there for.

The back end is one JavaScript thread. The code between two `await`s runs without
interruption, so it is one action; an `await` is a point where anything else may
happen. The page is of the same kind: an event handler, an effect or the part of a
task between two awaits is one step. The launcher has threads. A promise cannot be
cancelled, so work that lost a race against its deadline goes on until it settles by
itself. Every file the back end keeps is read when the process starts and written
while it runs; a crash may come between any two steps.

    cd tla
    tlc -workers 2 -config MCJobRunner.cfg MCJobRunner     # a run
    tlapm JobRunner_proofs.tla                             # the proofs of a module

## The system: an inventory

Where nothing is said of concurrency, a component only has the hazards of its
file: a failed or torn write, and memory and file that disagree until the next
save.

| component | state | operations | correct when | model |
|---|---|---|---|---|
| **Job runner** `jobs/run.ts`, `running.ts`, `dry-run.ts`, `jobs/permanent.ts` | runs in flight, the attempt of each, the dry-run switch | `runJob` through every door; attempts, deadline, grace, retry, commit, record, failure and change handlers | one run of a job at a time; retries never overlap; every run is recorded once; every run ends | `JobRunner` |
| **Job memory** `jobs/state.ts` | ids and cursors per job, `job-state.json` | stage, commit, roll back, reset, save, load | a cursor moves only with a completed run; memory holds still under a run; no duplicates | `JobRunner`, `CursorStore` |
| **Send job and sent journal** `jobs/send-mail.ts`, `tracker/sent.ts`, `mail/smtp.ts` | the place in a list, the append-only journal and the sets in memory | skip, mark, send, classify the reply, release, report, reload | nobody is mailed twice; nobody is forgotten; the report is true | `SendMail` |
| **Scheduler** `jobs/scheduler.ts` | entries with the next slot, the interval | `start`, `stop`, `tick`, `nextRun` | a slot fires once and none is lost; a long run does not hold up the rest | `Lifecycle` |
| **Process lifecycle** `server.ts`, `main.ts` | the restart flag, idle waiters, exit timers, listeners | restart now / when idle, stop, signal | a queued restart waits for the work it promised to wait for, and is not stranded | `Lifecycle` |
| **Run history** `jobs/history.ts` | two capped lists, their file | record, read, clear, reload | failures outlive the main list; a delete removes what was asked about | `RunLogPage`, counted in `JobRunner` |
| **Job overrides, settings** `jobs/overrides.ts`, `settings.ts`, `runtime-params.ts`, `jobs/input.ts` | differences to the job files, parameter values, pending changes | validate, save, apply live, resolve | what is pending is what a restart would change; no save undoes another by accident | `JobConfigPage`, `SettingsPage`, `LaunchEnv`; an effective policy and a schedule are inputs of `JobRunner` and `Lifecycle` |
| **Hooks listener** `hooks/*` | a replay log (capped), requests waiting for an answer | authenticate, refuse replays, answer, run | a delivery is run at most once | not modelled: see below |
| **Webhook endpoints** `webhooks.ts`, `jobs/webhook-echo.ts`, `jobs/watch-deliveries.ts` | endpoint definitions, counters | create, edit, rename, rotate, delete | a save changes only what was typed | `WebhooksPage`, without the counters |
| **Mail watcher** `mail/watcher.ts`, `mail/auth.ts` | a held IMAP connection per mailbox, coalescing and again flags, back-off | connect, doorbell, trigger, reconnect | no doorbell is lost | `MailWatcher` |
| **Mail reading** `jobs/read-mail.ts`, `mail/rules.ts`, `mail/extract.ts` | the rules, job memory | fetch, match, report; edit the rules | a message is reported once | when it looks in `MailWatcher`; the rules in `ListPages` |
| **OAuth** `oauth.ts` | pending sign-ins (capped, timed), tokens and their origin | start, callback, exchange, refresh, disconnect | a code or a refresh token is presented once; one refresh at a time | `SignIn` |
| **Credentials** `credentials-file.ts`, `secrets.ts`, `tokens.ts`, `env-file.ts` | the credentials file, `process.env` | set, clear, persist, describe | file and environment tell the same story | in `SignIn`, as far as a sign-in uses them |
| **Link tracker** `tracker/store.ts`, `tracker/server.ts`, `tracker/rewrite.ts` | links and clicks, an append-only file | mint, click, prune, compact | no link that was mailed is lost; who was forgotten stays so | `TrackerStore` |
| **Pollers** `jobs/watch-*.ts`, `pages.ts` | the watched pages, job memory | fetch, compare, announce; edit the list | an item is announced once | the list in `ListPages`, the memory in `JobRunner` |
| **Notifiers** `jobs/notify*.ts`, `jobs/desktop-notify.ts` | none | send; `notify-all` runs the others | one failing does not silence the rest | handler jobs in `JobRunner` |
| **Profile pruning** `jobs/prune-profiles.ts` | none | select and delete files | only what matches | a job like any other to the runner |
| **Launcher** `launcher/src/main.rs`, `shutdown.rs`, `pidfile.rs` | the child, the stop flag, restart counters, the pidfile | start, supervise, stop, restart, give up | one back end; a stop stops; a crash loop is given up, a restart is not | `Launcher`, `Supervisor` |
| **Launch environment** `launcher/src/settings.rs`, `layout.rs`, `be/src/settings.ts` | the settings file | from a file to a command; what of the file is pending | launcher and back end agree on what a file means | `LaunchEnv` |
| **Front end** `fe/` | drafts, questions, fetched copies, requests under way | type, save, ask twice, fetch, heal | what is shown is what is held; a click does what it said, to what it named | `SettingsPage`, `JobConfigPage`, `RunLogPage`, `JobRows`, `WebhooksPage`, `ListPages`, `SignIn` |
| **Monitoring** `node_history.ts`, `node_metrics.ts`, `log.ts` | ring buffers of samples | sample, show | - | not modelled: nothing depends on it |
| **Configuration, static pages** `config.ts`, `web.ts`, `paths.ts` | none | read once | - | not modelled: pure input and output |
| **Wire types** `shared/` | none | - | - | the records of the other modules |

How they interact. Every trigger - the API, the scheduler, the hooks listener,
the mail watcher, a failed or changed run - calls `runJob`, which asks the
overrides for the effective job, OAuth for a live token, and the registry of
`running.ts` whether the job is in flight. A run owns a handle on the job memory
until it commits or rolls back, hands its record to the history, and may call
`runJob` once more for its handler. The process lifecycle consults the same
registry before it restarts, and `end()` calls it back. Saving a schedule rebuilds
the scheduler's entries. The send job adds a journal of its own to the job memory.
The launcher and the back end share the settings file and an exit code; the page and
the back end share nothing, and every page keeps a copy of what it fetched.

The behaviours that are hard: runs that overlap at the await of a token check;
abandoned work; handlers that call the job that called them; a switch that is
read twice around an await; files that a crash tears; ticks that overlap because
one of them awaits a long run; schedules that are rebuilt under a tick; restarts
that wait, and runs that begin while they do; a supervisor whose signal handler runs
beside it; pages that save a whole file from a copy, whose requests overlap and whose
answers come late, after the thing that asked is gone.

## The modules

### JobRunner and CursorStore

`JobRunner` is `runJob` with its registry and its memory. A run is an element of
`Runs` that passes through phases; each phase is one await of the source:
`fresh` awaits `oauth.ensureFresh`, `work` the race of `job.run(ctx)` against the
deadline, `grace` the settling of aborted work, `backoff` the pause before a retry,
`lookup` the catalogue, `handling` the handler's own run. `live` holds the attempts
whose promise has not settled: what the source cannot see and must not forget.
`staged` is the state handle, `store` and `disk` are `state.ts` and its file, and
`recorded` what `history.ts` was handed. `Policies` are the effective values that a
job's file and its overrides may produce; the model takes them as a constant.

`CursorStore` says what the memory promises with no runs in sight: per job, a
window of ids that grows by whole batches of new ids, is emptied by a reset, and
comes back from its file, or empty, after a restart. `JobRunner` is shown to
implement it (`ImplementsCursorStore`), where `store` and `disk` are the mapping and
every other action of the runner is a stutter.

Left out: traces, scrubbing and wording of records; named cursors (`set`,
`changed`, with their limits) and a change of the capacity setting while rn runs;
`notify-all`'s calls of `runJob` from inside a job.

### SendMail

One mailing to one list through any number of calls of the job. A loop is one call
of `run()`; the runner starts one at a time, but `send-mail` never looks at
`ctx.signal`, so a loop whose run timed out is *abandoned* and goes on. `file` is the
journal as its complete lines, `torn` says that it ends in the middle of one more,
and `attempted`, `delivered` and `rejected` are the sets in memory that a restart
rebuilds from it. Every append may fail, and the model follows each failure to where
the source takes it: before the send it ends the loop, after an accepted message it
is caught as a failure without a code. `mails` counts what the server took.

Left out: rendering, minting of links and the dry run, which touch none of this
state. There is one send id, because markers of different ids never meet.

### Lifecycle

The scheduler, the registry's idle waiters and the ways out of one process. An
actor is a tick of the scheduler, which starts due jobs one after the other and
awaits each, or a door: a connection whose requests it brings one by one. `entries`
keeps every array `start()` built, because a tick goes on over the one it began with;
two ticks over the same array share its `nextRunAt`s, as in the source. A `fresh` run is
at the await of `ensureFresh` and in no registry; `flying` is inside `track()`. `exits`
are the `process.exit` timers of 100 ms; a listener that closes drops the idle
connections and keeps the busy ones, which may bring another request. `fired` and
`awaited` are history: the slots that were fired, and those of the runs a queued
restart found in flight that still are.

Left out: what happens inside a run (JobRunner's), so a run here includes the
handler it awaits, and that handler's job does not look busy; the calendar of a day
when clocks shift; `setTickMs`, which changes how often a tick comes, where a tick
comes at any time here.

### Launcher and Supervisor

`Launcher` is any number of launchers and of `rn --stop`s, over one pidfile and one
port. A launcher is its loop (`pc`), its signal handler, which is a thread of its own
(`handler`, `grace`), and its child (`node`), which may crash, ask for a restart, hang or
close. Time is counted in ticks; `age` and `rapid` are kept only as far as the
crash-loop guard can tell them apart, and `deaths`, a history variable, is how long ago the last
crashes were, the newest first, up to the window. The 500 ms poll of a stopping `--stop` and the 100 ms
of an exit are both less than a tick: what takes less than a tick is over before
the next one comes.

`Supervisor` is what launchers promise, of the child alone: one at a time, none after
a stop but the one that was on its way, none left behind unless the launcher was
insisted upon, lost track or was killed. `ImplementsSupervisor` maps one to the other.

Left out: errors of the pidfile itself, the Windows variants, reuse of a pid,
`--status` and `--print-env`.

### Parts: the modules beside the runner

Nine slices of the program hold no state in common, and `Parts` is their sum: `part` says
which one runs, and the others rest. A behaviour of all of them together is,
for each, one of its own with stutters, so it is enough to let each run alone; the one
thing two of them touch, the settings file, has saves by "somebody else" in both. Every one
of these modules has its own variables, `Init` and `Next`, and what would be
invisible to its state - "what the user typed", "who else changed it" - as history
variables.

- `LaunchEnv` (part `launch`) has no state: `select_runtime`, `resolve`, `split_options` and
  `build_command` of the launcher, `pendingRestart` of the back end, and `RestartSettlesIt`,
  which compares them. An option is a parameter with its value, but its text matters in two
  places: the launcher joins the runtime's flags with spaces and the back end takes them apart at
  spaces (`split`), and it looks for a Node option anywhere in the text of all (`includes`). Which values
  have a space in them (`Spaced`), which options' texts are among the words of another's (`WordsOf`) or
  a part of it (`PartsOf`) are constants. The registry of parameters is a constant, of which the instance
  has one of every kind that is treated differently, and every combination of values of
  the eight that concern a launch is a file a process is started from.
- `SettingsPage` is Config -> Runtime: the fetch and its failure, the draft that is filled
  once, Save, the two boards that save and restart, the question before an unsaved edit is
  applied, waiting for health, and a back end that restarts, queues a restart, stops, crashes
  and is started again. A request and its answer are one step, and the offline
  diagnosis and a 409 of an unsupervised back end are left out. `BannerGoes` and `BannerForgetsNothing`
  hold the banner's words against it, on slices of the page of their own (`MCSettingsPage`).
- `JobConfigPage` is Config -> Jobs (and the rows of Config -> Mail): cards that send one job's
  override and rows that send one setting, each a read of all and a write of all. Sent,
  served and answered are three steps. `timetable` is what the scheduler was last started with. A page that
  is left drops its tasks, but what was sent is served, a write that a row was about to send included.
  The file of overrides is written in place: a write that fails leaves it whole or empty.
- `RunLogPage` is the run log: the two capped lists of `history.ts`, filters, a count that is
  fetched job by job, the delete in two clicks, its requests per job, and failures of each. The lists of the
  instance hold fewer than there are runs, so that failures outlive the log and are deleted with it.
- `JobRows` is the catalogue of Monitor -> Jobs, with its filter and its cards. It is not part
  of the sum: the one property it is there for is false (`job_rows`). In Dioxus,
  siblings without a key are matched by position, and so are their signals.
- `WebhooksPage` is the two doors to one store of endpoints, with drafts whose fields come
  and go with the kind, the limits of the store, rename and rotate, and both doors open at once.
- `ListPages` is the list of watched pages and the list of mail rules, which are alike in their
  stores and not in their pages: one fetches a resource and guards its buttons, the other
  spawns fetches and guards nothing.
- `SignIn` is one OAuth provider: two tabs on the panel, pending states at their cap, the
  callback, exchange and identity, refresh (one at a time), disconnect, credentials set and
  cleared by hand with the file failing at any name, expiry, and a new process.
- `MailWatcher` is a session per mailbox, the coalescing timer, `trigger` with its again flag,
  the runner's one-run rule against the scheduler's run and that of another mailbox, faults and restarts. `told`,
  `heard` and `turnedAway` are history: the latest message a mailbox's bell was rung for, the latest there was when it was
  last searched, and the latest bell whose run was refused or failed. Delays of the
  back-off are any length; a run fails when all its attempts have; `stopMailWatch`, which only
  tests call, is left out.
- `TrackerStore` is the file as lines of whole and torn records, mint and click through their
  appends, the hourly prune, compaction through a second file, failures and deaths at
  every step, and the load, which may throw (`LoadFails`) and then leaves an empty store in force. The hour and the
  retention pass together. `torn`, `unread` and `overwritten` are history: the lines that were cut short or
  glued, a process that could not read the file, and what such a one has written over.

## The runs

| run | instance | states | shows |
|---|---|---|---|
| `jobrunner` | 2 jobs, 3 runs, 1 id, a job that retries and is its own failure handler, a typo for a handler, one job that is effect-free | 1.5 million | the safety properties of the runner and the refinement of `CursorStore` |
| `jobrunner_live` | 2 runs, 2 ids, a window of one | 96,000 | ids fall out of the window and are seen again, and it is still the one of `CursorStore`; every run ends, although no work need settle |
| `jobrunner_dry` | 2 runs | violated | a rehearsal is committed when the switch is armed under it |
| `sendmail` | 3 loops, one of them abandoned, 2 recipients, appends that fail whole | 709,000 | nobody is mailed twice; markers, retries and reports agree with the server |
| `sendmail_torn` | the same, appends that tear | violated | a fragment swallows the next whole marker |
| `sendmail_gap` | the same as `sendmail` | violated | with a pause, an abandoned loop and the next one both mail one recipient |
| `lifecycle` | 2 ticks, 1 door, 2 jobs, a clock of two units in days of two, one edit of the schedules, two exits | 442,000 | queued restarts wait and are not stranded; a slot fires once; every slot is taken |
| `lifecycle_abort` | the same | violated | a restart that waits for idle aborts a run that began late |
| `launcher` | 1 launcher, 1 `--stop`, 1 interrupt, 1 kill, 4 children | 395,000 | signals before kills, a cause for giving up, a stop in time and one that ends, the refinement of `Supervisor` |
| `launcher_loop` | the same | violated | after a restart, a crash loop is not given up |
| `parts` | the nine parts, one at a time | 944,000 | the thirteen properties below |
| `job_rows` | 4 cards, 4 clicks, 1 change by others | violated | the second click forgets another job's memory |

What `parts` shows, part by part, with the states of each part alone:

| part | states | shows |
|---|---|---|
| launch | 13,000 | `RestartSettles`: whatever the file says, the process it makes takes its flags, and has nothing of the file pending but a flag with a space in it |
| settings | 85,000 | `EditsSurvive`, `NothingLost`, `RestartApplies`, `PageHeals`: a draft is the user's, a save of it undoes nobody's, a restart applies what its board saved, the page heals |
| jobs | 173,000 | `ShowsConfirmed`, `SchedulerFollows`: cards show what is held, the timetable follows the overrides |
| runs | 287,000 | `DeletesKeepToTheFilter`: what a delete removes was in the filter when it was asked for and when it was confirmed |
| webhooks | 11,000 | `OnlyWhatWasTyped`: a save changes only what was typed, or was changed behind the form |
| lists | 95,000 | `ListIsTheStores`: when nothing is under way the list is the store's |
| signin | 98,000 | `PresentsEachOnce`: a code and a refresh token that was replaced are presented once |
| mail | 142,000 | `BellsAreAnswered`: the watcher drops no bell of itself; only a run that is refused or fails loses one |
| tracker | 40,000 | `StoreKeepsFaith`: links outlive prunes, compactions and deaths, but for a torn line and a file that could not be read; who was forgotten stays so |

Why the bounds are enough to be of use. Three runs are a run, its handler and a
stranger to both, which is what the overlap rule and its exemption are about; two
attempts are a retry, and the policy with no attempts is the clamp. One id is
seen, rolled back, committed, lost and seen again; two ids and a window of one make
it overflow. Three loops are one that is abandoned, one beside it and one after a
restart. Two ticks and two jobs are the least with which a tick awaits a run
while another tick passes over the same entries, and one edit replaces those entries
under both. A clock of two units gives a job that comes every unit three slots, and
the daily one its first and the wrap to the next day. Four children are a crash loop,
or a restart and the crashes after it; with a second launcher the state space is beyond ten
million and no property checked here is about two. Of the settings, two may be edited, one
of them to a value the server refuses; two saves, or a save and a restart, may be under
way at once. Two jobs, a job's field and a setting are enough for saves to overwrite
each other; two tabs on the sign-in panel and one pending sign-in let the second push out the
first; two mailboxes are the inbox and one that the schedule does not read; a full store of two
webhooks refuses a third. Every bound is a named constant
(`Runs`, `MaxBatch`, `Loops`, `MaxAbandoned`, `Ticks`, `Doors`, `MaxTime`,
`MaxPlans`, `MaxExits`, `MaxSignals`, `MaxKills`, `MaxLives`, `MaxEvents`, `MaxSent`, `MaxBoth`,
`MaxSaves`, `MaxActs`, `MaxRuns`, `MaxClicks`, `MaxPending`, `MaxTouches`, `MaxListActs`,
`MaxListOthers`, `MaxOnWire`, `MaxAsked`, `MaxStarted`, `MaxHands`, `MaxMail`, `MaxFaults`,
`MaxMishaps`) or named where it guards (`RoomForHandlers`). Symmetry is used for runs, ids
and loops, in runs without liveness properties only. Deadlock is not checked: a
process that has used up its identities or its clock, or has exited, really stops.

### Fairness

`JobRunner!FairSpec` is weakly fair to what a timer or the event loop drives, for each
run: the token check returns (it has a timeout of its own), the deadline fires, the
grace expires, the back-off ends, the catalogue is looked up, a finished handler is
noticed. It is not fair to the job: work may never settle, which is the point of
`EveryRunEnds`. `Lifecycle!FairSpec` is weakly fair to the interval, to a tick whose run is
over, and to a run's token check and its end, the last because `EveryRunEnds` says so. Nothing is assumed of
requests, signals, exits or the clock. `Launcher!FairSpec` is weakly fair to the launcher's code, to its
handler, to a child that is closing and to a `--stop` under way, which are code that runs, and strongly fair to the
clock, which other steps interrupt and nothing stops; it is not fair to a child, which may hang.
`Parts!FairSpec` is weakly fair to the settings page's own tasks: a fetch is answered or fails, an effect
runs, a timer fires. Nothing is assumed of the user, of saves or of the back end, which is why
`PageHeals` is about a back end that is there to stay. `MailFair` is weakly fair to the watcher's timers, its runs and its reconnects and to the schedule. Only `MCMailBackstop.cfg` needs it:
the words that it refutes are of a schedule that keeps running, a run that ends and a connection that is made again.

## Proofs

tlapm proves every obligation of the eight proof modules.

- `JobRunner_proofs`: `TypeCorrect`, `OneRunAtATime`, `HandlersStayNested`,
  `RetriesNeverOverlap`, `EveryRunRecordedOnce`. `OneRunPerJob` is not inductive: that two
  runs of one job are a run and its handler needs to know that a run and the handler it
  awaits name each other (`Linked`), and `OneRunPerJob`, `HandlersNested` and `Linked` together
  are kept by every action (`Nesting`, `NestingHolds`). `RetryNeverOverlaps` and `RecordedOnce`
  rest on `Bookkeeping`, by which what is live belongs to the attempt its run is at. `Called` says
  that only called runs have a job.
- `JobRunner_refinement`: `WindowsHaveNoDuplicates`, `MemoryIsHeldStill`,
  `CursorsMoveWithTheirRun`, `RunnerImplementsCursorStore`. The invariant `Memory` adds
  what a commit relies on: what is staged has no duplicate, is disjoint from what is
  remembered, and was seen by the current attempt. That a reset cannot break it is the guard of
  `server.ts:1260`, and that no other run can is `OneRunPerJob`.
- `SendMail_proofs`: `TypeCorrect` and `EveryoneIsAccountedFor`, which hold with torn appends too;
  `NobodyIsMailedTwice`, `MarkersComeFirst`, `ReportsAreTrue` and `GivingUpIsRight` under
  `MayTear = FALSE`. For the first two of these that is needed: with torn appends they
  are false (`sendmail_torn`). The invariant behind them says that a recipient on the wire or mailed is
  blocked in the journal and in memory, and that no two loops hold one recipient; the latter needs
  `Exclusive`, without which it is false too (`sendmail_gap`). `NobodyForgotten` speaks of
  loops that completed, and is inductive with what a loop under way has done about each recipient it
  passed (`Passed`) and with what one that did not begin has not (`Fresh`). The reports
  and the giving up rest on `Faithful`: who is called delivered to, has it (`Taken`), retries
  are given up only over failures that are permanent (`Hopeless`), and under `Exclusive` who is refused for
  good has not got it, is blocked and is not on the wire (`GivenUp`).
- `Lifecycle_proofs`: `NobodyIsStranded`, `QueuedRestartsWait`, `NoSlotTwice`. The invariant
  `Restarts` says that those a queued restart waits for are in flight, that its exit is set only when
  none is left, that the flag is up from the request until the end (so it is queued once), and that a
  tick that is idle has no run. `SlotFiresOnce` needs `Slots`: a slot that was fired was
  fired once and is before the next time of its entry, which only moves on, also when the plan it
  stands in was replaced under a tick that goes on over it.
- `Launcher_proofs`: `TypeCorrect`, `Politeness`, `LaunchersSupervise`, `NoOrphan`, `GivesUpForCause`,
  `StopsInTime`. The invariant speaks of each launcher
  alone (`Local`), so a step of one keeps what is said of the others, and says for every place of the loop
  what the handler and the record of the child may be: a child that is alive is the
  one on record, or was spawned and is about to be, and then the handler cannot have passed it by.
  The refinement follows from it, step by step. `Counts` says that as long as the
  window is open, the crashes the loop has counted are no older than it; `Clock`, that the patience of a
  `--stop` runs with the grace of the child, and behind it.
- `Services_proofs`: `BellsAreKept`, `LinksNeverExpire`, `NothingIsReplayed`. `BellsAreAnswered` says where a bell
  is that nobody has searched for: with a timer, with another run to follow, with a run that has yet to search, or
  refused. It needs that nothing rings and nothing is found before it is there (`Ordered`), and that a run which the watcher
  asked for is for the latest bell, or the watcher will ask for one more (`ForTheLastBell`). `StoreKeepsFaith` is proved as `Resolves` and `Forgets`: what was handed out has a line of its own in
  the file at every step of a mint, a prune and a compaction, and what is forgotten only in the file is
  forgotten again before the first call after a load. `PresentsEachOnce`
  is about a step and rests on `SignInv`: requests to the provider are numbered and no two under way are
  one (`Tasks`), a state that is pending was not presented (`Flows`), nor was a refresh token that is
  kept, which no request under way will bring (`InForce`), and what a request will bring has
  not been presented either (`Unseen`).
- `Pages_proofs`: of Config -> Jobs `TimetableFollows`, `JobsPageShowsConfirmed`; of the
  run log `DeletesAreInTheFilter`; of webhooks `SavesChangeWhatWasTyped`; of Config -> Watching
  `WatchingShowsTheStore`. A save whose schedule is the one before it moves no timetable
  and needs to move none, which takes that there is an override for every job. `ShowsConfirmed` is proved with
  `Confirmed`: as long as nobody else changed anything, the latest answer is what the back end holds, or
  one is to come that will be. `DeletesKeepToTheFilter` is about a
  step, and rests on `Confirms`: a question on the page is put for the filter that is on it and a window that
  has not grown, and a delete under way has jobs to go only of those it was put for.
  `OnlyWhatWasTyped` needs that a definition turned into a draft and back is itself but for what was typed
  (`RoundTrip`), and what every open form was filled from (`HooksInv`). `ListIsTheStores` needs that as long as
  nobody else changed anything unheard of, the latest answer is what the store holds, or one is to come
  that will be (`UpToDate`).
- `SettingsPage_proofs`: `DraftIsTheUsers`, `SavesUndoNothing`, `WaitersFindTheirs`, `RestartLeavesNothing`. The
  second is about a step, and rests on `KInv`:
  what differs between the file and the page's answer, the draft, or a save of it that is on
  its way, is always something the user typed or somebody else saved since the page read the file;
  and there is no save before the draft was filled. Its crux is that a save of this page changes
  the file towards the draft (`OneChange`, `Detour`). `RestartApplies` rests on `WInv`: a board that waits has
  its save in the file, until somebody saves over it, and a process that came after it was started from
  that file. `RestartSettles` rests on `LInv`, that settings
  are legal on every way between the page and the file, and on the operators of `LaunchEnv`: for each kind
  of parameter, what the launcher passes on is what the back end looks for, but for the words of a flag that came apart.

The assumptions are those the modules name: the catalogue is a list without repetition, made-up
values are not real ones and limits are natural numbers (`RunnerAssumption`, `MailingAssumption`,
`LifecycleAssumption`, `LauncherAssumption`, `MailAssumption`, `HooksAssumption`, `ScopesAssumption`); the
registry's rows are parameters (`ParamsAssumption`) and keep to what both sides take for granted, which is
true of the rows there are and checked by neither: the launcher has three settings of its own, what takes effect at a restart is
for the process, and no option is for a runtime that has no place to be given it (`RegistryAssumption`); a word has no space in it, and is a part of what it is a word of (`TextAssumption`); what a page edits is in the registry (`SettingsAssumption`); and a schedule is one of a
job's fields (`JobsAssumption`).
The slices are proved of their own specifications, which begin from any file and any settings;
`RestartLeavesNothing` begins from a file of legal settings, the only ones the back end writes.

Only model-checked: the liveness properties (`EveryRunEnds`, `EverySlotIsTaken`, `StopEnds`, `PageHeals`), which
need fairness and ENABLED. Every safety property of a passing run is stated by a theorem. That a
behaviour of `Parts` is, for each part, a behaviour of the specification its theorems are
about is argued above and not proved. The types of the parts (`Parts!TypeOK`) and of `Lifecycle` are stated for
the reader and in no run.

## Where the code and its words differ

Each is a run whose one property states the words and is violated by the code.

1. `jobrunner_dry`. `dry-run.ts:16` says that arming "takes effect on the next job to start
   and never on one already running under the value it began with". `run.ts:707` asks the
   switch again when the attempt has returned, so ids that a rehearsal saw are
   remembered and the next, armed run takes them for handled.
2. `sendmail_torn`. `sent.ts:112` says that dropping a torn line is "the same exposure as never
   having written it". Behind a fragment the next append is glued to it and lost
   too, although its mail went out after it was written.
3. `sendmail_gap`. `send-mail.ts:398` says that sending the same mail twice "does nothing the
   second time". The marker is checked before the pause between messages and not after, and
   an abandoned loop can be in that pause together with the next one.
4. `lifecycle_abort`. `running.ts:4` says that the registry exists "so a restart cannot silently
   abort a running automation". `doRestart` exits 100 ms after the registry was found
   empty, asks nothing again and leaves the scheduler armed; and a run that awaits its
   token is not in the registry yet.
5. `launcher_loop`. `main.rs:16` says that "a crash loop should surface as an error, not as an
   infinite restart". A restart that was asked for sets the count of crashes back and not
   their window (`main.rs:415`), and a crash moves the window only when the child had outlived it; once the window
   is old, children that die at once are restarted for ever.
6. `job_rows`. `monitor_jobs.rs:698` says that the reset is "two clicks, not one". The question
   is a signal of a card that has no key (`monitor_jobs.rs:626`): another job that the filter puts in its
   place is asked about already, and forgotten by one click.

Known to be false as well. Each is stated in its module, and has a configuration of its own, with which TLC shows
a behaviour that violates it in seconds; none is among the runs above.

- `MCBannerGoes.cfg` of `MCSettingsPage`. `settings.ts:313` says that the banner "disappears by itself once a restart has
  genuinely applied the change - it cannot claim a restart is needed when it isn't". The launcher joins the runtime's
  flags with spaces (`main.rs:242`) and the back end takes them apart at spaces (`settings.ts:386`): a `denoV8Flags` with a
  space in it is in force and pending for ever.
- `MCBannerForgets.cfg` of `MCSettingsPage`. `settings.ts:315` goes on "or forget one that is". A setting that was cleared
  is passed over (`settings.ts:357`), and an option is looked for anywhere in the text of all (`settings.ts:400`): 512 is
  found where 5120 is in force.
- `MCRowsOverwrite.cfg` of `MCJobConfigPage`. `client.rs:59` says "change one runtime setting and leave every other one
  alone". All of them are read and all of them are written; what somebody saved between is put back.
- `MCRunLogDelete.cfg` of `MCRunLogPage`. `monitor_jobs.rs:1601` says that a delete "removes exactly the runs the count beside
  it describes", and `:1624` "less than promised, never more". What matches when the request is served goes
  (`history.ts:262`), which includes runs that ended after the count, and failures that the log has let go of.
- `MCMailRefused.cfg` of `MailWatcher`. `docs/node-parameters.md:522` says that a run starts "within a couple of seconds of a
  message landing", and `watcher.ts:116` "or note that another is wanted". The watcher waits for its own run of the mailbox,
  and the runner refuses a second run of the job, whatever its mailbox (`run.ts:464`): refused by a run for another mailbox,
  or by the schedule's, the bell is gone.
- `MCMailBackstop.cfg` of `MailWatcher`. `docs/node-parameters.md:524` calls the schedule "the backstop that catches anything
  missed while the connection was down". It reads the inbox; what came to a label meanwhile waits for the next message there.
- `MCTrackerExpires.cfg` of `TrackerStore`. `store.ts:38` says "links never expire". `load` calls the store loaded before it
  reads (`store.ts:136`); if the read throws, the store is empty, and its next compaction makes the file so.
- `MCTrackerTorn.cfg` of `TrackerStore`. `store.ts:58` says that a crash "costs the last line rather than the file". As in 2, it
  costs the next one too.

What the passing properties except. `RestartSettles`: a flag with a space in it, and a choice of runtime the install
cannot meet, which stays pending. `SchedulerFollows`: the time after a save that failed half-way, when jobs run by an
override that the scheduler does not go by. `BellsAreAnswered`: a bell whose run was refused or failed. `StoreKeepsFaith`: a line
that was cut short and what went on it, a process that could not read the file, and what such a one has written over.
`OnlyWhatWasTyped`: what another door changed behind the form, which the save puts back. `ListIsTheStores`: a change that failed
half-way, whose answer was lost, or whose row was gone before it heard. `ImplementsSupervisor`: a launcher that was insisted
upon, whose child may live on. `SlotFiresOnce` counts the slots of one plan: a tick that goes on over a plan that was replaced
may still start what that had due.

Seen on the way, with no words in the repository to hold them against: an attempt that
settles in the grace counts as failed and is retried; a change is committed before its
handler runs, so a crash in between loses the news; a queued restart can wait for
ever while runs of different jobs overlap; a tick that awaits a run goes on over its
old entries after `stop()`; two launchers that start at once can leave the pidfile without the record of the
one that runs; a refresh that ends after a disconnect puts a token back; pausing a watched page or a rule
sends the whole record as it was listed, and undoes an edit made elsewhere; the list of mail rules shows
whichever of two overlapping fetches ends last; a new webhook under an id that is taken replaces the one that has it.

## Not modelled

- The hooks listener: from a verified delivery on it is `runJob`, which `JobRunner` covers through
  the same door; before that it is signatures and parsing. What it keeps is a replay log in
  memory, whose one ordering worth a property, that an id is consumed before its body is parsed
  (`hooks/server.ts:427`), is neither promised nor denied anywhere.
- What fetches, matches, extracts and renders: the pollers, mail reading, the notifiers, the link rewriter, profile
  pruning. They are pure, or input and output, and keep their state in the job memory or the send journal.
- Monitoring, configuration, the static pages, the wire types, and the pages that only show.
- The text of values: which string is a valid schedule, number or address. A value is valid, or it is not.
- Named cursors, the history's file, traces and scrubbing.

## Plan

Done: the runner with its memory, the send job, scheduler and lifecycle, the launcher, and the
parts. Left, in this order:

1. Named cursors in `JobRunner` and `CursorStore`; `notify-all`'s calls of `runJob` from inside a job.
2. The history's file and its reload; the counters of webhook deliveries.
3. Refinements for the parts that have an abstract counterpart: `TrackerStore` as a set of links that only
   retention touches.

Theorems to come: that each part of a behaviour of `Parts!Spec` is a behaviour of its own
specification, from which every theorem of a slice would carry over; the types of the parts.
