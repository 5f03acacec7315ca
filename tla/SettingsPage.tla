---------------------------- MODULE SettingsPage ----------------------------
(***************************************************************************)
(* Config -> Runtime: the page (fe/src/pages/config.rs), its two boards    *)
(* that restart the back end (components/restart_banner.rs and             *)
(* process_panel.rs), the endpoints they call (be/src/server.ts) and the   *)
(* settings file, from which LaunchEnv makes the next process.             *)
(*                                                                         *)
(* The page is one tab; what any other client saves is `Elsewhere`.  A     *)
(* request is sent, and later served and answered in one step.  A task     *)
(* ends with the component that spawned it, but what it sent is still      *)
(* served: such a request is "gone".                                       *)
(***************************************************************************)
EXTENDS LaunchEnv, Functions

CONSTANTS
    Edited,     \* bound: the ids somebody sets
    MaxEvents,  \* bound: edits here and elsewhere, jobs, crashes, starts by hand, visits
    MaxSent,    \* bound: clicks that are not done with at once
    MaxBoth     \* bound: the two of them together

ASSUME SettingsAssumption == Edited \subseteq Ids

VARIABLES
    file,       \* the settings file
    proc,       \* the back end: the file it was started from, the command that came of it
    working,    \* a job is running
    queued,     \* restartWhenIdle
    page,       \* the page's resource, its offline message, what its boards were given
    draft, seeded,
    board,      \* the two boards that restart
    sent,       \* requests that are not served yet
    typed,      \* history: what the user changed since the draft was filled
    seed,       \* history: what it was filled with
    others,     \* history: what others have changed since it was read
    events

server == <<file, proc, working, queued>>
history == <<typed, seed, others>>
settingsVars == <<server, page, draft, seeded, board, sent, history, events>>

Boards == {"banner", "panel"}
NoSettings == [id \in {} |-> Unset]
Bad == "bad"            \* a number out of range: the input takes it, the server does not
Cleared == "cleared"

With(s, id, v) ==
    IF v = Cleared THEN Restrict(s, DOMAIN s \ {id})
    ELSE [i \in DOMAIN s \cup {id} |-> IF i = id THEN v ELSE s[i]]
unsaved_ids(d, saved) == {id \in Ids : ValueOf(d, id) # ValueOf(saved, id)}
validateAll(s) == \A id \in DOMAIN s : s[id] # Bad

Up == proc.st = "up"
NoCommand == build_command(NoSettings)
Started(f) == [st |-> "up", from |-> f, child |-> build_command(f)]
Down(st) == [st |-> st, from |-> NoSettings, child |-> NoCommand]
Idle == [at |-> "idle", payload |-> NoSettings, mine |-> FALSE,
         confirm |-> FALSE, restart_force |-> FALSE, force |-> FALSE]
Closed == [open |-> FALSE, data |-> "none", settings |-> NoSettings, pending |-> {},
           runtime |-> "node", running |-> FALSE, fetching |-> FALSE]
Opened == [Closed EXCEPT !.open = TRUE, !.fetching = TRUE]
Request(who, kind, what, now) == [by |-> who, kind |-> kind, payload |-> what, now |-> now]

SettingsTypeOK ==
    /\ IsSettings(file) /\ validateAll(file)
    /\ proc.st \in {"up", "leaving", "down", "ending", "off"} /\ IsSettings(proc.from)
    /\ working \in BOOLEAN /\ queued \in BOOLEAN
    /\ page.data \in {"none", "ok", "err"} /\ IsSettings(page.settings) /\ page.pending \subseteq Ids
    /\ IsSettings(draft) /\ IsSettings(seed) /\ seeded \in BOOLEAN
    /\ DOMAIN board = Boards
    /\ \A b \in Boards : board[b].at \in {"idle", "asking", "waiting"} /\ IsSettings(board[b].payload)
    /\ \A r \in sent : r.by \in Boards \cup {"save", "gone"} /\ r.kind \in {"save", "restart", "stop"}
                           /\ IsSettings(r.payload)
    /\ DOMAIN typed \subseteq Ids /\ others \subseteq Ids
    /\ events \in 0..MaxEvents

SettingsInit(files, first) ==
    /\ file \in files /\ proc = Started(file)
    /\ working = FALSE /\ queued = FALSE
    /\ page = first /\ draft = NoSettings /\ seeded = FALSE
    /\ board = [b \in Boards |-> Idle] /\ sent = {}
    /\ typed = NoSettings /\ seed = NoSettings /\ others = {}
    /\ events = 0

Outstanding == Cardinality(sent) + Cardinality({b \in Boards : board[b].at = "waiting"})
Happens == events < MaxEvents /\ events + Outstanding < MaxBoth /\ events' = events + 1

-----------------------------------------------------------------------------
(* The page. *)

Open ==
    /\ ~page.open /\ page' = Opened
    /\ Happens
    /\ UNCHANGED <<server, draft, seeded, board, sent, history>>

\* The boards go, and their tasks with them.
Unmount ==
    /\ board' = [b \in Boards |-> Idle]
    /\ sent' = {[r EXCEPT !.by = "gone"] : r \in sent}

Close ==
    /\ page.open /\ page' = Closed /\ Unmount
    /\ draft' = NoSettings /\ seeded' = FALSE
    /\ typed' = NoSettings /\ seed' = NoSettings /\ others' = {}
    /\ UNCHANGED <<server, events>>

\* GET /api/params: what is stored, and what of it this process does not run with.
ParamsArrive ==
    /\ page.fetching /\ Up
    /\ UNCHANGED <<server, draft, seeded, board, sent, typed, seed, events>>
    /\ others' = IF seeded \/ page.data = "ok" THEN others ELSE {}
    /\ page' = [page EXCEPT !.data = "ok", !.fetching = FALSE, !.settings = file,
                            !.pending = pendingRestart(file, proc.child),
                            !.runtime = proc.child.runtime,
                            !.running = IF page.data = "ok" THEN @ ELSE working]

\* The offline panel takes the place of the boards; the draft stays.
Fails ==
    /\ page.fetching /\ ~Up
    /\ page' = [page EXCEPT !.data = "err", !.fetching = FALSE, !.settings = NoSettings,
                            !.pending = {}, !.runtime = "node", !.running = FALSE]
    /\ Unmount
    /\ UNCHANGED <<server, draft, seeded, history, events>>

\* Mutant: the draft is filled on every arrival.
Seed_always ==
    /\ page.data = "ok"
    /\ draft' = page.settings /\ seeded' = TRUE /\ seed' = IF seeded THEN seed ELSE page.settings
    /\ UNCHANGED <<server, page, board, sent, typed, others, events>>

\* The draft is filled once, from the first payload that arrives.
Seed ==
    /\ page.data = "ok" /\ ~seeded
    /\ draft' = page.settings /\ seeded' = TRUE /\ seed' = page.settings
    /\ UNCHANGED <<server, page, board, sent, typed, others, events>>

Mounted == page.data = "ok"

\* The tiles.  They go by the runtime that is selected, which need not be the
\* one that runs; an engine's flags are on a tile of their own.
selected == IF "jsRuntime" \in DOMAIN draft THEN draft["jsRuntime"] ELSE page.runtime
applies_here(id) == Params[id].appliesTo # Runtimes /\ selected \in Params[id].appliesTo
owned_by_engine(id) == applies_here(id) /\ Params[id].engine = "v8"
owned_by_running(id) == applies_here(id) /\ Params[id].engine # "v8"
is_universal(id) == Params[id].appliesTo = Runtimes
OnPage(id) == owned_by_engine(id) \/ owned_by_running(id) \/ is_universal(id)

\* A control of the page: ParamBlock, and the dry-run switch.
EditParam(id, v) ==
    /\ Mounted /\ OnPage(id) /\ Happens
    /\ v \in ValuesOf[id] \cup {Cleared} /\ ValueOf(draft, id) # v
    /\ seeded       \* bound: nobody types in the frame before the draft is filled
    /\ draft' = With(draft, id, v)
    /\ typed' = [i \in DOMAIN typed \cup {id} |-> IF i = id THEN v ELSE typed[i]]
    /\ UNCHANGED <<server, page, seeded, board, sent, seed, others>>

\* Mutant: Save takes a draft that was never filled.
Save_unseeded ==
    /\ Mounted
    /\ sent' = sent \cup {Request("save", "save", draft, FALSE)}
    /\ UNCHANGED <<server, page, draft, seeded, board, history, events>>

Save ==
    /\ Mounted /\ seeded
    /\ sent' = sent \cup {Request("save", "save", draft, FALSE)}
    /\ UNCHANGED <<server, page, draft, seeded, board, history, events>>

\* Mutant: every three seconds it finds out what is wrong, and that is all.
Heal_blind ==
    /\ page.data = "err"
    /\ UNCHANGED settingsVars

\* Every three seconds while the fetch is failing.
Heal ==
    /\ page.data = "err"
    /\ page' = [page EXCEPT !.fetching = TRUE]
    /\ UNCHANGED <<server, draft, seeded, board, sent, history, events>>

-----------------------------------------------------------------------------
(* The boards' buttons. *)

Shown(b) == Mounted /\ board[b].at = "idle" /\ (b = "banner" => page.pending # {})
Unsaved == IF seeded THEN unsaved_ids(draft, page.settings) ELSE {}

\* do_restart: the draft is saved first, if there is one.
do_restart(b, now, rest) ==
    /\ board' = [board EXCEPT ![b] = [rest EXCEPT !.at = "asking",
                                                  !.payload = draft, !.mine = FALSE]]
    /\ sent' = sent \cup {IF seeded THEN Request(b, "save", draft, now)
                                    ELSE Request(b, "restart", NoSettings, now)}
    /\ UNCHANGED <<server, page, draft, seeded, history, events>>

ClickRestart(b) ==
    /\ Shown(b) /\ (Unsaved = {} \/ board[b].confirm)
    /\ do_restart(b, FALSE, board[b])

\* An unsaved edit is named before it is applied.
NameEdits(b) ==
    /\ Shown(b) /\ Unsaved # {} /\ ~board[b].confirm
    /\ board' = [board EXCEPT ![b].confirm = TRUE]
    /\ UNCHANGED <<server, page, draft, seeded, sent, history, events>>

ClickApply(b) ==
    /\ Shown(b) /\ board[b].confirm
    /\ do_restart(b, FALSE, [board[b] EXCEPT !.confirm = FALSE])

\* The banner goes by the jobs it read when it was mounted.
ClickNow(b) ==
    /\ Shown(b) /\ (IF b = "banner" THEN page.running ELSE board[b].restart_force)
    /\ do_restart(b, TRUE, board[b])

ClickStop(force) ==
    /\ Shown("panel") /\ (force => board["panel"].force)
    /\ board' = [board EXCEPT !["panel"].at = "asking"]
    /\ sent' = sent \cup {Request("panel", "stop", NoSettings, force)}
    /\ UNCHANGED <<server, page, draft, seeded, history, events>>

-----------------------------------------------------------------------------
(* The server's handlers, with what the client does with the answer. *)

Reload == page' = [page EXCEPT !.fetching = TRUE]
Answered(r) == sent' = sent \ {r}

\* Who else's save this is an overwriting of.
Overwrites(who) == [b \in Boards |-> IF b = who THEN board[b] ELSE [board[b] EXCEPT !.mine = FALSE]]

\* PUT /api/settings: the body becomes the file.
SaveServed(r) ==
    /\ r.kind = "save" /\ Up /\ validateAll(r.payload)
    /\ file' = r.payload
    /\ others' = IF r.by = "gone" THEN others \cup unsaved_ids(file, r.payload) ELSE others
    /\ IF r.by \in Boards
       THEN /\ board' = [Overwrites(r.by) EXCEPT ![r.by].mine = TRUE]
            /\ sent' = (sent \ {r}) \cup {Request(r.by, "restart", NoSettings, r.now)}
       ELSE board' = Overwrites("nobody") /\ Answered(r)
    /\ IF r.by = "save" THEN Reload ELSE UNCHANGED page
    /\ UNCHANGED <<proc, working, queued, draft, seeded, typed, seed, events>>

Finished(b) == [board EXCEPT ![b].at = "idle", ![b].payload = NoSettings, ![b].mine = FALSE]

\* Mutant: a refused save does not keep the boards from restarting.
SaveRefused_goes_on(r) ==
    /\ r.kind = "save" /\ Up /\ ~validateAll(r.payload)
    /\ IF r.by \in Boards
       THEN /\ sent' = (sent \ {r}) \cup {Request(r.by, "restart", NoSettings, r.now)}
            /\ board' = [board EXCEPT ![r.by].mine = TRUE]
       ELSE Answered(r) /\ UNCHANGED board
    /\ UNCHANGED <<server, page, draft, seeded, history, events>>

\* A value is refused, and there is no restart.
SaveRefused(r) ==
    /\ r.kind = "save" /\ Up /\ ~validateAll(r.payload)
    /\ board' = IF r.by \in Boards THEN Finished(r.by) ELSE board
    /\ Answered(r)
    /\ UNCHANGED <<server, page, draft, seeded, history, events>>

\* POST /api/restart while there is work, and not "now".
RestartQueued(r) ==
    /\ r.kind = "restart" /\ Up /\ working /\ ~r.now
    /\ queued' = TRUE
    /\ board' = CASE r.by = "panel" -> [Finished(r.by) EXCEPT ![r.by].restart_force = TRUE]
                  [] r.by = "banner" -> Finished(r.by)
                  [] OTHER -> board
    /\ Answered(r)
    /\ UNCHANGED <<file, proc, working, page, draft, seeded, history, events>>

RestartServed(r) ==
    /\ r.kind = "restart" /\ Up /\ (r.now \/ ~working)
    /\ proc' = [proc EXCEPT !.st = "leaving"]
    /\ board' = IF r.by \in Boards THEN [board EXCEPT ![r.by].at = "waiting"] ELSE board
    /\ Answered(r)
    /\ UNCHANGED <<file, working, queued, page, draft, seeded, history, events>>

\* POST /api/stop.
StopServed(r) ==
    /\ r.kind = "stop" /\ Up /\ (r.now \/ ~working)
    /\ proc' = [proc EXCEPT !.st = "ending"]
    /\ board' = IF r.by = "panel" THEN [Finished("panel") EXCEPT !["panel"].force = IF r.now THEN FALSE ELSE @]
                                  ELSE board
    /\ IF r.by = "panel" /\ ~r.now THEN Reload ELSE UNCHANGED page
    /\ Answered(r)
    /\ UNCHANGED <<file, working, queued, draft, seeded, history, events>>

StopRefused(r) ==
    /\ r.kind = "stop" /\ Up /\ working /\ ~r.now
    /\ board' = IF r.by = "panel" THEN [Finished("panel") EXCEPT !["panel"].force = TRUE] ELSE board
    /\ Answered(r)
    /\ UNCHANGED <<server, page, draft, seeded, history, events>>

\* Nobody is listening.
Unreachable(r) ==
    /\ ~Up
    /\ board' = IF r.by \in Boards THEN Finished(r.by) ELSE board
    /\ Answered(r)
    /\ UNCHANGED <<server, page, draft, seeded, history, events>>

\* wait_until_healthy.
Healthy(b) ==
    /\ board[b].at = "waiting" /\ Up
    /\ board' = [Finished(b) EXCEPT ![b].restart_force = FALSE]
    /\ Reload
    /\ UNCHANGED <<server, draft, seeded, sent, history, events>>

\* Twenty attempts.
GivesUp(b) ==
    /\ board[b].at = "waiting" /\ proc.st \in {"down", "off"}
    /\ board' = Finished(b)
    /\ UNCHANGED <<server, page, draft, seeded, sent, history, events>>

-----------------------------------------------------------------------------
(* The process, its launcher, and the other clients. *)

clients == <<page, draft, seeded, board, sent, history>>

JobStarts == Up /\ ~working /\ working' = TRUE /\ Happens /\ UNCHANGED <<file, proc, queued, clients>>

\* The end of the last run fires the restart that was queued.
JobEnds ==
    /\ Up /\ working /\ working' = FALSE
    /\ proc' = IF queued THEN [proc EXCEPT !.st = "leaving"] ELSE proc
    /\ UNCHANGED <<file, queued, clients, events>>

Exits ==
    /\ proc.st \in {"leaving", "ending"}
    /\ proc' = Down(IF proc.st = "leaving" THEN "down" ELSE "off")
    /\ working' = FALSE /\ queued' = FALSE
    /\ UNCHANGED <<file, clients, events>>

Crashes ==
    /\ Up /\ Happens
    /\ proc' = Down("down") /\ working' = FALSE /\ queued' = FALSE
    /\ UNCHANGED <<file, clients>>

\* The launcher builds the command from the settings as they are now.
Boots ==
    /\ proc.st = "down" /\ proc' = Started(file)
    /\ UNCHANGED <<file, working, queued, clients, events>>

StartedByHand ==
    /\ proc.st = "off" /\ proc' = Started(file) /\ Happens
    /\ UNCHANGED <<file, working, queued, clients>>

\* Another tab, or a control that saves on the spot: save_one_setting.
Elsewhere(id, v) ==
    /\ Up /\ Happens /\ v \in ValuesOf[id] \ {Bad} /\ ValueOf(file, id) # v
    /\ file' = With(file, id, v)
    /\ others' = others \cup {id} /\ board' = Overwrites("nobody")
    /\ UNCHANGED <<proc, working, queued, page, draft, seeded, sent, typed, seed>>

Served == \E r \in sent :
    SaveServed(r) \/ SaveRefused(r) \/ RestartQueued(r) \/ RestartServed(r)
        \/ StopServed(r) \/ StopRefused(r) \/ Unreachable(r)
Waited == \E b \in Boards : Healthy(b) \/ GivesUp(b)
Fetched == ParamsArrive \/ Fails
Clicked == Outstanding < MaxSent /\ events + Outstanding < MaxBoth /\
    (\/ Save
     \/ \E b \in Boards : ClickRestart(b) \/ NameEdits(b) \/ ClickApply(b) \/ ClickNow(b)
     \/ \E force \in BOOLEAN : ClickStop(force))
Typed == \E id \in Edited : \E v \in ValuesOf[id] \cup {Cleared} : EditParam(id, v) \/ Elsewhere(id, v)

SettingsNext ==
    \/ Open \/ Close \/ Fetched \/ Seed \/ Typed \/ Clicked \/ Heal
    \/ Served \/ Waited
    \/ JobStarts \/ JobEnds \/ Exits \/ Crashes \/ Boots \/ StartedByHand

\* The page's own tasks get on: a fetch is answered or fails, an effect runs, a
\* timer fires.
PageWorks == Fetched \/ Seed \/ Heal
SettingsFair == WF_settingsVars(PageWorks)

-----------------------------------------------------------------------------
(* Properties. *)

\* What is on the page is what it was filled with, and over it what the user
\* typed since: no restart, no failed fetch and no reload takes an edit away
\* (config.rs:26-34).
EditsSurvive == seeded =>
    \A id \in Ids : ValueOf(draft, id) =
        IF id \in DOMAIN typed THEN IF typed[id] = Cleared THEN Unset ELSE typed[id]
        ELSE ValueOf(seed, id)

\* A save of this page, which replaces the whole file, changes only what the
\* user typed, and what somebody else saved after the page read the file.
NothingLost == [][file' # file /\ (\E r \in sent \ sent' : r.kind = "save" /\ r.by # "gone")
                  => unsaved_ids(file, file') \subseteq DOMAIN typed \cup others]_settingsVars

\* A board that waits for the back end to come back finds it running with what
\* the board saved, unless that was overwritten in the meantime.
RestartApplies == \A b \in Boards :
    board[b].at = "waiting" /\ board[b].mine /\ Up => proc.from = board[b].payload

\* The page finds its way back to a back end that is there to stay.
PageHeals == <>[](Up /\ page.open) => <>[](page.data = "ok" /\ seeded)

\* A process that is started leaves nothing pending of the file it was started
\* from but the flags whose value has a space in it, and is only given what its
\* runtime takes (settings.ts:317-411 against the launcher's settings.rs:66-136).
RestartSettles == [][proc' # proc /\ proc'.st = "up" => RestartSettlesIt(proc'.from)]_settingsVars

\* The banner "disappears by itself once a restart has genuinely applied the
\* change - it cannot claim a restart is needed when it isn't" (settings.ts:313-315):
\* a process that was started from the file has nothing pending of it, if the
\* choice of a runtime is one the install can follow.  Not so where a value has
\* a space in it.
BannerGoes == [][proc' # proc /\ proc'.st = "up" /\ ~Void(proc'.from)
                    => pendingRestart(proc'.from, proc'.child) = {}]_settingsVars

\* What takes effect at a restart.
AtRestart(s) == Restrict(s, {id \in DOMAIN s : Params[id].appliesAt = "restart"})

\* The banner cannot "forget one that is" needed (settings.ts:315): where a
\* restart would start the process differently, something is pending.  Not so
\* where a setting was cleared, or where the text of what is wanted happens to
\* be a part of what is there.
BannerForgetsNothing ==
    Up /\ build_command(AtRestart(file)) # build_command(AtRestart(proc.from))
        => pendingRestart(file, proc.child) # {}
==============================================================================
