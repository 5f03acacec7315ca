------------------------ MODULE SettingsPage_proofs ------------------------
(***************************************************************************)
(* The draft of Config -> Runtime is what it was filled with and what was  *)
(* typed since, for any registry of parameters.  The property is inductive *)
(* together with what it leaves out: before the draft is filled nothing    *)
(* has been typed.                                                         *)
(*                                                                         *)
(* And a save of it loses nothing: what differs between the file and the   *)
(* draft, or a save of the draft that is under way, is always something    *)
(* the user typed or somebody else saved since the page read the file.     *)
(*                                                                         *)
(* A board that waits for the restart it asked for finds what it saved in  *)
(* the process that answers.  And a process that is started has nothing of *)
(* its file pending, which is about operators more than about steps: that  *)
(* a value is resolved, split into options and taken by the runtime the    *)
(* way the back end looks for it.                                          *)
(***************************************************************************)
EXTENDS SettingsPage, TLAPS

AnyInit == \E files : \E first \in {Opened, Closed} : SettingsInit(files, first)
SettingsSpec == AnyInit /\ [][SettingsNext]_settingsVars

Untyped == ~seeded => typed = NoSettings
Inv == Untyped /\ EditsSurvive

-----------------------------------------------------------------------------
LEMMA InitInv == AnyInit => Inv
  <1> SUFFICES ASSUME NEW files, NEW first \in {Opened, Closed}, SettingsInit(files, first) PROVE Inv
    BY DEF AnyInit
  <1> QED BY DEF SettingsInit, Inv, Untyped, EditsSurvive

\* Setting one value leaves every other as it is.
LEMMA WithOne ==
  ASSUME NEW s, NEW id, NEW v, NEW k
  PROVE  ValueOf(With(s, id, v), k) =
           IF k = id THEN IF v = Cleared THEN Unset ELSE v ELSE ValueOf(s, k)
  <1>1. CASE v = Cleared
    BY <1>1 DEF ValueOf, With, Restrict
  <1>2. CASE v # Cleared
    BY <1>2 DEF ValueOf, With
  <1> QED BY <1>1, <1>2

\* Filling the draft: nothing has been typed yet.
LEMMA SeedStep == Inv /\ Seed => Inv'
  <1> SUFFICES ASSUME Inv, Seed PROVE Inv'
    OBVIOUS
  <1>1. typed' = NoSettings /\ draft' = seed' /\ seeded'
    BY DEF Seed, Inv, Untyped
  <1> QED BY <1>1 DEF Inv, Untyped, EditsSurvive, NoSettings

\* A control of the page.
LEMMA EditStep ==
  ASSUME Inv, NEW id, NEW v, EditParam(id, v)
  PROVE  Inv'
  <1>1. /\ seeded /\ seeded' = seeded /\ seed' = seed
        /\ draft' = With(draft, id, v)
        /\ typed' = [i \in DOMAIN typed \cup {id} |-> IF i = id THEN v ELSE typed[i]]
    BY DEF EditParam
  <1>2. ASSUME NEW k \in Ids
        PROVE  ValueOf(draft, k)' = (IF k \in DOMAIN typed THEN IF typed[k] = Cleared THEN Unset ELSE typed[k]
                                     ELSE ValueOf(seed, k))'
    <2>1. ValueOf(draft', k) = IF k = id THEN IF v = Cleared THEN Unset ELSE v ELSE ValueOf(draft, k)
      BY <1>1, WithOne
    <2>2. CASE k = id
      BY <1>1, <2>1, <2>2
    <2>3. CASE k # id
      <3>1. (k \in DOMAIN typed' <=> k \in DOMAIN typed) /\ (k \in DOMAIN typed => typed'[k] = typed[k])
        BY <1>1, <2>3
      <3>2. ValueOf(draft, k) = IF k \in DOMAIN typed THEN IF typed[k] = Cleared THEN Unset ELSE typed[k]
                                ELSE ValueOf(seed, k)
        BY <1>1 DEF Inv, EditsSurvive
      <3> QED BY <1>1, <2>1, <2>3, <3>1, <3>2 DEF ValueOf
    <2> QED BY <2>2, <2>3
  <1> QED BY <1>1, <1>2 DEF Inv, Untyped, EditsSurvive, ValueOf

\* Everything else leaves the draft alone, or takes it away with the page.
LEMMA StepInv == Inv /\ [SettingsNext]_settingsVars => Inv'
  <1> SUFFICES ASSUME Inv, [SettingsNext]_settingsVars PROVE Inv'
    OBVIOUS
  <1>1. ASSUME UNCHANGED <<draft, seeded, typed, seed>> PROVE Inv'
    BY <1>1 DEF Inv, Untyped, EditsSurvive, ValueOf
  <1>2. ASSUME Close PROVE Inv'
    BY <1>2 DEF Close, Inv, Untyped, EditsSurvive
  <1>3. ASSUME Open \/ Fetched \/ Heal PROVE Inv'
    BY <1>1, <1>3 DEF Open, Fetched, ParamsArrive, Fails, Heal, history
  <1>4. ASSUME Seed PROVE Inv'
    BY <1>4, SeedStep
  <1>5. ASSUME Typed PROVE Inv'
    <2>1. PICK id \in Edited : \E v \in ValuesOf[id] \cup {Cleared} : EditParam(id, v) \/ Elsewhere(id, v)
      BY <1>5 DEF Typed
    <2>2. PICK v \in ValuesOf[id] \cup {Cleared} : EditParam(id, v) \/ Elsewhere(id, v)
      BY <2>1
    <2>3. CASE EditParam(id, v)
      BY <2>3, EditStep
    <2>4. CASE Elsewhere(id, v)
      BY <1>1, <2>4 DEF Elsewhere
    <2> QED BY <2>2, <2>3, <2>4
  <1>6. ASSUME Clicked PROVE Inv'
    BY <1>1, <1>6 DEF Clicked, Save, ClickRestart, NameEdits, ClickApply, ClickNow, ClickStop, do_restart, history
  <1>7. ASSUME Served PROVE Inv'
    BY <1>1, <1>7 DEF Served, SaveServed, SaveRefused, RestartQueued, RestartServed, StopServed, StopRefused,
                      Unreachable, history
  <1>8. ASSUME Waited PROVE Inv'
    BY <1>1, <1>8 DEF Waited, Healthy, GivesUp, history
  <1>9. ASSUME JobStarts \/ JobEnds \/ Exits \/ Crashes \/ Boots \/ StartedByHand PROVE Inv'
    BY <1>1, <1>9 DEF JobStarts, JobEnds, Exits, Crashes, Boots, StartedByHand, clients, history
  <1>10. ASSUME UNCHANGED settingsVars PROVE Inv'
    BY <1>1, <1>10 DEF settingsVars, history
  <1> QED
    BY <1>2, <1>3, <1>4, <1>5, <1>6, <1>7, <1>8, <1>9, <1>10 DEF SettingsNext

\* No restart, failed fetch, reload or save by somebody else takes an edit away
\* that is on the page (config.rs:26-34), whatever the parameters.
THEOREM DraftIsTheUsers == SettingsSpec => []EditsSurvive
  <1>1. Inv => EditsSurvive
    BY DEF Inv
  <1> QED
    BY <1>1, InitInv, StepInv, PTL DEF SettingsSpec

-----------------------------------------------------------------------------
Known == DOMAIN typed \cup others
Saves(r) == r.kind = "save" /\ r.by # "gone"
IsRequest(r) == r = Request(r.by, r.kind, r.payload, r.now)

Requests == \A r \in sent : IsRequest(r)
NoSaveYet == ~seeded => \A r \in sent : ~Saves(r)
FilledFrom == ~seeded /\ page.data = "ok" => unsaved_ids(file, page.settings) \subseteq others
DraftKnown == seeded => unsaved_ids(file, draft) \subseteq Known
SavesKnown == \A r \in sent : Saves(r) => unsaved_ids(file, r.payload) \subseteq Known

KInv == Requests /\ NoSaveYet /\ FilledFrom /\ DraftKnown /\ SavesKnown

\* What differs over a detour differs on one leg of it.
LEMMA Detour ==
  ASSUME NEW a, NEW b, NEW c
  PROVE  unsaved_ids(b, c) \subseteq unsaved_ids(a, b) \cup unsaved_ids(a, c)
  BY DEF unsaved_ids

LEMMA OneChange ==
  ASSUME NEW a, NEW c, NEW id, NEW v
  PROVE  /\ unsaved_ids(With(a, id, v), c) \subseteq unsaved_ids(a, c) \cup {id}
         /\ unsaved_ids(a, With(c, id, v)) \subseteq unsaved_ids(a, c) \cup {id}
  BY WithOne DEF unsaved_ids

LEMMA KInit == AnyInit => KInv
  <1> SUFFICES ASSUME NEW files, NEW first \in {Opened, Closed}, SettingsInit(files, first) PROVE KInv
    BY DEF AnyInit
  <1>1. Closed.data = "none" /\ Opened.data = "none"
    BY DEF Opened, Closed
  <1>2. page = first
    BY DEF SettingsInit
  <1>3. page.data # "ok"
    BY <1>1, <1>2
  <1> QED BY <1>3 DEF SettingsInit, KInv, Requests, NoSaveYet, FilledFrom, DraftKnown, SavesKnown

\* Nothing that the invariant speaks of changes but the requests, and none of
\* those is new but a restart, a stop, or a save of the draft.
Sends(old) == \A r \in sent' : r \in old \/ (IsRequest(r) /\ (Saves(r) => seeded /\ r.payload = draft))

LEMMA SendStep ==
  ASSUME KInv, Sends(sent), UNCHANGED <<file, draft, seeded, typed, others>>,
         page' = page \/ page'.data # "ok" \/ (page'.settings = page.settings /\ page'.data = page.data)
  PROVE  KInv'
  <1>1. Requests'
    BY DEF KInv, Requests, Sends, IsRequest
  <1>2. NoSaveYet'
    BY DEF KInv, NoSaveYet, Sends, Saves
  <1>3. FilledFrom'
    BY DEF KInv, FilledFrom, unsaved_ids, ValueOf
  <1>4. DraftKnown'
    BY DEF KInv, DraftKnown, Known, unsaved_ids, ValueOf
  <1>5. SavesKnown'
    BY DEF KInv, SavesKnown, DraftKnown, Known, Sends, Saves, unsaved_ids, ValueOf
  <1> QED BY <1>1, <1>2, <1>3, <1>4, <1>5 DEF KInv

\* What goes with the page is still served, but it is nobody's.
LEMMA Abandoned ==
  ASSUME Requests, Unmount
  PROVE  \A r \in sent' : IsRequest(r) /\ ~Saves(r)
  <1> SUFFICES ASSUME NEW r \in sent' PROVE IsRequest(r) /\ ~Saves(r)
    OBVIOUS
  <1>1. PICK q \in sent : r = [q EXCEPT !.by = "gone"]
    BY DEF Unmount
  <1>2. q = [by |-> q.by, kind |-> q.kind, payload |-> q.payload, now |-> q.now]
    BY DEF Requests, IsRequest, Request
  <1>3. r = [by |-> "gone", kind |-> q.kind, payload |-> q.payload, now |-> q.now]
    BY <1>1, <1>2
  <1> QED BY <1>3 DEF IsRequest, Saves, Request

LEMMA CloseStep == KInv /\ Close => KInv'
  <1> SUFFICES ASSUME KInv, Close PROVE KInv'
    OBVIOUS
  <1>1. \A r \in sent' : IsRequest(r) /\ ~Saves(r)
    BY Abandoned DEF KInv, Close
  <1>2. page'.data # "ok" /\ ~seeded'
    BY DEF Close, Closed
  <1> QED BY <1>1, <1>2 DEF KInv, Requests, NoSaveYet, FilledFrom, DraftKnown, SavesKnown, IsRequest, Saves

LEMMA FailsStep == KInv /\ Fails => KInv'
  <1> SUFFICES ASSUME KInv, Fails PROVE KInv'
    OBVIOUS
  <1>1. \A r \in sent' : IsRequest(r) /\ ~Saves(r)
    BY Abandoned DEF KInv, Fails
  <1>2. UNCHANGED <<file, draft, seeded, typed, others>>
    BY DEF Fails, server, history
  <1>3. page'.data = "ok" => page.data = "ok" /\ page'.settings = page.settings
    <2> DEFINE P == [page EXCEPT !.data = "err", !.fetching = FALSE, !.settings = NoSettings,
                                 !.pending = {}, !.running = FALSE]
    <2>1. CASE "data" \in DOMAIN page
      BY <2>1 DEF Fails
    <2>2. CASE "data" \notin DOMAIN page
      BY <2>2 DEF Fails
    <2> QED BY <2>1, <2>2
  <1> QED
    BY <1>1, <1>2, <1>3
    DEF KInv, Requests, NoSaveYet, FilledFrom, DraftKnown, SavesKnown, Known, IsRequest, Saves, unsaved_ids, ValueOf

\* The page is a record.
Shaped == {"data", "settings"} \subseteq DOMAIN page

LEMMA ShapedInit == AnyInit => Shaped
  <1>1. ASSUME NEW files, NEW first \in {Opened, Closed}, SettingsInit(files, first) PROVE Shaped
    <2>1. {"data", "settings"} \subseteq DOMAIN Closed
      BY DEF Closed
    <2>2. DOMAIN Opened = DOMAIN Closed
      BY DEF Opened
    <2>3. page = first
      BY <1>1 DEF SettingsInit
    <2> QED BY <2>1, <2>2, <2>3 DEF Shaped
  <1> QED BY <1>1 DEF AnyInit

LEMMA ShapedStep == Shaped /\ [SettingsNext]_settingsVars => Shaped'
  <1> SUFFICES ASSUME Shaped, [SettingsNext]_settingsVars PROVE Shaped'
    OBVIOUS
  <1>1. {"data", "settings"} \subseteq DOMAIN Closed /\ DOMAIN Opened = DOMAIN Closed
    BY DEF Closed, Opened
  <1>2. ASSUME DOMAIN page' = DOMAIN page PROVE Shaped'
    BY <1>2 DEF Shaped
  <1>3. ASSUME Open \/ Close PROVE Shaped'
    BY <1>1, <1>3 DEF Open, Close, Shaped
  <1>4. ASSUME Fetched \/ Seed \/ Heal PROVE Shaped'
    BY <1>2, <1>4 DEF Fetched, ParamsArrive, Fails, Seed, Heal
  <1>5. ASSUME Typed PROVE Shaped'
    BY <1>2, <1>5 DEF Typed, EditParam, Elsewhere
  <1>6. ASSUME Clicked PROVE Shaped'
    BY <1>2, <1>6 DEF Clicked, Save, ClickRestart, NameEdits, ClickApply, ClickNow, ClickStop, do_restart
  <1>7. ASSUME Served PROVE Shaped'
    BY <1>2, <1>7 DEF Served, SaveServed, SaveRefused, RestartQueued, RestartServed, StopServed, StopRefused,
                      Unreachable, Reload
  <1>8. ASSUME Waited PROVE Shaped'
    BY <1>2, <1>8 DEF Waited, Healthy, GivesUp, Reload
  <1>9. ASSUME JobStarts \/ JobEnds \/ Exits \/ Crashes \/ Boots \/ StartedByHand PROVE Shaped'
    BY <1>2, <1>9 DEF JobStarts, JobEnds, Exits, Crashes, Boots, StartedByHand, clients
  <1>10. ASSUME UNCHANGED settingsVars PROVE Shaped'
    BY <1>2, <1>10 DEF settingsVars
  <1> QED BY <1>3, <1>4, <1>5, <1>6, <1>7, <1>8, <1>9, <1>10 DEF SettingsNext

-----------------------------------------------------------------------------
(* The steps that change what is compared. *)

LEMMA ArriveStep == KInv /\ Shaped /\ ParamsArrive => KInv'
  <1> SUFFICES ASSUME KInv, Shaped, ParamsArrive PROVE KInv'
    OBVIOUS
  <1>1. page'.settings = file
    BY DEF ParamsArrive, Shaped
  <1>2. UNCHANGED <<file, draft, seeded, sent, typed>> /\ (seeded => others' = others)
    BY DEF ParamsArrive, server
  <1>3. FilledFrom'
    BY <1>1, <1>2 DEF FilledFrom, unsaved_ids, ValueOf
  <1>4. Requests' /\ NoSaveYet'
    BY <1>2 DEF KInv, Requests, NoSaveYet, IsRequest, Saves
  <1>5. DraftKnown'
    BY <1>2 DEF KInv, DraftKnown, Known, unsaved_ids, ValueOf
  <1>6. SavesKnown'
    BY <1>2 DEF KInv, SavesKnown, NoSaveYet, Known, Saves, unsaved_ids, ValueOf
  <1> QED BY <1>3, <1>4, <1>5, <1>6 DEF KInv

LEMMA FillStep == KInv /\ Seed => KInv'
  <1> SUFFICES ASSUME KInv, Seed PROVE KInv'
    OBVIOUS
  <1>1. /\ ~seeded /\ seeded' /\ page.data = "ok" /\ draft' = page.settings
        /\ UNCHANGED <<file, page, sent, typed, others>>
    BY DEF Seed, server
  <1>2. Requests' /\ NoSaveYet' /\ FilledFrom'
    BY <1>1 DEF KInv, Requests, NoSaveYet, FilledFrom, IsRequest, Saves
  <1>3. DraftKnown'
    BY <1>1 DEF KInv, FilledFrom, DraftKnown, Known, unsaved_ids, ValueOf
  <1>4. SavesKnown'
    BY <1>1 DEF KInv, NoSaveYet, SavesKnown, Saves
  <1> QED BY <1>2, <1>3, <1>4 DEF KInv

LEMMA TypeStep ==
  ASSUME KInv, NEW id, NEW v, EditParam(id, v)
  PROVE  KInv'
  <1>1. /\ seeded /\ seeded' = seeded /\ draft' = With(draft, id, v)
        /\ UNCHANGED <<file, page, sent, others>>
    BY DEF EditParam, server
  <1>2. Known \cup {id} \subseteq Known'
    BY <1>1 DEF Known, EditParam
  <1>3. Requests' /\ NoSaveYet' /\ FilledFrom'
    BY <1>1 DEF KInv, Requests, NoSaveYet, FilledFrom, IsRequest, Saves
  <1>4. unsaved_ids(file, With(draft, id, v)) \subseteq Known'
    BY <1>1, <1>2, OneChange DEF KInv, DraftKnown
  <1>5. DraftKnown'
    BY <1>1, <1>4 DEF DraftKnown, unsaved_ids, ValueOf
  <1>6. ASSUME NEW r \in sent, Saves(r) PROVE unsaved_ids(file, r.payload) \subseteq Known'
    BY <1>2, <1>6 DEF KInv, SavesKnown
  <1>7. SavesKnown'
    BY <1>1, <1>6 DEF SavesKnown, Saves, unsaved_ids, ValueOf
  <1> QED BY <1>3, <1>5, <1>7 DEF KInv

LEMMA ElsewhereStep ==
  ASSUME KInv, NEW id, NEW v, Elsewhere(id, v)
  PROVE  KInv'
  <1>1. /\ file' = With(file, id, v) /\ others' = others \cup {id}
        /\ UNCHANGED <<page, draft, seeded, sent, typed>>
    BY DEF Elsewhere
  <1>2. Known' = Known \cup {id}
    BY <1>1 DEF Known
  <1>3. ASSUME NEW s PROVE unsaved_ids(file', s) \subseteq unsaved_ids(file, s) \cup {id}
    BY <1>1, OneChange
  <1>4. Requests' /\ NoSaveYet'
    BY <1>1 DEF KInv, Requests, NoSaveYet, IsRequest, Saves
  <1>5. FilledFrom'
    <2>1. unsaved_ids(file', page.settings) \subseteq unsaved_ids(file, page.settings) \cup {id}
      BY <1>3
    <2> QED BY <1>1, <2>1 DEF KInv, FilledFrom, unsaved_ids, ValueOf
  <1>6. DraftKnown'
    <2>1. unsaved_ids(file', draft) \subseteq unsaved_ids(file, draft) \cup {id}
      BY <1>3
    <2> QED BY <1>1, <1>2, <2>1 DEF KInv, DraftKnown, unsaved_ids, ValueOf
  <1>7. SavesKnown'
    <2>1. ASSUME NEW r \in sent, Saves(r) PROVE unsaved_ids(file', r.payload) \subseteq Known'
      <3>1. unsaved_ids(file', r.payload) \subseteq unsaved_ids(file, r.payload) \cup {id}
        BY <1>3
      <3> QED BY <1>2, <2>1, <3>1 DEF KInv, SavesKnown
    <2> QED BY <1>1, <2>1 DEF SavesKnown, Saves, unsaved_ids, ValueOf
  <1> QED BY <1>4, <1>5, <1>6, <1>7 DEF KInv

LEMMA SavedStep ==
  ASSUME KInv, Shaped, NEW r \in sent, SaveServed(r)
  PROVE  KInv'
  <1> DEFINE Changed == unsaved_ids(file, file')
  <1>1. /\ r.kind = "save" /\ file' = r.payload
        /\ UNCHANGED <<draft, seeded, typed>>
        /\ others' = IF r.by = "gone" THEN others \cup Changed ELSE others
    BY DEF SaveServed
  <1>2. page'.settings = page.settings /\ page'.data = page.data
    <2>1. page' = [page EXCEPT !.fetching = TRUE] \/ page' = page
      BY DEF SaveServed, Reload
    <2> QED BY <2>1 DEF Shaped
  <1>3. Changed \subseteq Known' /\ Known \subseteq Known'
    <2>1. CASE r.by = "gone"
      BY <1>1, <2>1 DEF Known
    <2>2. CASE r.by # "gone"
      BY <1>1, <2>2 DEF Known, KInv, SavesKnown, Saves
    <2> QED BY <2>1, <2>2
  <1>4. ASSUME NEW s, unsaved_ids(file, s) \subseteq Known PROVE unsaved_ids(file', s) \subseteq Known'
    BY <1>3, <1>4, Detour
  <1>5. ASSUME NEW q \in sent' PROVE q \in sent \/ (IsRequest(q) /\ ~Saves(q))
    BY DEF SaveServed, Answered, IsRequest, Saves, Request
  <1>6. Requests' /\ NoSaveYet'
    BY <1>1, <1>5 DEF KInv, Requests, NoSaveYet, IsRequest, Saves
  <1>7. FilledFrom'
    <2>1. CASE seeded
      BY <1>1, <2>1 DEF FilledFrom
    <2>2. CASE ~seeded
      <3>1. r.by = "gone"
        BY <1>1, <2>2 DEF KInv, NoSaveYet, Saves
      <3>2. Changed \subseteq others' /\ others \subseteq others'
        BY <1>1, <3>1
      <3>3. page.data = "ok" => unsaved_ids(file, page.settings) \subseteq others
        BY <2>2 DEF KInv, FilledFrom
      <3>4. page.data = "ok" => unsaved_ids(file', page.settings) \subseteq others'
        BY <3>2, <3>3, Detour
      <3> QED BY <1>2, <3>4 DEF FilledFrom, unsaved_ids, ValueOf
    <2> QED BY <2>1, <2>2
  <1>8. DraftKnown'
    BY <1>1, <1>4 DEF KInv, DraftKnown, unsaved_ids, ValueOf
  <1>9. SavesKnown'
    <2>1. ASSUME NEW q \in sent', Saves(q) PROVE unsaved_ids(file', q.payload) \subseteq Known'
      BY <1>4, <1>5, <2>1 DEF KInv, SavesKnown
    <2> QED BY <2>1 DEF SavesKnown, Saves, unsaved_ids, ValueOf
  <1> QED BY <1>6, <1>7, <1>8, <1>9 DEF KInv

LEMMA KStep == KInv /\ Shaped /\ [SettingsNext]_settingsVars => KInv'
  <1> SUFFICES ASSUME KInv, Shaped, [SettingsNext]_settingsVars PROVE KInv'
    OBVIOUS
  <1> DEFINE Same == UNCHANGED <<file, draft, seeded, typed, others>>
             Refetch == page' = [page EXCEPT !.fetching = TRUE]
             PageSame == page' = page \/ page'.data # "ok" \/ (page'.settings = page.settings /\ page'.data = page.data)
  <1>1. ASSUME Same, PageSame, Sends(sent) PROVE KInv'
    BY <1>1, SendStep
  <1>2. ASSUME sent' \subseteq sent PROVE Sends(sent)
    BY <1>2 DEF Sends
  <1>12. ASSUME Same, page' = page \/ Refetch, sent' \subseteq sent PROVE KInv'
    <2>1. PageSame
      BY <1>12 DEF Shaped
    <2> QED BY <1>1, <1>2, <1>12, <2>1
  <1>3. ASSUME Open PROVE KInv'
    <2>1. page'.data # "ok"
      BY <1>3 DEF Open, Opened, Closed
    <2> QED BY <1>1, <1>2, <1>3, <2>1 DEF Open, server, history
  <1>4. ASSUME Close \/ Fetched \/ Seed PROVE KInv'
    BY <1>4, CloseStep, FailsStep, ArriveStep, FillStep DEF Fetched
  <1>5. ASSUME Heal PROVE KInv'
    BY <1>1, <1>2, <1>5 DEF Heal, server, history
  <1>6. ASSUME Typed PROVE KInv'
    <2>1. PICK id \in Edited : \E v \in ValuesOf[id] \cup {Cleared} : EditParam(id, v) \/ Elsewhere(id, v)
      BY <1>6 DEF Typed
    <2>2. PICK v \in ValuesOf[id] \cup {Cleared} : EditParam(id, v) \/ Elsewhere(id, v)
      BY <2>1
    <2> QED BY <2>2, TypeStep, ElsewhereStep
  <1>7. ASSUME Clicked PROVE KInv'
    <2>1. CASE Save
      <3>1. Sends(sent)
        BY <2>1 DEF Save, Sends, IsRequest, Request
      <3> QED BY <1>1, <2>1, <3>1 DEF Save, server, history
    <2>2. ASSUME NEW b, NEW now, NEW rest, do_restart(b, now, rest) PROVE KInv'
      <3>1. Sends(sent)
        BY <2>2 DEF do_restart, Sends, IsRequest, Request, Saves
      <3> QED BY <1>1, <2>2, <3>1 DEF do_restart, server, history
    <2>3. ASSUME NEW b, NameEdits(b) PROVE KInv'
      BY <1>1, <1>2, <2>3 DEF NameEdits, server, history
    <2>4. ASSUME NEW force, ClickStop(force) PROVE KInv'
      <3>1. Sends(sent)
        BY <2>4 DEF ClickStop, Sends, IsRequest, Request, Saves
      <3> QED BY <1>1, <2>4, <3>1 DEF ClickStop, server, history
    <2> QED BY <1>7, <2>1, <2>2, <2>3, <2>4 DEF Clicked, ClickRestart, ClickApply, ClickNow
  <1>8. ASSUME Served PROVE KInv'
    <2>1. PICK r \in sent : SaveServed(r) \/ SaveRefused(r) \/ RestartQueued(r) \/ RestartServed(r)
                              \/ StopServed(r) \/ StopRefused(r) \/ Unreachable(r)
      BY <1>8 DEF Served
    <2>2. CASE SaveServed(r)
      BY <2>2, SavedStep
    <2>3. CASE SaveRefused(r) \/ RestartQueued(r) \/ RestartServed(r) \/ StopServed(r) \/ StopRefused(r) \/ Unreachable(r)
      <3>1. Same /\ (page' = page \/ Refetch) /\ sent' \subseteq sent
        BY <2>3 DEF SaveRefused, RestartQueued, RestartServed, StopServed, StopRefused, Unreachable,
                    Reload, Answered, server, history
      <3> QED BY <1>12, <3>1
    <2> QED BY <2>1, <2>2, <2>3
  <1>9. ASSUME Waited PROVE KInv'
    <2>1. Same /\ (page' = page \/ Refetch) /\ sent' \subseteq sent
      BY <1>9 DEF Waited, Healthy, GivesUp, Reload, server, history
    <2> QED BY <1>12, <2>1
  <1>10. ASSUME JobStarts \/ JobEnds \/ Exits \/ Crashes \/ Boots \/ StartedByHand PROVE KInv'
    BY <1>1, <1>2, <1>10 DEF JobStarts, JobEnds, Exits, Crashes, Boots, StartedByHand, clients, history
  <1>11. ASSUME UNCHANGED settingsVars PROVE KInv'
    BY <1>1, <1>2, <1>11 DEF settingsVars, server, history
  <1> QED
    BY <1>3, <1>4, <1>5, <1>6, <1>7, <1>8, <1>9, <1>10, <1>11 DEF SettingsNext

-----------------------------------------------------------------------------
\* A save of the page that is served is a save of a draft: what it changes in
\* the file was typed on the page or saved by somebody else since.
LEMMA SaveChangesWhatIsKnown ==
  ASSUME KInv, [SettingsNext]_settingsVars, file' # file,
         NEW r \in sent \ sent', r.kind = "save" /\ r.by # "gone"
  PROVE  unsaved_ids(file, file') \subseteq DOMAIN typed \cup others
  <1>1. sent' # sent
    OBVIOUS
  <1>2. ~(Open \/ Fetched \/ Seed \/ Heal)
    BY <1>1 DEF Open, Fetched, ParamsArrive, Fails, Seed, Heal, server
  <1>3. ~(Typed \/ Clicked \/ Waited \/ Close)
    BY <1>1 DEF Typed, EditParam, Elsewhere, Waited, Healthy, GivesUp, Close, server,
                Clicked, Save, ClickRestart, NameEdits, ClickApply, ClickNow, ClickStop, do_restart
  <1>4. ~(JobStarts \/ JobEnds \/ Exits \/ Crashes \/ Boots \/ StartedByHand \/ UNCHANGED settingsVars)
    BY <1>1 DEF JobStarts, JobEnds, Exits, Crashes, Boots, StartedByHand, clients, settingsVars
  <1>5. PICK q \in sent : SaveServed(q)
    BY <1>2, <1>3, <1>4 DEF SettingsNext, Served, SaveRefused, RestartQueued, RestartServed, StopServed, StopRefused,
                            Unreachable, server
  <1>6. r = q
    BY <1>5 DEF SaveServed, Answered
  <1> QED BY <1>5, <1>6 DEF SaveServed, KInv, SavesKnown, Known, Saves

\* A save of the whole file never undoes what the page was not told of, whatever
\* the parameters (config.rs:612, restart_banner.rs:67).
THEOREM SavesUndoNothing == SettingsSpec => NothingLost
  <1>1. KInv /\ [SettingsNext]_settingsVars
          => [file' # file /\ (\E r \in sent \ sent' : r.kind = "save" /\ r.by # "gone")
              => unsaved_ids(file, file') \subseteq DOMAIN typed \cup others]_settingsVars
    BY SaveChangesWhatIsKnown
  <1> QED
    BY <1>1, KInit, KStep, ShapedInit, ShapedStep, PTL DEF SettingsSpec, NothingLost

-----------------------------------------------------------------------------
(* What a process is started with. *)

LEMMA Selection ==
  ASSUME NEW s, IsSettings(s)
  PROVE  LET sel == select_runtime(s) IN
         /\ sel.kind \in Runtimes
         /\ <<sel.kind, sel.version>> \in Bundled \cup {OwnNode}
         /\ ~sel.unavailable /\ "jsRuntime" \in DOMAIN s => sel.kind = s["jsRuntime"]
         /\ ~sel.unavailable /\ "nodeVersion" \in DOMAIN s /\ sel.kind = "node"
              => sel.version = s["nodeVersion"]
  <1> DEFINE runtime == IF "jsRuntime" \in DOMAIN s THEN s["jsRuntime"] ELSE "node"
             asked == IF runtime = "node" THEN ValueOf(s, "nodeVersion") ELSE Unset
             own == <<runtime, asked>> = <<"node", Unset>>
             there == ~own /\ <<runtime, asked>> \in Bundled
             sel == select_runtime(s)
  <1>1. /\ sel.kind = IF there THEN runtime ELSE "node"
        /\ sel.version = IF there THEN asked ELSE OwnVersion
        /\ sel.unavailable = (~own /\ ~there)
    BY DEF select_runtime, OwnNode
  <1>2. runtime \in Runtimes
    BY RegistryAssumption DEF IsSettings, Runtimes
  <1>3. "nodeVersion" \in DOMAIN s => s["nodeVersion"] # Unset
    BY RegistryAssumption DEF IsSettings
  <1>4. own <=> runtime = "node" /\ asked = Unset
    OBVIOUS
  <1>5. "jsRuntime" \in DOMAIN s => runtime = s["jsRuntime"]
    OBVIOUS
  <1>6. "nodeVersion" \in DOMAIN s /\ runtime = "node" => asked = s["nodeVersion"]
    BY DEF ValueOf
  <1> HIDE DEF runtime, asked, sel
  <1>7. sel.kind \in Runtimes
    BY <1>1, <1>2 DEF Runtimes
  <1>8. <<sel.kind, sel.version>> \in Bundled \cup {OwnNode}
    BY <1>1 DEF OwnNode
  <1>9. ~sel.unavailable => sel.kind = runtime
    BY <1>1, <1>4
  <1>10. ~sel.unavailable /\ "nodeVersion" \in DOMAIN s /\ sel.kind = "node" => sel.version = s["nodeVersion"]
    BY <1>1, <1>3, <1>4, <1>6, <1>9
  <1> QED
    BY <1>5, <1>7, <1>8, <1>9, <1>10 DEF sel

\* What is given and applies to the runtime reaches it, each in the place where
\* the process looks for it.
LEMMA Reaches ==
  ASSUME NEW s, NEW runtime \in Runtimes, NEW p \in Given(s), runtime \in Params[p].appliesTo,
         Params[p].appliesAt = "restart", Params[p].kind # "launcher"
  PROVE  LET launch == resolve(s, runtime)
             options == split_options(runtime, launch)
         IN /\ Params[p].kind = "runtime-flag" => <<p, s[p]>> \in launch.runtime_flags
            /\ Params[p].kind = "env" => <<p, s[p]>> \in launch.env
            /\ Params[p].kind = "node-option" => <<p, s[p]>> \in options.env \cup options.argv \cup options.v8
  <1> DEFINE launch == resolve(s, runtime)
             options == split_options(runtime, launch)
  <1>1. p \in Ids
    BY DEF Given
  <1>2. /\ Params[p].kind # "app"
        /\ Params[p].kind = "env" => Params[p].engine # "v8"
        /\ Params[p].kind = "node-option" =>
              IF Params[p].engine = "v8" THEN "bun" \notin Params[p].appliesTo
                                         ELSE "deno" \notin Params[p].appliesTo
    BY <1>1, RegistryAssumption
  <1>3. Params[p].kind = "runtime-flag" => <<p, s[p]>> \in launch.runtime_flags
    BY <1>2 DEF resolve, Options
  <1>4. Params[p].kind = "env" => <<p, s[p]>> \in launch.env
    BY <1>2 DEF resolve, Options
  <1>5. Params[p].kind = "node-option" =>
          IF Params[p].engine = "v8" THEN <<p, s[p]>> \in launch.v8_flags /\ runtime # "bun"
                                     ELSE <<p, s[p]>> \in launch.node_options /\ runtime # "deno"
    BY <1>2 DEF resolve, Options
  <1>6. Params[p].kind = "node-option" => <<p, s[p]>> \in options.env \cup options.argv \cup options.v8
    <2> HIDE DEF launch
    <2> QED BY <1>5 DEF split_options, Runtimes
  <1> QED BY <1>3, <1>4, <1>6

\* And nothing else does.
LEMMA Takes ==
  ASSUME NEW s, NEW runtime \in Runtimes, NEW o,
         LET launch == resolve(s, runtime) IN o \in split_options(runtime, launch).argv
  PROVE  /\ runtime \in Params[o[1]].appliesTo
         /\ runtime = "deno" => Params[o[1]].kind = "runtime-flag"
  <1> DEFINE launch == resolve(s, runtime)
  <1>1. \/ o \in launch.runtime_flags
        \/ runtime = "bun" /\ o \in launch.node_options
    <2> HIDE DEF launch
    <2> QED BY DEF split_options, Runtimes, launch
  <1>2. o \in launch.runtime_flags => runtime \in Params[o[1]].appliesTo /\ Params[o[1]].kind = "runtime-flag"
    BY DEF resolve, Options
  <1>3. o \in launch.node_options => runtime \in Params[o[1]].appliesTo
    BY DEF resolve, Options
  <1> QED BY <1>1, <1>2, <1>3

LEMMA Settles ==
  ASSUME NEW s, IsSettings(s)
  PROVE  RestartSettlesIt(s)
  <1> DEFINE sel == select_runtime(s)
             K == sel.kind
             launch == resolve(s, K)
             options == split_options(K, launch)
             child == build_command(s)
  <1>0. /\ K \in Runtimes /\ <<K, sel.version>> \in Bundled \cup {OwnNode}
        /\ ~sel.unavailable /\ "jsRuntime" \in DOMAIN s => K = s["jsRuntime"]
        /\ ~sel.unavailable /\ "nodeVersion" \in DOMAIN s /\ K = "node" => sel.version = s["nodeVersion"]
    BY Selection
  <1>1. /\ child.runtime = K /\ child.version = sel.version
        /\ child.env = launch.env /\ child.NODE_OPTIONS = options.env
        /\ child.RN_RUNTIME_FLAGS = launch.runtime_flags
        /\ child.RN_NET_EXTRA = ValueOf(s, "netAllowlist")
        /\ child.argv.flags = options.argv /\ child.argv.v8 = options.v8
    BY DEF build_command, runtime_argv
  <1>2. \A o \in options.argv : /\ K \in Params[o[1]].appliesTo
                                /\ K = "deno" => Params[o[1]].kind = "runtime-flag"
    BY <1>0, Takes
  <1>3. ASSUME NEW p \in Given(s), K \in Params[p].appliesTo,
               Params[p].appliesAt = "restart", Params[p].kind # "launcher"
        PROVE  /\ Params[p].kind = "runtime-flag" => <<p, s[p]>> \in launch.runtime_flags
               /\ Params[p].kind = "env" => <<p, s[p]>> \in launch.env
               /\ Params[p].kind = "node-option" => <<p, s[p]>> \in options.env \cup options.argv \cup options.v8
    BY <1>0, <1>3, Reaches
  <1>4. \A p \in Given(s) : p \in Ids /\ p \in DOMAIN s
    BY DEF Given
  <1> HIDE DEF sel, K, launch, options, child
  <1>5. Accepts(child)
    BY <1>0, <1>1, <1>2 DEF Accepts
  <1>6. ASSUME ~Void(s), NEW p \in pendingRestart(s, child) PROVE p \in ComesApart(s, child)
    <2>1. /\ p \in Given(s) /\ Params[p].appliesAt = "restart" /\ K \in Params[p].appliesTo
          /\ p \in Ids /\ p \in DOMAIN s
      BY <1>1, <1>4, <1>6 DEF pendingRestart
    <2>2. Params[p] \in Param
      BY <2>1, ParamsAssumption
    <2>3. Params[p].kind \in {"launcher", "env", "node-option", "runtime-flag"}
      BY <2>1, <2>2, RegistryAssumption DEF Param, Kinds
    <2>4. ~sel.unavailable /\ ("nodeVersion" \in DOMAIN s => K = "node")
      BY <1>6 DEF Void, sel, K
    <2>5. CASE Params[p].kind = "launcher"
      <3>1. activeRuntime(child, p) # s[p]
        BY <1>6, <2>5 DEF pendingRestart
      <3>2. p \in {"jsRuntime", "netAllowlist", "nodeVersion"}
        BY <2>1, <2>5, RegistryAssumption
      <3>3. CASE p = "jsRuntime"
        BY <1>0, <1>1, <2>1, <2>4, <3>1, <3>3 DEF activeRuntime
      <3>4. CASE p = "netAllowlist"
        BY <1>1, <2>1, <3>1, <3>4 DEF activeRuntime, ValueOf
      <3>5. CASE p = "nodeVersion"
        BY <1>0, <1>1, <2>1, <2>4, <3>1, <3>5 DEF activeRuntime
      <3> QED BY <3>2, <3>3, <3>4, <3>5
    <2>6. CASE Params[p].kind = "runtime-flag"
      <3>1. <<p, s[p]>> \notin split(child.RN_RUNTIME_FLAGS)
        BY <1>6, <2>6 DEF pendingRestart
      <3>2. <<p, s[p]>> \in child.RN_RUNTIME_FLAGS
        BY <1>1, <1>3, <2>1, <2>6
      <3>3. s[p] \in Spaced
        BY <3>1, <3>2 DEF split
      <3> QED BY <1>1, <2>1, <2>6, <3>3 DEF ComesApart
    <2>7. CASE Params[p].kind = "env"
      BY <1>1, <1>3, <1>6, <2>1, <2>7 DEF pendingRestart
    <2>8. CASE Params[p].kind = "node-option"
      <3>1. ~includes(activeOptions(child), <<p, s[p]>>)
        BY <1>6, <2>8 DEF pendingRestart
      <3>2. <<p, s[p]>> \notin activeOptions(child)
        BY <3>1 DEF includes
      <3> QED BY <1>1, <1>3, <2>1, <2>8, <3>2 DEF activeOptions
    <2> QED BY <2>3, <2>5, <2>6, <2>7, <2>8
  \* A value with a space in it is no word of the echo.
  <1>7. ASSUME NEW p \in ComesApart(s, child) PROVE p \in pendingRestart(s, child)
    <2>1. /\ p \in Given(s) /\ Params[p].kind = "runtime-flag" /\ Params[p].appliesAt = "restart"
          /\ child.runtime \in Params[p].appliesTo /\ s[p] \in Spaced
      BY <1>7 DEF ComesApart
    <2>2. <<p, s[p]>> \notin split(child.RN_RUNTIME_FLAGS)
      BY <2>1, TextAssumption DEF split
    <2> QED BY <2>1, <2>2 DEF pendingRestart
  <1>8. ~Void(s) => pendingRestart(s, child) = ComesApart(s, child)
    BY <1>6, <1>7
  <1> QED BY <1>5, <1>8 DEF RestartSettlesIt, child

-----------------------------------------------------------------------------
(* A board that waits for the back end. *)

BoardFields == {"at", "payload", "mine", "confirm", "restart_force", "force"}

\* What a board knows of its restart: that the file is what it saved, as long as
\* nobody else saved; and that what it has sent is one request, with its draft.
Asks(b) ==
    \A r \in sent : r.by = b =>
        /\ board[b].at = "asking" /\ IsRequest(r)
        /\ r.kind = "save" => r.payload = board[b].payload
        /\ \A q \in sent : q.by = b => q = r
Holds(b) ==
    /\ DOMAIN board[b] = BoardFields
    /\ board[b].mine => file = board[b].payload
    /\ board[b].mine /\ board[b].at = "waiting" /\ Up => proc.from = board[b].payload
    /\ Asks(b)
Hold == DOMAIN board = Boards /\ \A b \in Boards : Holds(b)
ProcShaped == DOMAIN proc = {"st", "from", "child"}
WInv == Hold /\ ProcShaped

\* Nothing of the board changes that the invariant speaks of; the file may, if
\* it is not the board's, and the process, if it is gone or started anew.
LEMMA KeepsHolding ==
  ASSUME NEW b \in Boards, Holds(b), DOMAIN board'[b] = BoardFields,
         board'[b].at = board[b].at, board'[b].payload = board[b].payload,
         board'[b].mine => board[b].mine /\ file' = file,
         \A r : r.by = b => (r \in sent' => r \in sent),
         proc' = proc \/ ~Up' \/ proc'.from = file'
  PROVE  Holds(b)'
  <1>1. Asks(b)'
    BY DEF Holds, Asks, IsRequest
  <1>2. board'[b].mine => file' = board'[b].payload
    BY DEF Holds
  <1>3. board'[b].mine /\ board'[b].at = "waiting" /\ Up' => proc'.from = board'[b].payload
    BY <1>2 DEF Holds, Up
  <1> QED BY <1>1, <1>2, <1>3 DEF Holds

\* A board that has nothing under way.
LEMMA DoneHolding ==
  ASSUME NEW b \in Boards, DOMAIN board'[b] = BoardFields, board'[b].mine = FALSE,
         \A r \in sent' : r.by # b
  PROVE  Holds(b)'
  BY DEF Holds, Asks

\* Every board goes on, and the process is the same, gone, or started anew.
LEMMA AllKeep ==
  ASSUME WInv, file' = file, board' = board,
         \A b \in Boards : \A r : r.by = b => (r \in sent' => r \in sent),
         proc' = proc \/ ~Up' \/ proc'.from = file', DOMAIN proc' = {"st", "from", "child"}
  PROVE  WInv'
  <1>1. ASSUME NEW b \in Boards PROVE Holds(b)'
    BY <1>1, KeepsHolding DEF WInv, Hold, Holds
  <1> QED BY <1>1 DEF WInv, Hold, ProcShaped

LEMMA WInit == AnyInit => WInv
  <1> SUFFICES ASSUME NEW files, NEW first \in {Opened, Closed}, SettingsInit(files, first) PROVE WInv
    BY DEF AnyInit
  <1>1. /\ board = [b \in Boards |-> Idle] /\ sent = {} /\ proc = Started(file)
    BY DEF SettingsInit
  <1>2. DOMAIN Idle = BoardFields /\ Idle.mine = FALSE
    BY DEF Idle, BoardFields
  <1>3. ASSUME NEW b \in Boards PROVE Holds(b)
    BY <1>1, <1>2 DEF Holds, Asks
  <1> QED BY <1>1, <1>3 DEF WInv, Hold, ProcShaped, Started

LEMMA UnmountHolds ==
  ASSUME WInv, Requests, Unmount, proc' = proc
  PROVE  WInv'
  <1>1. DOMAIN Idle = BoardFields /\ Idle.mine = FALSE
    BY DEF Idle, BoardFields
  <1>2. ASSUME NEW r \in sent' PROVE r.by = "gone"
    <2>1. PICK q \in sent : r = [q EXCEPT !.by = "gone"]
      BY DEF Unmount
    <2>2. "by" \in DOMAIN q
      BY DEF Requests, IsRequest, Request
    <2> QED BY <2>1, <2>2
  <1>3. ASSUME NEW b \in Boards PROVE Holds(b)'
    <2>1. board'[b] = Idle
      BY DEF Unmount
    <2>2. \A r \in sent' : r.by # b
      BY <1>2 DEF Boards
    <2> QED BY <1>1, <2>1, <2>2, DoneHolding
  <1> QED BY <1>3 DEF WInv, Hold, ProcShaped, Unmount

\* A button: one board asks, with one request.
LEMMA AskHolds ==
  ASSUME WInv, NEW b \in Boards, board[b].at = "idle", UNCHANGED <<file, proc>>,
         NEW rest, DOMAIN rest = BoardFields, rest.at = "asking", rest.mine => board[b].mine,
         rest.mine => rest.payload = board[b].payload,
         board' = [board EXCEPT ![b] = rest],
         NEW r, IsRequest(r), r.by = b, r.kind = "save" => r.payload = rest.payload,
         sent' = sent \cup {r}
  PROVE  WInv'
  <1>1. DOMAIN board = Boards /\ Holds(b)
    BY DEF WInv, Hold
  <1>2. board'[b] = rest /\ \A c \in Boards : c # b => board'[c] = board[c]
    BY <1>1
  <1>3. \A q \in sent : q.by # b
    BY <1>1 DEF Holds, Asks
  <1>4. Asks(b)'
    BY <1>2, <1>3 DEF Asks, IsRequest
  <1>5. Holds(b)'
    BY <1>1, <1>2, <1>4 DEF Holds
  <1>6. ASSUME NEW c \in Boards, c # b PROVE Holds(c)'
    <2>1. Holds(c) /\ board'[c] = board[c]
      BY <1>2, <1>6 DEF WInv, Hold
    <2>2. \A q : q.by = c => (q \in sent' => q \in sent)
      BY <1>6
    <2> QED BY <2>1, <2>2, KeepsHolding DEF Holds
  <1> QED BY <1>1, <1>5, <1>6 DEF WInv, Hold, ProcShaped

\* An answer that ends what the board was at, if it still is there.
LEMMA AnswerHolds ==
  ASSUME WInv, NEW r \in sent, Answered(r), file' = file,
         proc' = proc \/ ~Up', DOMAIN proc' = {"st", "from", "child"},
         DOMAIN board' = Boards,
         \A b \in Boards : \/ board'[b] = board[b]
                           \/ b = r.by /\ DOMAIN board'[b] = BoardFields /\ board'[b].mine = FALSE
  PROVE  WInv'
  <1>1. ASSUME NEW b \in Boards PROVE Holds(b)'
    <2>1. Holds(b)
      BY DEF WInv, Hold
    <2>2. CASE board'[b] = board[b]
      <3>1. \A q : q.by = b => (q \in sent' => q \in sent)
        BY DEF Answered
      <3> QED BY <2>1, <2>2, <3>1, KeepsHolding DEF Holds
    <2>3. CASE b = r.by /\ DOMAIN board'[b] = BoardFields /\ board'[b].mine = FALSE
      <3>1. \A q \in sent' : q.by # b
        BY <2>1, <2>3 DEF Holds, Asks, Answered
      <3> QED BY <2>3, <3>1, DoneHolding
    <2> QED BY <2>2, <2>3
  <1> QED BY <1>1 DEF WInv, Hold, ProcShaped

\* A board whose wait is over.
LEMMA WaitHolds ==
  ASSUME WInv, NEW b \in Boards, board[b].at = "waiting", UNCHANGED <<file, proc, sent>>,
         DOMAIN board' = Boards, DOMAIN board'[b] = BoardFields, board'[b].mine = FALSE,
         \A c \in Boards : c # b => board'[c] = board[c]
  PROVE  WInv'
  <1>1. ASSUME NEW c \in Boards PROVE Holds(c)'
    <2>1. Holds(c)
      BY DEF WInv, Hold
    <2>2. CASE c = b
      <3>1. \A q \in sent' : q.by # b
        BY <2>1, <2>2 DEF Holds, Asks
      <3> QED BY <2>2, <3>1, DoneHolding
    <2>3. CASE c # b
      BY <2>1, <2>3, KeepsHolding DEF Holds
    <2> QED BY <2>2, <2>3
  <1> QED BY <1>1 DEF WInv, Hold, ProcShaped

LEMMA FinishedFacts ==
  ASSUME WInv, NEW b \in Boards
  PROVE  /\ DOMAIN Finished(b) = Boards /\ DOMAIN Finished(b)[b] = BoardFields
         /\ Finished(b)[b].mine = FALSE
         /\ \A c \in Boards : c # b => Finished(b)[c] = board[c]
  <1>1. DOMAIN board = Boards /\ DOMAIN board[b] = BoardFields
    BY DEF WInv, Hold, Holds
  <1> QED BY <1>1 DEF Finished, BoardFields

LEMMA OverwritesFacts ==
  ASSUME WInv, NEW who
  PROVE  /\ DOMAIN Overwrites(who) = Boards
         /\ \A b \in Boards :
              /\ DOMAIN Overwrites(who)[b] = BoardFields
              /\ Overwrites(who)[b].at = board[b].at /\ Overwrites(who)[b].payload = board[b].payload
              /\ b # who => Overwrites(who)[b].mine = FALSE
              /\ b = who => Overwrites(who)[b] = board[b]
  <1>1. DOMAIN board = Boards /\ \A b \in Boards : DOMAIN board[b] = BoardFields
    BY DEF WInv, Hold, Holds
  <1> QED BY <1>1 DEF Overwrites, BoardFields

LEMMA SaveHolds == ASSUME WInv, NEW r \in sent, SaveServed(r) PROVE WInv'
  <1>1. /\ r.kind = "save" /\ file' = r.payload /\ proc' = proc
    BY DEF SaveServed
  <1>2. CASE r.by \in Boards
    <2> DEFINE b == r.by
    <2>1. /\ board' = [Overwrites(b) EXCEPT ![b].mine = TRUE]
          /\ sent' = (sent \ {r}) \cup {Request(b, "restart", NoSettings, r.now)}
      BY <1>2 DEF SaveServed
    <2>2. Holds(b) /\ b \in Boards
      BY <1>2 DEF WInv, Hold
    <2>0. PICK W : W = Overwrites(b)
      OBVIOUS
    <2>w. /\ DOMAIN W = Boards
          /\ \A c \in Boards :
              /\ DOMAIN W[c] = BoardFields /\ W[c].at = board[c].at /\ W[c].payload = board[c].payload
              /\ c # b => W[c].mine = FALSE
      BY <2>0, OverwritesFacts
    <2>3. /\ DOMAIN board' = Boards /\ DOMAIN board'[b] = BoardFields
          /\ board'[b].at = board[b].at /\ board'[b].payload = board[b].payload
          /\ \A c \in Boards : c # b => board'[c] = W[c]
      <3>1. board' = [W EXCEPT ![b] = [W[b] EXCEPT !.mine = TRUE]]
        BY <2>0, <2>1
      <3>2. board'[b] = [W[b] EXCEPT !.mine = TRUE] /\ DOMAIN board' = Boards
        BY <2>2, <2>w, <3>1
      <3>3. /\ DOMAIN board'[b] = BoardFields
            /\ board'[b].at = W[b].at /\ board'[b].payload = W[b].payload
        BY <2>2, <2>w, <3>2 DEF BoardFields
      <3> QED BY <2>2, <2>w, <3>1, <3>2, <3>3
    <2>4. board[b].at = "asking" /\ file' = board[b].payload /\ \A q \in sent \ {r} : q.by # b
      BY <1>1, <2>2 DEF Holds, Asks
    <2>5. PICK q : q = Request(b, "restart", NoSettings, r.now)
      OBVIOUS
    <2>6. q.by = b /\ q.kind = "restart" /\ IsRequest(q)
      BY <2>5 DEF Request, IsRequest
    <2>7. sent' = (sent \ {r}) \cup {q}
      BY <2>1, <2>5
    <2>8. Holds(b)'
      <3>1. \A p \in sent' : p.by = b => p = q
        BY <2>4, <2>7
      <3>2. \A p \in sent' : p.by = b => IsRequest(p)
        BY <2>6, <3>1
      <3>3. \A p \in sent' : p.by = b =>
              /\ board'[b].at = "asking" /\ IsRequest(p)
              /\ p.kind = "save" => p.payload = board'[b].payload
              /\ \A o \in sent' : o.by = b => o = p
        BY <2>3, <2>4, <2>6, <3>1, <3>2
      <3>4. PICK c : c = b
        OBVIOUS
      <3>5. Asks(c)'
        BY <3>3, <3>4 DEF Asks, IsRequest
      <3>6. /\ DOMAIN board'[c] = BoardFields /\ board'[c].at = "asking" /\ file' = board'[c].payload
        BY <2>3, <2>4, <3>4
      <3>7. Holds(c)'
        BY <3>5, <3>6 DEF Holds
      <3> QED BY <3>4, <3>7
    <2>9. ASSUME NEW c \in Boards, c # b PROVE Holds(c)'
      <3>1. Holds(c)
        BY DEF WInv, Hold
      <3>2. \A p : p.by = c => (p \in sent' => p \in sent)
        BY <2>6, <2>7, <2>9
      <3>3. /\ DOMAIN board'[c] = BoardFields /\ board'[c].at = board[c].at
            /\ board'[c].payload = board[c].payload /\ board'[c].mine = FALSE
        BY <2>3, <2>9, <2>w
      <3> QED BY <1>1, <3>1, <3>2, <3>3, KeepsHolding
    <2>10. ASSUME NEW c \in Boards PROVE Holds(c)'
      BY <2>8, <2>9
    <2> QED BY <1>1, <2>3, <2>10 DEF WInv, Hold, ProcShaped
  <1>3. CASE r.by \notin Boards
    <2>1. board' = Overwrites("nobody") /\ sent' = sent \ {r}
      BY <1>3 DEF SaveServed, Answered
    <2>2. ASSUME NEW c \in Boards PROVE Holds(c)'
      <3>1. Holds(c) /\ c # "nobody"
        BY DEF WInv, Hold, Boards
      <3>2. \A p : p.by = c => (p \in sent' => p \in sent)
        BY <2>1
      <3>3. /\ DOMAIN board'[c] = BoardFields /\ board'[c].at = board[c].at
            /\ board'[c].payload = board[c].payload /\ board'[c].mine = FALSE
        BY <2>1, <3>1, OverwritesFacts
      <3> QED BY <1>1, <3>1, <3>2, <3>3, KeepsHolding
    <2> QED BY <1>1, <2>1, <2>2, OverwritesFacts DEF WInv, Hold, ProcShaped
  <1> QED BY <1>2, <1>3

LEMMA RestartHolds == ASSUME WInv, NEW r \in sent, RestartServed(r) PROVE WInv'
  <1>1. /\ proc' = [proc EXCEPT !.st = "leaving"] /\ file' = file /\ sent' = sent \ {r}
        /\ board' = IF r.by \in Boards THEN [board EXCEPT ![r.by].at = "waiting"] ELSE board
    BY DEF RestartServed, Answered
  <1>2. DOMAIN proc' = {"st", "from", "child"} /\ ~Up'
    BY <1>1 DEF WInv, ProcShaped, Up
  <1>3. ASSUME NEW b \in Boards PROVE Holds(b)'
    <2>1. Holds(b) /\ DOMAIN board = Boards
      BY DEF WInv, Hold
    <2>2. CASE b # r.by
      <3>1. board'[b] = board[b]
        BY <1>1, <2>1, <2>2
      <3>2. \A q : q.by = b => (q \in sent' => q \in sent)
        BY <1>1
      <3> QED BY <1>1, <1>2, <2>1, <3>1, <3>2, KeepsHolding DEF Holds
    <2>3. CASE b = r.by
      <3>1. board'[b] = [board[b] EXCEPT !.at = "waiting"]
        BY <1>1, <2>1, <2>3
      <3>2. /\ DOMAIN board'[b] = BoardFields /\ board'[b].mine = board[b].mine
            /\ board'[b].payload = board[b].payload
        BY <2>1, <3>1 DEF Holds, BoardFields
      <3>3. \A q \in sent' : q.by # b
        BY <1>1, <2>1, <2>3 DEF Holds, Asks
      <3> QED BY <1>1, <1>2, <2>1, <3>2, <3>3 DEF Holds, Asks
    <2> QED BY <2>2, <2>3
  <1> QED BY <1>1, <1>2, <1>3 DEF WInv, Hold, ProcShaped

LEMMA ClickHolds == WInv /\ Requests /\ Clicked => WInv'
  <1> SUFFICES ASSUME WInv, Requests, Clicked PROVE WInv'
    OBVIOUS
  <1>1. CASE Save
    <2>1. /\ UNCHANGED <<file, proc, board>>
          /\ sent' = sent \cup {Request("save", "save", draft, FALSE)}
      BY <1>1 DEF Save, server
    <2>2. Request("save", "save", draft, FALSE).by = "save"
      BY DEF Request
    <2>3. \A b \in Boards : \A r : r.by = b => (r \in sent' => r \in sent)
      BY <2>1, <2>2 DEF Boards
    <2> QED BY <2>1, <2>3, AllKeep DEF WInv, ProcShaped
  <1>2. ASSUME NEW b \in Boards, Shown(b), NEW now, NEW rest, do_restart(b, now, rest),
               DOMAIN rest = BoardFields
        PROVE  WInv'
    <2>1. board[b].at = "idle"
      BY <1>2 DEF Shown
    <2>2. PICK new : new = [rest EXCEPT !.at = "asking", !.payload = draft, !.mine = FALSE]
      OBVIOUS
    <2>3. DOMAIN new = BoardFields /\ new.at = "asking" /\ new.payload = draft /\ new.mine = FALSE
      BY <1>2, <2>2 DEF BoardFields
    <2>4. board' = [board EXCEPT ![b] = new] /\ UNCHANGED <<file, proc>>
      BY <1>2, <2>2 DEF do_restart, server
    <2>5. PICK r : r = IF seeded THEN Request(b, "save", draft, now)
                                 ELSE Request(b, "restart", NoSettings, now)
      OBVIOUS
    <2>6. IsRequest(r) /\ r.by = b /\ (r.kind = "save" => r.payload = new.payload)
      BY <2>3, <2>5 DEF IsRequest, Request
    <2>7. sent' = sent \cup {r}
      BY <1>2, <2>5 DEF do_restart
    <2> QED BY <2>1, <2>3, <2>4, <2>6, <2>7, AskHolds
  <1>3. ASSUME NEW b \in Boards, ClickRestart(b) \/ ClickApply(b) \/ ClickNow(b) PROVE WInv'
    <2>1. DOMAIN board[b] = BoardFields
      BY DEF WInv, Hold, Holds
    <2>2. DOMAIN [board[b] EXCEPT !.confirm = FALSE] = BoardFields
      BY <2>1
    <2> QED BY <1>2, <1>3, <2>1, <2>2 DEF ClickRestart, ClickApply, ClickNow
  <1>4. ASSUME NEW b \in Boards, NameEdits(b) PROVE WInv'
    <2>1. DOMAIN board = Boards /\ \A c \in Boards : Holds(c) /\ DOMAIN board[c] = BoardFields
      BY DEF WInv, Hold, Holds
    <2>2. board' = [board EXCEPT ![b].confirm = TRUE] /\ UNCHANGED <<file, proc, sent>>
      BY <1>4 DEF NameEdits, server
    <2>3. ASSUME NEW c \in Boards PROVE Holds(c)'
      <3>1. /\ DOMAIN board'[c] = BoardFields /\ board'[c].at = board[c].at
            /\ board'[c].payload = board[c].payload /\ board'[c].mine = board[c].mine
        BY <2>1, <2>2 DEF BoardFields
      <3> QED BY <2>1, <2>2, <3>1, KeepsHolding
    <2> QED BY <2>1, <2>2, <2>3 DEF WInv, Hold, ProcShaped
  <1>5. ASSUME NEW force \in BOOLEAN, ClickStop(force) PROVE WInv'
    <2>1. board["panel"].at = "idle" /\ "panel" \in Boards /\ DOMAIN board["panel"] = BoardFields
      BY <1>5 DEF ClickStop, Shown, Boards, WInv, Hold, Holds
    <2>2. PICK new : new = [board["panel"] EXCEPT !.at = "asking"]
      OBVIOUS
    <2>3. /\ DOMAIN new = BoardFields /\ new.at = "asking"
          /\ new.payload = board["panel"].payload /\ new.mine = board["panel"].mine
      BY <2>1, <2>2 DEF BoardFields
    <2>4. PICK r : r = Request("panel", "stop", NoSettings, force)
      OBVIOUS
    <2>5. IsRequest(r) /\ r.by = "panel" /\ r.kind = "stop"
      BY <2>4 DEF IsRequest, Request
    <2>6. board' = [board EXCEPT !["panel"] = new] /\ sent' = sent \cup {r} /\ UNCHANGED <<file, proc>>
      BY <1>5, <2>2, <2>4 DEF ClickStop, server
    <2> QED BY <2>1, <2>3, <2>5, <2>6, AskHolds
  <1> QED BY <1>1, <1>3, <1>4, <1>5 DEF Clicked

LEMMA ServedHolds == WInv /\ Served => WInv'
  <1> SUFFICES ASSUME WInv, NEW r \in sent,
                      SaveServed(r) \/ SaveRefused(r) \/ RestartQueued(r) \/ RestartServed(r)
                          \/ StopServed(r) \/ StopRefused(r) \/ Unreachable(r)
               PROVE  WInv'
    BY DEF Served
  <1> DEFINE Ended(bd) == DOMAIN bd = Boards /\ \A b \in Boards :
                 \/ bd[b] = board[b]
                 \/ b = r.by /\ DOMAIN bd[b] = BoardFields /\ bd[b].mine = FALSE
  <1>0. DOMAIN board = Boards /\ Ended(board)
    BY DEF WInv, Hold
  <1>1. r.by \in Boards => Ended(Finished(r.by))
    BY FinishedFacts
  <1>2. ASSUME r.by \in Boards, NEW v
        PROVE  /\ Ended([Finished(r.by) EXCEPT ![r.by].restart_force = v])
               /\ Ended([Finished(r.by) EXCEPT ![r.by].force = v])
    <2>1. PICK F : F = Finished(r.by)
      OBVIOUS
    <2>2. /\ DOMAIN F = Boards /\ DOMAIN F[r.by] = BoardFields /\ F[r.by].mine = FALSE
          /\ \A c \in Boards : c # r.by => F[c] = board[c]
      BY <1>2, <2>1, FinishedFacts
    <2>3. /\ Ended([F EXCEPT ![r.by] = [F[r.by] EXCEPT !.restart_force = v]])
          /\ Ended([F EXCEPT ![r.by] = [F[r.by] EXCEPT !.force = v]])
      BY <1>2, <2>2 DEF BoardFields
    <2> QED BY <2>1, <2>3
  <1>3. "panel" \in Boards /\ "banner" \in Boards
    BY DEF Boards
  <1> HIDE DEF Ended
  <1>4. CASE SaveRefused(r)
    <2>1. Ended(board') /\ UNCHANGED <<file, proc>> /\ Answered(r)
      BY <1>0, <1>1, <1>4 DEF SaveRefused, server
    <2> QED BY <2>1, AnswerHolds DEF Ended, WInv, ProcShaped
  <1>5. CASE RestartQueued(r)
    <2>1. Ended(board')
      BY <1>0, <1>1, <1>2, <1>3, <1>5 DEF RestartQueued
    <2>2. UNCHANGED <<file, proc>> /\ Answered(r)
      BY <1>5 DEF RestartQueued
    <2> QED BY <2>1, <2>2, AnswerHolds DEF Ended, WInv, ProcShaped
  <1>6. CASE StopServed(r)
    <2>1. Ended(board')
      <3>1. CASE r.by = "panel" /\ r.now
        <4>1. board' = [Finished(r.by) EXCEPT ![r.by].force = FALSE]
          BY <1>6, <3>1 DEF StopServed
        <4> QED BY <1>2, <1>3, <3>1, <4>1
      <3>2. CASE r.by = "panel" /\ ~r.now
        <4>1. board' = [Finished(r.by) EXCEPT ![r.by].force = @]
          BY <1>6, <3>2 DEF StopServed
        <4> QED BY <1>2, <1>3, <3>2, <4>1
      <3>3. CASE r.by # "panel"
        BY <1>0, <1>6, <3>3 DEF StopServed
      <3> QED BY <3>1, <3>2, <3>3
    <2>2. /\ file' = file /\ Answered(r) /\ ~Up' /\ DOMAIN proc' = {"st", "from", "child"}
      BY <1>6 DEF StopServed, WInv, ProcShaped, Up
    <2> QED BY <2>1, <2>2, AnswerHolds DEF Ended
  <1>7. CASE StopRefused(r)
    <2>1. Ended(board')
      BY <1>0, <1>2, <1>3, <1>7 DEF StopRefused
    <2>2. UNCHANGED <<file, proc>> /\ Answered(r)
      BY <1>7 DEF StopRefused, server
    <2> QED BY <2>1, <2>2, AnswerHolds DEF Ended, WInv, ProcShaped
  <1>8. CASE Unreachable(r)
    <2>1. Ended(board')
      BY <1>0, <1>1, <1>8 DEF Unreachable
    <2>2. UNCHANGED <<file, proc>> /\ Answered(r)
      BY <1>8 DEF Unreachable, server
    <2> QED BY <2>1, <2>2, AnswerHolds DEF Ended, WInv, ProcShaped
  <1>9. CASE SaveServed(r) \/ RestartServed(r)
    BY <1>9, SaveHolds, RestartHolds
  <1> QED BY <1>4, <1>5, <1>6, <1>7, <1>8, <1>9

LEMMA WaitedHolds == WInv /\ Waited => WInv'
  <1> SUFFICES ASSUME WInv, NEW b \in Boards, Healthy(b) \/ GivesUp(b) PROVE WInv'
    BY DEF Waited
  <1>1. PICK F : F = Finished(b)
    OBVIOUS
  <1>2. /\ DOMAIN F = Boards /\ DOMAIN F[b] = BoardFields /\ F[b].mine = FALSE
        /\ \A c \in Boards : c # b => F[c] = board[c]
    BY <1>1, FinishedFacts
  <1>3. board' = F \/ board' = [F EXCEPT ![b] = [F[b] EXCEPT !.restart_force = FALSE]]
    BY <1>1 DEF Healthy, GivesUp
  <1>4. /\ DOMAIN board' = Boards /\ DOMAIN board'[b] = BoardFields /\ board'[b].mine = FALSE
        /\ \A c \in Boards : c # b => board'[c] = board[c]
    BY <1>2, <1>3 DEF BoardFields
  <1>5. board[b].at = "waiting" /\ UNCHANGED <<file, proc, sent>>
    BY DEF Healthy, GivesUp, server
  <1> QED BY <1>4, <1>5, WaitHolds

LEMMA WStep == WInv /\ Requests /\ [SettingsNext]_settingsVars => WInv'
  <1> SUFFICES ASSUME WInv, Requests, [SettingsNext]_settingsVars PROVE WInv'
    OBVIOUS
  <1>1. CASE UNCHANGED <<file, proc, board, sent>>
    BY <1>1, AllKeep DEF WInv, ProcShaped
  <1>2. CASE Open \/ Seed \/ Heal \/ ParamsArrive \/ UNCHANGED settingsVars
    BY <1>1, <1>2 DEF Open, Seed, Heal, ParamsArrive, settingsVars, server
  <1>3. CASE Close \/ Fails
    BY <1>3, UnmountHolds DEF Close, Fails, server
  <1>4. CASE Typed
    <2>1. PICK id, v : EditParam(id, v) \/ Elsewhere(id, v)
      BY <1>4 DEF Typed
    <2>2. CASE EditParam(id, v)
      BY <1>1, <2>2 DEF EditParam, server
    <2>3. CASE Elsewhere(id, v)
      <3>1. board' = Overwrites("nobody") /\ UNCHANGED <<proc, sent>>
        BY <2>3 DEF Elsewhere
      <3>2. ASSUME NEW c \in Boards PROVE Holds(c)'
        <4>1. Holds(c) /\ c # "nobody"
          BY DEF WInv, Hold, Boards
        <4>2. /\ DOMAIN board'[c] = BoardFields /\ board'[c].at = board[c].at
              /\ board'[c].payload = board[c].payload /\ board'[c].mine = FALSE
          BY <3>1, <4>1, OverwritesFacts
        <4> QED BY <3>1, <4>1, <4>2, KeepsHolding
      <3> QED BY <3>1, <3>2, OverwritesFacts DEF WInv, Hold, ProcShaped
    <2> QED BY <2>1, <2>2, <2>3
  <1>5. CASE Clicked
    BY <1>5, ClickHolds
  <1>6. CASE Served
    BY <1>6, ServedHolds
  <1>7. CASE Waited
    BY <1>7, WaitedHolds
  <1>8. CASE JobStarts \/ JobEnds \/ Exits \/ Crashes \/ Boots \/ StartedByHand
    <2>1. UNCHANGED <<file, board, sent>>
      BY <1>8 DEF JobStarts, JobEnds, Exits, Crashes, Boots, StartedByHand, clients
    <2>2. /\ proc' = proc \/ ~Up' \/ proc'.from = file'
          /\ DOMAIN proc' = {"st", "from", "child"}
      BY <1>8 DEF JobStarts, JobEnds, Exits, Crashes, Boots, StartedByHand, Started, Down, Up,
                  WInv, ProcShaped
    <2> QED BY <2>1, <2>2, AllKeep
  <1> QED
    BY <1>2, <1>3, <1>4, <1>5, <1>6, <1>7, <1>8 DEF SettingsNext, Fetched

\* A board that waits for the back end finds it running with what the board
\* saved, unless that was overwritten in the meantime: whichever boards ask,
\* whoever else saves, and however often the process comes and goes.
THEOREM WaitersFindTheirs == SettingsSpec => []RestartApplies
  <1>1. KInv /\ Shaped /\ WInv /\ [SettingsNext]_settingsVars => (KInv /\ Shaped /\ WInv)'
    BY KStep, ShapedStep, WStep DEF KInv
  <1>2. WInv => RestartApplies
    BY DEF WInv, Hold, Holds, RestartApplies
  <1> QED
    BY <1>1, <1>2, KInit, ShapedInit, WInit, PTL DEF SettingsSpec

-----------------------------------------------------------------------------
(* A restart leaves nothing pending. *)

\* Settings are settings on every way between the page and the file.
Legal ==
    /\ IsSettings(file) /\ IsSettings(draft) /\ IsSettings(page.settings)
    /\ \A r \in sent : r.kind = "save" => IsSettings(r.payload)
LInv == Legal /\ Shaped /\ ProcShaped /\ Requests

LEMMA NoSettingsAreLegal == IsSettings(NoSettings)
  BY DEF IsSettings, NoSettings

LEMMA WithIsLegal ==
  ASSUME NEW s, IsSettings(s), NEW id \in Edited, NEW v \in ValuesOf[id] \cup {Cleared}
  PROVE  IsSettings(With(s, id, v))
  <1>1. CASE v = Cleared
    BY <1>1 DEF With, Restrict, IsSettings
  <1>2. CASE v # Cleared
    BY <1>2, SettingsAssumption DEF With, IsSettings
  <1> QED BY <1>1, <1>2

LEMMA LegalInit == AnyInit /\ IsSettings(file) => LInv
  <1>1. ASSUME NEW files, NEW first \in {Opened, Closed}, SettingsInit(files, first), IsSettings(file)
        PROVE  Legal /\ ProcShaped /\ Requests
    <2>1. Closed.settings = NoSettings /\ Opened.settings = NoSettings
      BY DEF Opened, Closed
    <2>2. page.settings = NoSettings /\ draft = NoSettings /\ sent = {} /\ proc = Started(file)
      BY <1>1, <2>1 DEF SettingsInit
    <2> QED BY <1>1, <2>2, NoSettingsAreLegal DEF Legal, ProcShaped, Started, Requests
  <1> QED BY <1>1, ShapedInit DEF AnyInit, LInv

\* Nothing legal comes to harm when the page's settings go, and what is sent is
\* known or the draft.
LEMMA LegalKeeps ==
  ASSUME Legal, UNCHANGED <<file, draft>>,
         page'.settings = page.settings \/ page'.settings = file \/ page'.settings = NoSettings,
         \A r \in sent' : r \in sent \/ r.kind # "save" \/ r.payload = draft
  PROVE  Legal'
  <1>1. ASSUME NEW r \in sent', r.kind = "save" PROVE IsSettings(r.payload)
    BY <1>1 DEF Legal
  <1>2. IsSettings(page'.settings)
    BY NoSettingsAreLegal DEF Legal
  <1>3. \A r \in sent' : (r.kind = "save") => IsSettings(r.payload)
    BY <1>1
  <1> QED BY <1>2, <1>3 DEF Legal, IsSettings

LEMMA UnmountIsLegal ==
  ASSUME LInv, Unmount, UNCHANGED file, IsSettings(draft'),
         page'.settings = page.settings \/ page'.settings = NoSettings
  PROVE  Legal'
  <1>1. ASSUME NEW r \in sent', r.kind = "save" PROVE IsSettings(r.payload)
    <2>1. PICK q \in sent : r = [q EXCEPT !.by = "gone"]
      BY DEF Unmount
    <2>2. q = [by |-> q.by, kind |-> q.kind, payload |-> q.payload, now |-> q.now]
      BY DEF LInv, Requests, IsRequest, Request
    <2>3. r.kind = q.kind /\ r.payload = q.payload
      BY <2>1, <2>2
    <2> QED BY <1>1, <2>3 DEF LInv, Legal
  <1>2. IsSettings(page'.settings)
    BY NoSettingsAreLegal DEF LInv, Legal
  <1>3. \A r \in sent' : (r.kind = "save") => IsSettings(r.payload)
    BY <1>1
  <1> QED BY <1>2, <1>3 DEF LInv, Legal, IsSettings

\* A click changes nothing but the boards, and sends one request.
LEMMA ClickMoves ==
  ASSUME Clicked
  PROVE  /\ UNCHANGED <<file, draft, page, proc>>
         /\ \A r \in sent' : r \in sent \/ r.kind # "save" \/ r.payload = draft
  <1>1. CASE Save
    BY <1>1 DEF Save, server, Request
  <1>2. ASSUME NEW b, NEW now, NEW rest, do_restart(b, now, rest)
        PROVE  /\ UNCHANGED <<file, draft, page, proc>>
               /\ \A r \in sent' : r \in sent \/ r.kind # "save" \/ r.payload = draft
    BY <1>2 DEF do_restart, server, Request
  <1>3. CASE \E b \in Boards : ClickRestart(b) \/ ClickApply(b) \/ ClickNow(b)
    BY <1>2, <1>3 DEF ClickRestart, ClickApply, ClickNow
  <1>4. CASE \E b \in Boards : NameEdits(b)
    BY <1>4 DEF NameEdits, server
  <1>5. CASE \E force \in BOOLEAN : ClickStop(force)
    BY <1>5 DEF ClickStop, server, Request
  <1> QED
    BY <1>1, <1>3, <1>4, <1>5 DEF Clicked

LEMMA LegalStep == LInv /\ [SettingsNext]_settingsVars => Legal'
  <1> SUFFICES ASSUME LInv, [SettingsNext]_settingsVars PROVE Legal'
    OBVIOUS
  <1>0. Legal /\ Shaped /\ Requests
    BY DEF LInv
  <1>1. CASE JobStarts \/ JobEnds \/ Exits \/ Crashes \/ Boots \/ StartedByHand \/ UNCHANGED settingsVars
    <2>1. UNCHANGED <<file, draft, page, sent>>
      BY <1>1 DEF JobStarts, JobEnds, Exits, Crashes, Boots, StartedByHand, clients, settingsVars, server
    <2> QED BY <1>0, <2>1, LegalKeeps
  <1>2. CASE Open \/ ParamsArrive \/ Heal \/ Waited
    <2>1. UNCHANGED <<file, draft, sent>>
      BY <1>2 DEF Open, ParamsArrive, Heal, Waited, Healthy, GivesUp, server
    <2>2. Opened.settings = NoSettings
      BY DEF Opened, Closed
    <2>3. page'.settings = page.settings \/ page'.settings = file \/ page'.settings = NoSettings
      BY <1>0, <1>2, <2>2 DEF Open, ParamsArrive, Heal, Waited, Healthy, GivesUp, Reload, Shaped
    <2> QED BY <1>0, <2>1, <2>3, LegalKeeps
  <1>3. CASE Close
    <2>1. page'.settings = NoSettings /\ draft' = NoSettings /\ file' = file /\ Unmount
      BY <1>3 DEF Close, Closed, server
    <2>2. IsSettings(draft')
      BY <2>1, NoSettingsAreLegal
    <2> QED BY <2>1, <2>2, UnmountIsLegal
  <1>4. CASE Fails
    <2>1. page'.settings = NoSettings /\ draft' = draft /\ file' = file /\ Unmount
      BY <1>0, <1>4 DEF Fails, server, Shaped
    <2>2. IsSettings(draft')
      BY <1>0, <2>1 DEF Legal
    <2> QED BY <2>1, <2>2, UnmountIsLegal
  <1>5. CASE Seed
    <2>1. draft' = page.settings /\ UNCHANGED <<file, page, sent>>
      BY <1>5 DEF Seed, server
    <2> QED BY <1>0, <2>1 DEF Legal, IsSettings
  <1>6. CASE Typed
    <2>1. PICK id \in Edited : \E v \in ValuesOf[id] \cup {Cleared} : EditParam(id, v) \/ Elsewhere(id, v)
      BY <1>6 DEF Typed
    <2>2. PICK v \in ValuesOf[id] \cup {Cleared} : EditParam(id, v) \/ Elsewhere(id, v)
      BY <2>1
    <2>3. CASE EditParam(id, v)
      <3>1. draft' = With(draft, id, v) /\ UNCHANGED <<file, page, sent>>
        BY <2>3 DEF EditParam, server
      <3>2. IsSettings(With(draft, id, v))
        BY <1>0, WithIsLegal DEF Legal
      <3> QED BY <1>0, <3>1, <3>2 DEF Legal, IsSettings
    <2>4. CASE Elsewhere(id, v)
      <3>1. file' = With(file, id, v) /\ UNCHANGED <<draft, page, sent>>
        BY <2>4 DEF Elsewhere
      <3>2. IsSettings(With(file, id, v))
        BY <1>0, WithIsLegal DEF Legal
      <3> QED BY <1>0, <3>1, <3>2 DEF Legal, IsSettings
    <2> QED BY <2>2, <2>3, <2>4
  <1>7. CASE Clicked
    <2>1. UNCHANGED <<file, draft, page>>
      BY <1>7, ClickMoves
    <2>2. \A r \in sent' : r \in sent \/ r.kind # "save" \/ r.payload = draft
      BY <1>7, ClickMoves
    <2> QED BY <1>0, <2>1, <2>2, LegalKeeps
  <1>8. CASE Served
    <2>1. PICK r \in sent : SaveServed(r) \/ SaveRefused(r) \/ RestartQueued(r) \/ RestartServed(r)
                                \/ StopServed(r) \/ StopRefused(r) \/ Unreachable(r)
      BY <1>8 DEF Served
    <2>2. draft' = draft
      BY <2>1 DEF SaveServed, SaveRefused, RestartQueued, RestartServed, StopServed, StopRefused, Unreachable
    <2>3. page'.settings = page.settings
      BY <1>0, <2>1 DEF SaveServed, SaveRefused, RestartQueued, RestartServed, StopServed, StopRefused,
                        Unreachable, Reload, Shaped
    <2>4. \A q \in sent' : q \in sent \/ q.kind # "save"
      <3>1. sent' = sent \ {r} \/ sent' = (sent \ {r}) \cup {Request(r.by, "restart", NoSettings, r.now)}
        BY <2>1 DEF SaveServed, SaveRefused, RestartQueued, RestartServed, StopServed, StopRefused,
                    Unreachable, Answered
      <3>2. Request(r.by, "restart", NoSettings, r.now).kind = "restart"
        BY DEF Request
      <3> QED BY <3>1, <3>2
    <2>5. file' = file \/ (r.kind = "save" /\ file' = r.payload)
      BY <2>1 DEF SaveServed, SaveRefused, RestartQueued, RestartServed, StopServed, StopRefused,
                  Unreachable, server
    <2>6. CASE file' = file
      BY <1>0, <2>2, <2>3, <2>4, <2>6, LegalKeeps
    <2>7. CASE r.kind = "save" /\ file' = r.payload
      <3>1. IsSettings(r.payload)
        BY <1>0, <2>7 DEF Legal
      <3>2. IsSettings(file') /\ IsSettings(draft') /\ IsSettings(page'.settings)
        BY <1>0, <2>2, <2>3, <2>7, <3>1 DEF Legal
      <3>3. \A q \in sent' : q.kind = "save" => IsSettings(q.payload)
        BY <1>0, <2>4 DEF Legal
      <3> QED BY <3>2, <3>3 DEF Legal, IsSettings
    <2> QED BY <2>5, <2>6, <2>7
  <1> QED
    BY <1>1, <1>2, <1>3, <1>4, <1>5, <1>6, <1>7, <1>8 DEF SettingsNext, Fetched

\* A process that is started leaves pending of the file it was started from
\* exactly the flags of its runtime whose value has a space in it, and is only
\* given what that runtime takes: for any registry whose rows keep to
\* RegistryAssumption, and whatever the texts of its options have in common,
\* from any settings to begin with.
THEOREM RestartLeavesNothing == SettingsSpec /\ IsSettings(file) => RestartSettles
  <1>1. KInv /\ LInv /\ WInv /\ [SettingsNext]_settingsVars => (KInv /\ LInv /\ WInv)'
    BY KStep, ShapedStep, WStep, LegalStep DEF KInv, LInv, WInv
  <1>2. LInv /\ [SettingsNext]_settingsVars =>
          [proc' # proc /\ proc'.st = "up" => RestartSettlesIt(proc'.from)]_settingsVars
    <2> SUFFICES ASSUME LInv, SettingsNext, proc' # proc, proc'.st = "up"
                 PROVE  RestartSettlesIt(proc'.from)
      OBVIOUS
    <2>1. Boots \/ StartedByHand
      <3>1. proc' = [proc EXCEPT !.st = "leaving"] \/ proc' = [proc EXCEPT !.st = "ending"] => proc'.st # "up"
        BY DEF LInv, ProcShaped
      <3>2. Down("down").st # "up" /\ Down("off").st # "up"
        BY DEF Down
      <3>3. CASE Open \/ Close \/ Fetched \/ Seed \/ Heal \/ Waited
        BY <3>3 DEF Open, Close, Fetched, ParamsArrive, Fails, Seed, Heal, Waited, Healthy, GivesUp, server
      <3>4. CASE Typed \/ Clicked
        BY <3>4, ClickMoves DEF Typed, EditParam, Elsewhere, server
      <3>5. CASE Served
        BY <3>1, <3>5 DEF Served, SaveServed, SaveRefused, RestartQueued, RestartServed, StopServed,
                          StopRefused, Unreachable, server
      <3>6. CASE JobStarts \/ JobEnds \/ Exits \/ Crashes
        BY <3>1, <3>2, <3>6 DEF JobStarts, JobEnds, Exits, Crashes, clients
      <3> QED BY <3>3, <3>4, <3>5, <3>6 DEF SettingsNext
    <2>2. proc'.from = file
      BY <2>1 DEF Boots, StartedByHand, Started
    <2>3. PICK f : f = file
      OBVIOUS
    <2>4. RestartSettlesIt(f)
      BY <2>3, Settles DEF LInv, Legal
    <2> QED BY <2>2, <2>3, <2>4
  <1> QED
    BY <1>1, <1>2, KInit, WInit, LegalInit, PTL DEF SettingsSpec, RestartSettles
==============================================================================
