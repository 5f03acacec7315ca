---------------------------- MODULE WebhooksPage ----------------------------
(***************************************************************************)
(* The webhooks that are made on a page: the tile on Config -> Jobs and    *)
(* the boards on Config -> Webhooks, two doors to one store                *)
(* (fe/src/components/webhooks.rs, fe/src/pages/config_webhooks.rs), the   *)
(* requests they make (fe/src/api/client.rs), and the store                *)
(* (be/src/webhooks.ts, be/src/server.ts).                                 *)
(*                                                                         *)
(* Each door is a tab of its own.  A definition is cut down to a label, a  *)
(* family, a kind, the prefix of the signature, and one field for each     *)
(* kind.  A request is sent, and later served and answered in one step.    *)
(***************************************************************************)
EXTENDS Naturals, FiniteSets

CONSTANTS
    HookIds, Labels, Families, SignaturePrefixes,
    MAX_WEBHOOKS,
    MaxPending,     \* bound: requests of one door under way
    MaxTouches      \* bound: what the users of the two doors do

VARIABLES
    hooks,      \* webhooks.ts: store, by id
    list,       \* door -> the resource's value
    reloads,    \* door -> the resource is to run
    form,       \* door -> draft
    busy,       \* door -> busy
    pending,    \* requests under way
    touches

hookVars == <<hooks, list, reloads, form, busy, pending, touches>>

Doors == {"jobs", "families"}
HookKinds == {"notification", "dataPayload", "command"}
Empty == ""             \* an empty box, and a string that is empty
Absent == "absent"      \* None: inherit the default, or no such field
NoHooks == [h \in {} |-> Empty]
NoForm == [replacing |-> "no form"]
New == "new"            \* None: there is nothing it replaces
TheJob == "the job"

ASSUME HooksAssumption == New \notin HookIds

Lookups == {"url", "url and token"}
Defs == [label : Labels, family : Families \cup {Absent}, kind : HookKinds,
         prefix : SignaturePrefixes \cup {Empty, Absent}, job : {TheJob, Absent},
         lookup : Lookups \cup {Empty, Absent}, routes : {"routes", Empty, Absent}]
Def == {d \in Defs : /\ (d.kind = "command") = (d.job = Absent)
                     /\ (d.kind = "notification") = (d.lookup # Absent)
                     /\ (d.kind = "command") = (d.routes # Absent)}

-----------------------------------------------------------------------------
(* The draft, and with it the list it was made from and what was typed. *)

Box(v) == IF v = Absent THEN Empty ELSE v
some_if_filled(v) == IF v = Empty THEN Absent ELSE v

blank(kind, family, at) ==
    [at |-> at, typed |-> {}, replacing |-> New,
     id |-> Empty, label |-> Empty, kind |-> kind, family |-> family,
     prefix |-> Empty, bare_prefix |-> FALSE, job |-> TheJob, lookup |-> Empty, routes |-> Empty]

from_webhook(id, d, at) ==
    [at |-> at, typed |-> {}, replacing |-> id,
     id |-> id, label |-> d.label, kind |-> d.kind, family |-> d.family,
     prefix |-> Box(d.prefix), bare_prefix |-> d.prefix = Empty,
     job |-> IF d.job = Absent THEN TheJob ELSE d.job, lookup |-> Box(d.lookup), routes |-> Box(d.routes)]

\* Mutant: a bare digest is an empty box like any other.
to_def_inherits(f) ==
    [label |-> f.label, family |-> f.family, kind |-> f.kind, prefix |-> some_if_filled(f.prefix),
     job |-> IF f.kind = "command" THEN Absent ELSE f.job,
     lookup |-> IF f.kind = "notification" THEN f.lookup ELSE Absent,
     routes |-> IF f.kind = "command" THEN f.routes ELSE Absent]

\* What the kind does not use is left off.
to_def(f) ==
    [label |-> f.label, family |-> f.family, kind |-> f.kind,
     prefix |-> IF f.bare_prefix THEN Empty ELSE some_if_filled(f.prefix),
     job |-> IF f.kind = "command" THEN Absent ELSE f.job,
     lookup |-> IF f.kind = "notification" THEN f.lookup ELSE Absent,
     routes |-> IF f.kind = "command" THEN f.routes ELSE Absent]

-----------------------------------------------------------------------------

HooksTypeOK ==
    /\ DOMAIN hooks \subseteq HookIds /\ Cardinality(DOMAIN hooks) <= MAX_WEBHOOKS
    /\ \A h \in DOMAIN hooks : hooks[h] \in Def
    /\ \A d \in Doors : list[d].st \in {"loading", "err"} \/ DOMAIN list[d].hooks \subseteq HookIds
    /\ reloads \in [Doors -> BOOLEAN] /\ busy \in [Doors -> BOOLEAN]
    /\ touches \in 0..MaxTouches

HooksInit(initial) ==
    /\ hooks \in initial
    /\ list = [d \in Doors |-> [st |-> "loading"]] /\ reloads = [d \in Doors |-> TRUE]
    /\ form = [d \in Doors |-> NoForm] /\ busy = [d \in Doors |-> FALSE]
    /\ pending = {} /\ touches = 0

Touches == touches < MaxTouches /\ touches' = touches + 1
IsOpen(d) == form[d] # NoForm
Listed(d) == list[d].st = "ok"

\* GET /api/webhooks.
Lists(d) ==
    /\ reloads[d] /\ reloads' = [reloads EXCEPT ![d] = FALSE]
    /\ list' = [list EXCEPT ![d] = [st |-> "ok", hooks |-> hooks]]
    /\ UNCHANGED <<hooks, form, busy, pending, touches>>

ListFails(d) ==
    /\ reloads[d] /\ reloads' = [reloads EXCEPT ![d] = FALSE]
    /\ list' = [list EXCEPT ![d] = [st |-> "err"]]
    /\ UNCHANGED <<hooks, form, busy, pending, touches>>

-----------------------------------------------------------------------------
(* The buttons and the form. *)

OpenForm(d, f) ==
    /\ Listed(d) /\ Touches /\ form' = [form EXCEPT ![d] = f]
    /\ UNCHANGED <<hooks, list, reloads, busy, pending>>

\* "+ New": one of the kinds on a board of a family, the first on the tile.
Make(d, kind, family) ==
    /\ Listed(d) => Cardinality(DOMAIN list[d].hooks) < MAX_WEBHOOKS
    /\ CASE d = "jobs" -> ~IsOpen(d) /\ kind = "dataPayload" /\ family = Absent
         [] d = "families" -> ~busy[d] /\ family # Absent
    /\ OpenForm(d, blank(kind, family, list[d].hooks))

EditHook(d, h) ==
    /\ Listed(d) /\ h \in DOMAIN list[d].hooks
    /\ OpenForm(d, from_webhook(h, list[d].hooks[h], list[d].hooks))

CancelForm(d) == IsOpen(d) /\ OpenForm(d, NoForm)

\* A box or a select of the form.
Written(f, field, v) == [f EXCEPT ![field] = v, !.typed = @ \cup {field},
                                  !.bare_prefix = @ /\ field # "prefix"]
Types(d, field, v) ==
    /\ IsOpen(d) /\ Listed(d) /\ Touches /\ form[d][field] # v
    /\ form' = [form EXCEPT ![d] = Written(form[d], field, v)]
    /\ UNCHANGED <<hooks, list, reloads, busy, pending>>

\* "The value is a bare hex digest": on, it empties the box.
Turned(f) == [f EXCEPT !.bare_prefix = ~@, !.typed = @ \cup {"prefix"},
                       !.prefix = IF f.bare_prefix THEN @ ELSE Empty]
Bare(d) ==
    /\ IsOpen(d) /\ Listed(d) /\ Touches
    /\ form' = [form EXCEPT ![d] = Turned(form[d])]
    /\ UNCHANGED <<hooks, list, reloads, busy, pending>>

KindButtons(d) == \E k \in HookKinds : Types(d, "kind", k)
Identity(d) ==
    \/ \E h \in HookIds : Types(d, "id", h)
    \/ \E l \in Labels : Types(d, "label", l)
    \/ \E f \in Families \cup {Absent} : Types(d, "family", f)

\* What only one kind has.
OfKind(d, kind) == IsOpen(d) /\ form[d].kind = kind
LookupBoxes(d) == OfKind(d, "notification") /\ \E v \in Lookups \cup {Empty} : Types(d, "lookup", v)
\* "use it": the token of a sign-in, on top of what is in the boxes.
FromASignIn(d) ==
    OfKind(d, "notification") /\ form[d].lookup # Empty /\ Types(d, "lookup", "url and token")
RouteRows(d) == OfKind(d, "command") /\ \E v \in {"routes", Empty} : Types(d, "routes", v)

\* "+ route", for what an existing hook has been sent.
SeenForRoutes(d) == OfKind(d, "command") /\ form[d].replacing # New /\ Types(d, "routes", "routes")

Signing(d) == Bare(d) \/ \E p \in SignaturePrefixes \cup {Empty} : Types(d, "prefix", p)

Sends(d, r) ==
    /\ Listed(d) /\ Touches /\ Cardinality({q \in pending : q.door = d}) < MaxPending
    /\ busy' = [busy EXCEPT ![d] = TRUE] /\ pending' = pending \cup {r}
    /\ UNCHANGED <<hooks, list, reloads, form>>

\* The path is the id that is replaced, or else the id that is made.
save_webhook(d, op, replacing, id, def, at, typed) ==
    Sends(d, [door |-> d, op |-> op, path |-> IF replacing = New THEN id ELSE replacing,
              replacing |-> replacing, id |-> id, def |-> def, at |-> at, typed |-> typed])

SaveForm(d) ==
    /\ IsOpen(d) /\ ~busy[d] /\ form[d].id # Empty
    /\ save_webhook(d, "save", form[d].replacing, form[d].id, to_def(form[d]), form[d].at, form[d].typed)

\* "File under...": the listed definition with a family.
File(d, h, family) ==
    /\ d = "families" /\ ~busy[d] /\ Listed(d) /\ h \in DOMAIN list[d].hooks
    /\ list[d].hooks[h].family = Absent
    /\ save_webhook(d, "file", h, h, [list[d].hooks[h] EXCEPT !.family = family], list[d].hooks, {"family"})

RemoveHook(d, h) ==
    /\ Listed(d) /\ h \in DOMAIN list[d].hooks
    /\ Sends(d, [door |-> d, op |-> "delete", path |-> h])

-----------------------------------------------------------------------------
(* The store, and what the door does with the answer. *)

Puts(r) == r.op \in {"save", "file"}

validate_hook(r, exists) ==
    /\ r.def.label # Empty /\ r.def.lookup # Empty /\ r.def.routes # Empty
    /\ r.id \in DOMAIN hooks => exists /\ r.id = r.path
    /\ exists \/ Cardinality(DOMAIN hooks) < MAX_WEBHOOKS

\* Whatever the answer, the list is read again; only a good one closes the form.
Answers(r, ok) ==
    /\ pending' = pending \ {r}
    /\ busy' = [busy EXCEPT ![r.door] = FALSE] /\ reloads' = [reloads EXCEPT ![r.door] = TRUE]
    /\ form' = IF ok /\ r.op = "save" THEN [form EXCEPT ![r.door] = NoForm] ELSE form
    /\ UNCHANGED <<list, touches>>

\* In place, or at the end; what was there goes with its id.
put_hook(r) ==
    LET exists == r.path \in DOMAIN hooks IN
    /\ Puts(r) /\ validate_hook(r, exists)
    /\ hooks' = [h \in (DOMAIN hooks \ {r.path}) \cup {r.id} |-> IF h = r.id THEN r.def ELSE hooks[h]]
    /\ Answers(r, TRUE)

HookRefused(r) ==
    /\ Puts(r) /\ ~validate_hook(r, r.path \in DOMAIN hooks)
    /\ UNCHANGED hooks /\ Answers(r, FALSE)

remove_hook(r) ==
    /\ r.op = "delete"
    /\ hooks' = [h \in DOMAIN hooks \ {r.path} |-> hooks[h]]
    /\ Answers(r, TRUE)

Unanswered(r) == UNCHANGED hooks /\ Answers(r, FALSE)

HooksNext ==
    \/ \E d \in Doors :
        \/ Lists(d) \/ ListFails(d)
        \/ KindButtons(d) \/ Identity(d) \/ LookupBoxes(d) \/ FromASignIn(d)
        \/ RouteRows(d) \/ SeenForRoutes(d) \/ Signing(d)
        \/ CancelForm(d) \/ SaveForm(d)
        \/ \E k \in HookKinds, f \in Families \cup {Absent} : Make(d, k, f)
        \/ \E h \in HookIds : EditHook(d, h) \/ RemoveHook(d, h) \/ \E f \in Families : File(d, h, f)
    \/ \E r \in pending : put_hook(r) \/ HookRefused(r) \/ remove_hook(r) \/ Unanswered(r)

-----------------------------------------------------------------------------
(* Properties. *)

KindFields == {"job", "lookup", "routes"}

\* A save through either door changes of the hook it replaces only what was
\* changed in the form, with what the kind brings along; what else it changes
\* had been changed behind the form's back.  No other hook is touched.
OnlyWhatWasTyped == [][\A r \in pending \ pending' : Puts(r) /\ hooks' # hooks =>
    /\ \A h \in DOMAIN hooks \ {r.path} : h \in DOMAIN hooks' /\ hooks'[h] = hooks[h]
    /\ r.replacing \in DOMAIN hooks /\ r.replacing \in DOMAIN r.at =>
        \A f \in DOMAIN r.def :
            \/ hooks'[r.id][f] = hooks[r.replacing][f]
            \/ f \in r.typed \/ (f \in KindFields /\ "kind" \in r.typed)
            \/ hooks[r.replacing][f] # r.at[r.replacing][f]]_hookVars

\* A hook that is made does not take the place of another.  Not so, and no run
\* checks it: a new draft under an id that is taken is a PUT to that id, which
\* the endpoint takes for an edit ("make or replace one", be/src/server.ts:21).
MadeIsNew == [][\A r \in pending \ pending' : Puts(r) /\ r.replacing = New =>
    \A h \in DOMAIN hooks : h \in DOMAIN hooks' /\ hooks'[h] = hooks[h]]_hookVars
==============================================================================
