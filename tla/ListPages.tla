----------------------------- MODULE ListPages -----------------------------
(***************************************************************************)
(* The two lists of records a person keeps: the pages of Config ->         *)
(* Watching (fe/src/pages/config_watching.rs) and the rules of Config ->   *)
(* Mail (fe/src/pages/config_mail.rs), the requests they make              *)
(* (fe/src/api/client.rs) and the stores behind them (be/src/pages.ts,     *)
(* be/src/mail/rules.ts, be/src/server.ts).                                *)
(*                                                                         *)
(* The stores are alike; the pages are not.  Watching fetches its list as  *)
(* a resource, of which there is one under way, and guards its buttons by  *)
(* a flag; Mail spawns a fetch of its own each time and guards nothing.    *)
(***************************************************************************)
EXTENDS Naturals, Sequences, Functions, SequencesExt

CONSTANTS
    RecordIds,      \* bound: the ids there may be
    Texts,          \* what may be typed that both of them accept
    MaxListActs,       \* bound: what the user does
    MaxListOthers,      \* bound: what others save, and what fails
    MaxOnWire         \* bound: saves and deletes under way, and fetches

VARIABLES
    whose,          \* "pages" or "rules"
    kept,           \* the store
    listed,         \* what the page shows
    reads,          \* fetches of it that are under way
    cards,          \* a row's state, by id
    adding,         \* the form for a new one
    wire,           \* saves and deletes under way, in the order they were sent
    untold,         \* history: the store has changed since it was read, and nobody will say so
    listActs, listOthers

listVars == <<whose, kept, listed, reads, cards, adding, wire, untold, listActs, listOthers>>
listPage == <<listed, cards, adding>>

Unwritten == ""              \* neither a sender nor a recipient; no URL
Anything == "*"
NotListed == [none |-> TRUE]
NoEdit == [text |-> Unwritten, open |-> FALSE, busy |-> FALSE]
Card == [busy |-> FALSE, confirming |-> FALSE, edit |-> NoEdit]

Entry == [text : Texts \cup {Unwritten}, enabled : BOOLEAN]
RecordLists == UNION {[ids -> Entry] : ids \in SUBSET RecordIds}
IsList(l) == l # NotListed

ListTypeOK ==
    /\ whose \in {"pages", "rules"} /\ kept \in RecordLists /\ listed \in RecordLists \cup {NotListed}
    /\ IsList(listed) => DOMAIN cards = DOMAIN listed
    /\ Len(reads) <= MaxOnWire /\ Len(wire) <= MaxOnWire
    /\ whose = "pages" => Len(reads) <= 1
    /\ untold \in BOOLEAN /\ listActs \in 0..MaxListActs /\ listOthers \in 0..MaxListOthers

ListInit(lists, stored) ==
    /\ whose \in lists /\ kept = stored /\ listed = NotListed
    /\ reads = <<[st |-> "asked"]>>
    /\ cards = <<>> /\ adding = NoEdit /\ wire = <<>> /\ untold = FALSE
    /\ listActs = 0 /\ listOthers = 0

-----------------------------------------------------------------------------
(* The store. *)

\* "*" says that everything was meant, and is kept as nothing at all.
Normal(text) == IF whose = "rules" /\ text = Anything THEN Unwritten ELSE text
Valid(text) == text \in Texts \/ (whose = "rules" /\ text = Anything)

\* Add or replace: an id that is not there, be it one that was removed, is added.
Put(id, e) == [i \in DOMAIN kept \cup {id} |->
    IF i = id THEN [text |-> Normal(e.text), enabled |-> e.enabled] ELSE kept[i]]
Unkept(id) == Restrict(kept, DOMAIN kept \ {id})

Minted == {i \in RecordIds : i \notin DOMAIN kept /\ (IsList(listed) => i \notin DOMAIN listed)
                             /\ \A k \in DOMAIN wire : wire[k].id # i}

-----------------------------------------------------------------------------
(* The page. *)

\* Mutant: a list that is being fetched already is not asked for again.
Refetch_once ==
    \/ reads = <<>> /\ reads' = <<[st |-> "asked"]>>
    \/ reads # <<>> /\ UNCHANGED reads

\* A resource drops the fetch that was under way.
Refetch ==
    \/ whose = "pages" /\ reads' = <<[st |-> "asked"]>>
    \/ whose = "rules" /\ Len(reads) < MaxOnWire /\ reads' = Append(reads, [st |-> "asked"])

\* A component that goes takes with it the tasks it spawned: what they asked
\* for is done all the same, and nobody hears of it.
Orphans(gone(_)) ==
    /\ wire' = [k \in DOMAIN wire |-> IF gone(wire[k]) THEN [wire[k] EXCEPT !.from = "gone"] ELSE wire[k]]
    /\ untold' = (untold \/ \E k \in DOMAIN wire : gone(wire[k]) /\ wire[k].st = "ok")

GetList(k) ==
    /\ reads[k].st = "asked"
    /\ reads' = [reads EXCEPT ![k] = [st |-> "answered", got |-> kept]]
    /\ untold' = FALSE
    /\ UNCHANGED <<whose, kept, listPage, wire, listActs, listOthers>>

ListArrives(k) ==
    /\ reads[k].st = "answered" /\ reads' = RemoveAt(reads, k)
    /\ listed' = reads[k].got
    /\ cards' = [i \in DOMAIN listed' |-> IF i \in DOMAIN cards THEN cards[i] ELSE Card]
    /\ Orphans(LAMBDA r : r.from \in {"row", "edit"} /\ r.id \notin DOMAIN listed')
    /\ UNCHANGED <<whose, kept, adding, listActs, listOthers>>

\* The user comes to the page again, or the list cannot be read: there is nothing on it.
Emptied ==
    /\ listed' = NotListed /\ cards' = <<>> /\ adding' = NoEdit
    /\ Orphans(LAMBDA r : TRUE)
    /\ UNCHANGED <<whose, kept>>
GetListFails(k) ==
    /\ reads[k].st = "asked" /\ listOthers < MaxListOthers /\ listOthers' = listOthers + 1
    /\ reads' = RemoveAt(reads, k) /\ Emptied /\ UNCHANGED listActs
ComesAgain ==
    /\ listActs < MaxListActs /\ listActs' = listActs + 1
    /\ reads' = <<[st |-> "asked"]>> /\ Emptied /\ UNCHANGED listOthers

SendsRecord(op, id, from, e) ==
    /\ Len(wire) < MaxOnWire
    /\ wire' = Append(wire, [op |-> op, id |-> id, from |-> from, e |-> e, st |-> "asked"])
    /\ UNCHANGED untold
Acted == IsList(listed) /\ listActs < MaxListActs /\ listActs' = listActs + 1
CardBecomes(id, c) == cards' = [cards EXCEPT ![id] = c]

\* "Pause" and "Resume", "Disable" and "Enable": the whole record, as listed.
Toggle(id) ==
    /\ whose = "pages" => ~cards[id].busy
    /\ Acted /\ SendsRecord("put", id, "row", [listed[id] EXCEPT !.enabled = ~@])
    /\ CardBecomes(id, [cards[id] EXCEPT !.busy = TRUE])
    /\ UNCHANGED <<whose, kept, listed, reads, adding, listOthers>>

\* "Remove", which asks, and "Cancel".
AskRemove(id) ==
    /\ whose = "pages" /\ Acted
    /\ CardBecomes(id, [cards[id] EXCEPT !.confirming = ~@])
    /\ UNCHANGED <<whose, kept, listed, reads, adding, wire, untold, listOthers>>

\* Whatever else is under way for the record.
RemoveRecord(id) ==
    /\ whose = "pages" => cards[id].confirming
    /\ Acted /\ SendsRecord("delete", id, "row", listed[id])
    /\ CardBecomes(id, [cards[id] EXCEPT !.busy = TRUE])
    /\ UNCHANGED <<whose, kept, listed, reads, adding, listOthers>>

\* "Edit" and "Close": the form is made from the record as listed, and goes.
EditRecord(id) ==
    /\ whose = "pages" /\ Acted
    /\ CardBecomes(id, [cards[id] EXCEPT !.edit =
          IF @.open THEN NoEdit ELSE [text |-> listed[id].text, open |-> TRUE, busy |-> FALSE]])
    /\ Orphans(LAMBDA r : cards[id].edit.open /\ r.from = "edit" /\ r.id = id)
    /\ UNCHANGED <<whose, kept, listed, reads, adding, listOthers>>

TypesIn(id, text) ==
    /\ cards[id].edit.open /\ text # cards[id].edit.text /\ Acted
    /\ CardBecomes(id, [cards[id] EXCEPT !.edit.text = text])
    /\ UNCHANGED <<whose, kept, listed, reads, adding, wire, untold, listOthers>>

\* What is in the form, and whether it is paused from the record as listed.
SaveRecord(id) ==
    /\ cards[id].edit.open /\ ~cards[id].edit.busy /\ Acted
    /\ SendsRecord("put", id, "edit", [text |-> cards[id].edit.text, enabled |-> listed[id].enabled])
    /\ CardBecomes(id, [cards[id] EXCEPT !.edit.busy = TRUE])
    /\ UNCHANGED <<whose, kept, listed, reads, adding, listOthers>>

TypesNew(text) ==
    /\ text # adding.text /\ Acted /\ adding' = [adding EXCEPT !.text = text]
    /\ UNCHANGED <<whose, kept, listed, reads, cards, wire, untold, listOthers>>

AddRecord ==
    /\ whose = "pages" => ~adding.busy
    /\ Acted /\ SendsRecord("put", "new", "new", [text |-> adding.text, enabled |-> TRUE])
    /\ adding' = [adding EXCEPT !.busy = TRUE]
    /\ UNCHANGED <<whose, kept, listed, reads, cards, listOthers>>

-----------------------------------------------------------------------------
(* Requests. *)

IsAsked(k) == wire[k].st = "asked"
Becomes(k, st) == wire' = [wire EXCEPT ![k].st = st]
Does(k, l) == kept' = l /\ untold' = (untold \/ wire[k].from = "gone") /\ Becomes(k, "ok")
UnservedRest == UNCHANGED <<whose, listPage, reads, listActs, listOthers>>

CanPut(k) == IsAsked(k) /\ wire[k].op = "put" /\ Valid(wire[k].e.text)
CanDelete(k) == IsAsked(k) /\ wire[k].op = "delete" /\ wire[k].id \in DOMAIN kept
PutUnder(k) == IF wire[k].id = "new" THEN Minted ELSE {wire[k].id}

PutRecord(k) ==
    /\ CanPut(k) /\ UnservedRest
    /\ \E id \in PutUnder(k) : Does(k, Put(id, wire[k].e))

DeleteRecord(k) ==
    /\ CanDelete(k) /\ UnservedRest
    /\ Does(k, Unkept(wire[k].id))

\* 422 with what is wrong with it, or 404.
RecordRefused(k) ==
    /\ IsAsked(k) /\ UnservedRest
    /\ IF wire[k].op = "put" THEN ~Valid(wire[k].e.text) ELSE wire[k].id \notin DOMAIN kept
    /\ Becomes(k, "refused") /\ UNCHANGED <<kept, untold>>

\* The request does not arrive; or its answer does not, or the file is not
\* written after the list in memory was changed: what was added, replaced or
\* removed there stays so.
RecordFails(k) ==
    /\ IsAsked(k) /\ listOthers < MaxListOthers /\ listOthers' = listOthers + 1 /\ Becomes(k, "refused")
    /\ \/ UNCHANGED <<kept, untold>>
       \/ CanPut(k) /\ untold' = TRUE /\ \E id \in PutUnder(k) : kept' = Put(id, wire[k].e)
       \/ CanDelete(k) /\ untold' = TRUE /\ kept' = Unkept(wire[k].id)
    /\ UNCHANGED <<whose, listPage, reads, listActs>>

\* An answer to somebody who is still there: a list to be fetched, or an error.
Hears(k) ==
    LET r == wire[k]
        ok == r.st = "ok" IN
    /\ ~IsAsked(k) /\ wire' = RemoveAt(wire, k)
    /\ IF ok /\ r.from # "gone" THEN Refetch ELSE UNCHANGED reads
    /\ cards' = CASE r.from = "row" -> [cards EXCEPT ![r.id].busy = FALSE,
                                            ![r.id].confirming = IF r.op = "delete" THEN FALSE ELSE @]
                  [] r.from = "edit" -> [cards EXCEPT ![r.id].edit = IF ok THEN NoEdit ELSE [@ EXCEPT !.busy = FALSE]]
                  [] OTHER -> cards
    /\ adding' = IF r.from # "new" THEN adding
                 ELSE [text |-> IF ok THEN Unwritten ELSE adding.text, open |-> FALSE, busy |-> FALSE]
    /\ UNCHANGED <<whose, kept, listed, untold, listActs, listOthers>>

\* In another tab.
InAnotherTab ==
    /\ listOthers < MaxListOthers /\ listOthers' = listOthers + 1 /\ untold' = TRUE
    /\ \E id \in RecordIds, e \in [text : Texts, enabled : BOOLEAN] :
        (kept' = Put(id, e) \/ kept' = Unkept(id)) /\ kept' # kept
    /\ UNCHANGED <<whose, listPage, reads, wire, listActs>>

ListNext ==
    \/ \E k \in DOMAIN reads : GetList(k) \/ ListArrives(k) \/ GetListFails(k)
    \/ ComesAgain
    \/ \E id \in DOMAIN cards :
        \/ Toggle(id) \/ AskRemove(id) \/ RemoveRecord(id) \/ EditRecord(id) \/ SaveRecord(id)
        \/ \E text \in Texts \cup {Unwritten} : TypesIn(id, text)
    \/ \E text \in Texts \cup {Anything} : TypesNew(text)
    \/ AddRecord
    \/ \E k \in DOMAIN wire : PutRecord(k) \/ DeleteRecord(k) \/ RecordRefused(k) \/ RecordFails(k) \/ Hears(k)
    \/ InAnotherTab

-----------------------------------------------------------------------------
(* Config -> Watching shows what is kept: when nothing is under way, the   *)
(* list is the store's, unless somebody else changed it, the row that      *)
(* asked for a change went before it was answered, or a change was         *)
(* answered with an error: its answer was lost, or its file not written.   *)
ListIsTheStores ==
    whose = "pages" /\ wire = <<>> /\ reads = <<>> /\ IsList(listed) /\ ~untold => listed = kept
==============================================================================
