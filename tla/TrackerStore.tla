---------------------------- MODULE TrackerStore ----------------------------
(***************************************************************************)
(* Minted links and their clicks: be/src/tracker/store.ts.  A file of      *)
(* lines that is appended to, and at times rewritten through a second one; *)
(* what is in memory is what the process goes by.                          *)
(*                                                                         *)
(* A line is the sequence of the records that are on it: more than one, or *)
(* a piece of one, is a line that is skipped.  Nothing interrupts a call,  *)
(* but a read or a write may fail, and the process may die, at each of its *)
(* steps.                                                                  *)
(***************************************************************************)
EXTENDS Naturals, Sequences, FiniteSets, SequencesExt, Functions

CONSTANTS
    LinkIds,        \* bound: links minted
    ClickIds,       \* bound: clicks
    MaxMishaps      \* bound: deaths, reads and writes that fail, spells of retention

VARIABLES
    links,      \* id -> who it is for, or the null recipient
    arrivals,   \* clicks
    loaded,
    unread,     \* history: this process could not read the file, and goes by an empty store
    step,       \* how far the call under way is, and the record it appends
    stored,     \* the file
    ended,      \* its last line has its newline
    aged,       \* what is from before the cutoff
    due,        \* an hour has passed since lastPrune
    minted,     \* history: the links that were handed out
    forgotten,  \* history: what has been dropped for its age
    torn,       \* history: what was on a line that was cut short, or went on it later
    overwritten, \* history: the links that were on the file when a process that had not read it rewrote it
    mishaps

trackerMemory == <<links, arrivals, loaded, unread>>
trackerFile == <<stored, ended, torn, overwritten>>
trackerVars == <<trackerMemory, step, trackerFile, aged, due, minted, forgotten, mishaps>>

Null == "null"
Person == "alice"
Piece == [t |-> "piece"]
LinkRecord(id, who) == [t |-> "link", id |-> id, who |-> who]
ClickRecord(n) == [t |-> "click", id |-> n]
NoLinks == [id \in {} |-> Null]
Resting == [at |-> "rest"]
KeysOf(line) == {rec.id : rec \in Range(line) \ {Piece}}

TrackerTypeOK ==
    /\ DOMAIN links \subseteq LinkIds /\ Range(links) \subseteq {Null, Person}
    /\ arrivals \subseteq ClickIds
    /\ loaded \in BOOLEAN /\ unread \in BOOLEAN /\ ended \in BOOLEAN /\ due \in BOOLEAN
    /\ step.at \in {"rest", "append", "prune", "compact"}
    /\ \A i \in DOMAIN stored : stored[i] # <<>>
    /\ aged \subseteq LinkIds \cup ClickIds /\ mishaps \in 0..MaxMishaps

TrackerInit ==
    /\ links = NoLinks /\ arrivals = {} /\ loaded = FALSE /\ unread = FALSE /\ step = Resting
    /\ stored = <<>> /\ ended = TRUE /\ torn = {} /\ overwritten = {}
    /\ aged = {} /\ due = TRUE
    /\ minted = {} /\ forgotten = {}
    /\ mishaps = 0

Mishap == mishaps < MaxMishaps /\ mishaps' = mishaps + 1
Rests == loaded /\ step = Resting

-----------------------------------------------------------------------------
(* The calls. *)

mint(id, who) ==
    /\ Rests /\ id \notin DOMAIN links \cup minted \cup torn \cup aged
    /\ links' = [i \in DOMAIN links \cup {id} |-> IF i = id THEN who ELSE links[i]]
    /\ step' = [at |-> "append", rec |-> LinkRecord(id, who)]
    /\ UNCHANGED <<arrivals, loaded, unread, trackerFile, aged, due, minted, forgotten, mishaps>>

\* An id that nobody minted is answered 404, and nothing is written.
click(n) ==
    /\ Rests /\ links # NoLinks /\ n \notin arrivals \cup aged \cup torn
    /\ \A i \in DOMAIN stored : n \notin KeysOf(stored[i])
    /\ arrivals' = arrivals \cup {n}
    /\ step' = [at |-> "append", rec |-> ClickRecord(n)]
    /\ UNCHANGED <<links, loaded, unread, trackerFile, aged, due, minted, forgotten, mishaps>>

\* What is readable, of a file that is there.
load ==
    /\ ~loaded /\ loaded' = TRUE
    /\ LET read == {line[1] : line \in {l \in Range(stored) : Len(l) = 1 /\ l[1] # Piece}}
           of(t) == {rec \in read : rec.t = t}
       IN  /\ links' = [id \in {rec.id : rec \in of("link")} |-> (CHOOSE rec \in of("link") : rec.id = id).who]
           /\ arrivals' = {rec.id : rec \in of("click")}
    /\ step' = [at |-> "prune"] /\ due' = TRUE
    /\ UNCHANGED <<unread, trackerFile, aged, minted, forgotten, mishaps>>

\* The store counts as loaded before the file is read.  A read that throws does
\* so to the caller, and the calls after it find an empty store.
LoadFails ==
    /\ ~loaded /\ stored # <<>> /\ Mishap
    /\ links' = NoLinks /\ arrivals' = {} /\ loaded' = TRUE /\ unread' = TRUE /\ due' = TRUE
    /\ UNCHANGED <<step, trackerFile, aged, minted, forgotten>>

-----------------------------------------------------------------------------
(* Their steps. *)

\* The end of the file with something more on it.
Longer(pieces) == IF ended THEN Append(stored, pieces) ELSE [stored EXCEPT ![Len(stored)] = @ \o pieces]
Writes(pieces, newline) ==
    /\ stored' = Longer(pieces) /\ ended' = newline
    /\ torn' = IF ended /\ newline THEN torn ELSE torn \cup KeysOf(stored'[Len(stored')])
    /\ UNCHANGED overwritten

append ==
    /\ step.at = "append" /\ Writes(<<step.rec>>, TRUE)
    /\ step' = [step EXCEPT !.at = "prune"]
    /\ UNCHANGED <<trackerMemory, aged, due, minted, forgotten, mishaps>>

\* Nothing, a piece, or everything but the newline.
Cut == UNCHANGED overwritten /\
    \/ UNCHANGED <<stored, ended>> /\ torn' = torn \cup {step.rec.id}
    \/ \E last \in {Piece, step.rec} :
        /\ stored' = Longer(<<last>>) /\ ended' = FALSE
        /\ torn' = torn \cup KeysOf(stored'[Len(stored')]) \cup {step.rec.id}

\* It throws, to the caller; memory has the record.
AppendFails ==
    /\ step.at = "append" /\ Mishap /\ Cut /\ step' = Resting
    /\ UNCHANGED <<trackerMemory, aged, due, minted, forgotten>>

HandedOut == IF "rec" \in DOMAIN step /\ step.rec.t = "link" THEN minted \cup {step.rec.id} ELSE minted

\* What is older than the cutoff and has something to lose.
Ageing == {id \in DOMAIN links \cap aged : links[id] # Null} \cup (arrivals \cap aged)

NothingToPrune ==
    /\ step.at = "prune" /\ (due => Ageing = {})
    /\ due' = FALSE /\ step' = Resting /\ minted' = HandedOut
    /\ UNCHANGED <<trackerMemory, trackerFile, aged, forgotten, mishaps>>

\* A link stays; who it was for, and the clicks, do not.
prune ==
    /\ step.at = "prune" /\ due /\ Ageing # {}
    /\ due' = FALSE
    /\ links' = [id \in DOMAIN links |-> IF id \in aged THEN Null ELSE links[id]]
    /\ arrivals' = arrivals \ aged
    /\ forgotten' = forgotten \cup Ageing
    /\ step' = [step EXCEPT !.at = "compact"]
    /\ UNCHANGED <<loaded, unread, trackerFile, aged, minted, mishaps>>

Records == {LinkRecord(id, links[id]) : id \in DOMAIN links} \cup {ClickRecord(n) : n \in arrivals}
Rewritten == [i \in 1..Cardinality(Records) |-> <<SetToSeq(Records)[i]>>]

compact ==
    /\ step.at = "compact" /\ stored' = Rewritten /\ ended' = TRUE
    /\ overwritten' = IF unread THEN overwritten \cup (minted \ DOMAIN links) ELSE overwritten
    /\ step' = Resting /\ minted' = HandedOut
    /\ UNCHANGED <<trackerMemory, torn, aged, due, forgotten, mishaps>>

\* Mutant: the file is rewritten where it is.
Interrupted_in_place == stored' = <<>> /\ ended' = TRUE
\* The temporary file is not finished, or not renamed.
Interrupted == UNCHANGED <<stored, ended>>

\* It throws: memory has forgotten, and the file has not.
CompactFails ==
    /\ step.at = "compact" /\ Mishap /\ Interrupted /\ step' = Resting
    /\ UNCHANGED <<trackerMemory, torn, overwritten, aged, due, minted, forgotten>>

Dies ==
    /\ loaded /\ Mishap
    /\ CASE step.at = "append" -> Cut
         [] step.at = "compact" -> Interrupted /\ UNCHANGED <<torn, overwritten>>
         [] OTHER -> UNCHANGED trackerFile
    /\ links' = NoLinks /\ arrivals' = {} /\ loaded' = FALSE /\ unread' = FALSE /\ step' = Resting
    /\ UNCHANGED <<aged, due, minted, forgotten>>

\* The retention passes for all there is by now, and so does an hour: within
\* the hour, and for what is younger, there is nothing to prune.
RetentionPasses ==
    /\ step = Resting /\ Mishap /\ due' = TRUE
    /\ aged' = aged \cup DOMAIN links \cup arrivals \cup UNION {KeysOf(stored[i]) : i \in DOMAIN stored}
    /\ UNCHANGED <<trackerMemory, step, trackerFile, minted, forgotten>>

TrackerNext ==
    \/ \E id \in LinkIds, who \in {Null, Person} : mint(id, who)
    \/ \E n \in ClickIds : click(n)
    \/ load \/ LoadFails \/ append \/ AppendFails \/ NothingToPrune \/ prune \/ compact \/ CompactFails
    \/ Dies \/ RetentionPasses

TrackerSpec == TrackerInit /\ [][TrackerNext]_trackerVars

-----------------------------------------------------------------------------
(* Properties. *)

\* What was handed out resolves, whatever happened between: unless its line was
\* cut short or went on one that was, or this process could not read the file,
\* or one that could not has rewritten it.  And who a link was for, once
\* forgotten, does not come back with the file (store.ts:38-47).
StoreKeepsFaith == Rests =>
    /\ minted \subseteq DOMAIN links \cup torn \cup overwritten \/ unread
    /\ \A id \in forgotten \cap DOMAIN links : links[id] = Null

\* "Links never expire.  A link lives in somebody's mailbox and may be clicked
\* years later" (store.ts:38).  Not so where a read of the file fails once: the
\* process that could not read it goes on with an empty store, and when that is
\* pruned it is put in place of the file.
NoLinkExpires == Rests /\ ~unread => minted \subseteq DOMAIN links \cup torn

\* "A crash mid-write costs the last line rather than the file" (store.ts:58).
\* It costs the next line too: that is written on the end of the piece.  Only
\* a mint that has returned is counted here, and so never the last line itself.
CostsTheLastLine == Rests /\ ~unread => minted \subseteq DOMAIN links \cup overwritten
==============================================================================
