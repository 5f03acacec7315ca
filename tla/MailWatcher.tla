---------------------------- MODULE MailWatcher ----------------------------
(***************************************************************************)
(* The doorbell of be/src/mail/watcher.ts: a connection per mailbox that   *)
(* is held open, and a run of read-mail for what arrives; beside it the    *)
(* scheduler's, of which the runner (be/src/jobs/run.ts) lets one at a     *)
(* time through.  (A run by hand is one more of that kind.)                *)
(*                                                                         *)
(* Messages of a mailbox are numbered as they arrive.  A run reads what is *)
(* there when it searches.  Between the call of runJob and the runner's    *)
(* check there is an await.                                                *)
(***************************************************************************)
EXTENDS Naturals

CONSTANTS
    Mailboxes,  \* the watched ones
    Inbox,      \* what a run without inputs reads; it is one of them
    MaxMail,    \* bound: messages of one mailbox
    MaxFaults   \* bound: connections that go, runs that fail, crashes

ASSUME MailAssumption == "schedule" \notin Mailboxes /\ Inbox \in Mailboxes /\ MaxMail \in Nat

VARIABLES
    mail,       \* the last message of each mailbox
    conn,       \* session: "connecting", "deaf" before IDLE runs, "idle", "waiting" to try again
    coalescing, \* pending: the timers that gather further arrivals
    another,    \* queued
    call,       \* caller -> runJob under way; a mailbox that has one is in `running`
    told,       \* history: the last message the bell rang for, in this process
    heard,      \* history: the last message there was when a run searched
    turnedAway, \* history: the last bell whose run the watcher asked for, and which was refused or failed
    read,       \* history: the last message a run has read
    faults

mailVars == <<mail, conn, coalescing, another, call, told, heard, turnedAway, read, faults>>
watch == <<conn, coalescing, another>>

Callers == Mailboxes \cup {"schedule"}
NoCall == [at |-> "none"]
Calls(box) == [at |-> "asked", of |-> box, bell |-> told[box]]

MailTypeOK ==
    /\ \A f \in {mail, told, heard, turnedAway, read} : f \in [Mailboxes -> 0..MaxMail]
    /\ conn \in [Mailboxes -> {"connecting", "deaf", "idle", "waiting"}]
    /\ coalescing \in [Mailboxes -> BOOLEAN] /\ another \in [Mailboxes -> BOOLEAN]
    /\ DOMAIN call = Callers
    /\ \A c \in Callers : call[c].at \in {"none", "asked", "started", "found"}
    /\ faults \in 0..MaxFaults

MailInit ==
    /\ mail = [m \in Mailboxes |-> 0] /\ told = mail /\ heard = mail /\ turnedAway = mail /\ read = mail
    /\ conn = [m \in Mailboxes |-> "connecting"]
    /\ coalescing = [m \in Mailboxes |-> FALSE] /\ another = coalescing
    /\ call = [c \in Callers |-> NoCall]
    /\ faults = 0

Fault == faults < MaxFaults /\ faults' = faults + 1
running(m) == call[m] # NoCall
isRunning == \E c \in Callers : call[c].at \in {"started", "found"}

-----------------------------------------------------------------------------
(* The connection. *)

\* A message arrives; `exists` is only heard while IDLE runs, and sets the
\* timer anew.
Arrives(m) ==
    /\ mail[m] < MaxMail /\ mail' = [mail EXCEPT ![m] = @ + 1]
    /\ IF conn[m] = "idle"
       THEN coalescing' = [coalescing EXCEPT ![m] = TRUE] /\ told' = [told EXCEPT ![m] = mail'[m]]
       ELSE UNCHANGED <<coalescing, told>>
    /\ UNCHANGED <<conn, another, call, heard, turnedAway, read, faults>>

\* The mailbox is opened, and a second later the connection idles.
session(m) ==
    /\ conn[m] \in {"connecting", "deaf"}
    /\ conn' = [conn EXCEPT ![m] = IF @ = "deaf" THEN "idle" ELSE "deaf"]
    /\ UNCHANGED <<mail, coalescing, another, call, told, heard, turnedAway, read, faults>>

\* It cannot be opened, or it closes: one mailbox's loop is not another's.
SessionEnds(m) ==
    /\ conn[m] # "waiting" /\ Fault /\ conn' = [conn EXCEPT ![m] = "waiting"]
    /\ UNCHANGED <<mail, coalescing, another, call, told, heard, turnedAway, read>>

Reconnects(m) ==
    /\ conn[m] = "waiting" /\ conn' = [conn EXCEPT ![m] = "connecting"]
    /\ UNCHANGED <<mail, coalescing, another, call, told, heard, turnedAway, read, faults>>

-----------------------------------------------------------------------------
(* The bell. *)

\* Mutant: a bell that rings during a run is that run's.
trigger_once(m) == IF running(m) THEN UNCHANGED <<another, call>>
    ELSE another' = [another EXCEPT ![m] = FALSE] /\ call' = [call EXCEPT ![m] = Calls(m)]

\* A run for this mailbox, or another after the one there is.
trigger(m) == IF running(m) THEN another' = [another EXCEPT ![m] = TRUE] /\ UNCHANGED call
    ELSE another' = [another EXCEPT ![m] = FALSE] /\ call' = [call EXCEPT ![m] = Calls(m)]

TimerFires(m) ==
    /\ coalescing[m] /\ coalescing' = [coalescing EXCEPT ![m] = FALSE]
    /\ trigger(m)
    /\ UNCHANGED <<mail, conn, told, heard, turnedAway, read, faults>>

\* runJob returns or throws: the watcher's loop goes around if it was asked to,
\* and for no other reason.
Returns(c) ==
    LET again == c \in Mailboxes /\ another[c] IN
        /\ call' = [call EXCEPT ![c] = IF again THEN Calls(c) ELSE NoCall]
        /\ another' = IF again THEN [another EXCEPT ![c] = FALSE] ELSE another
        /\ UNCHANGED <<mail, conn, coalescing, told, heard>>

TurnsAway(c) == turnedAway' = IF c \in Mailboxes THEN [turnedAway EXCEPT ![c] = call[c].bell] ELSE turnedAway

-----------------------------------------------------------------------------
(* The runs. *)

\* The scheduler's runs carry no inputs.
ScheduleFires ==
    /\ call["schedule"] = NoCall /\ call' = [call EXCEPT !["schedule"] = Calls(Inbox)]
    /\ UNCHANGED <<mail, watch, told, heard, turnedAway, read, faults>>

RunStarts(c) ==
    /\ call[c].at = "asked" /\ ~isRunning
    /\ call' = [call EXCEPT ![c].at = "started"]
    /\ UNCHANGED <<mail, watch, told, heard, turnedAway, read, faults>>

\* One run of a job at a time, whichever mailbox it is for: a run that is
\* refused is recorded, reads nothing, and is not asked for again.
RunSkipped(c) ==
    /\ call[c].at = "asked" /\ isRunning
    /\ Returns(c) /\ TurnsAway(c) /\ UNCHANGED <<read, faults>>

Searches(c) ==
    /\ call[c].at = "started"
    /\ call' = [call EXCEPT ![c].at = "found"]
    /\ heard' = [heard EXCEPT ![call[c].of] = mail[call[c].of]]
    /\ UNCHANGED <<mail, watch, told, turnedAway, read, faults>>

RunEnds(c) ==
    /\ call[c].at = "found"
    /\ read' = [read EXCEPT ![call[c].of] = heard[call[c].of]]
    /\ Returns(c) /\ UNCHANGED <<turnedAway, faults>>

RunFails(c) ==
    /\ call[c].at \in {"started", "found"} /\ Fault
    /\ Returns(c) /\ TurnsAway(c) /\ UNCHANGED read

\* What was gathered and asked for goes with the process; the mail does not.
ProcessRestarts ==
    /\ Fault
    /\ conn' = [m \in Mailboxes |-> "connecting"]
    /\ coalescing' = [m \in Mailboxes |-> FALSE] /\ another' = coalescing'
    /\ call' = [c \in Callers |-> NoCall]
    /\ told' = heard /\ turnedAway' = heard /\ UNCHANGED <<mail, heard, read>>

Watches(m) == session(m) \/ Reconnects(m) \/ TimerFires(m)
Runs(c) == RunStarts(c) \/ RunSkipped(c) \/ Searches(c) \/ RunEnds(c)

MailNext ==
    \/ \E m \in Mailboxes : Arrives(m) \/ SessionEnds(m) \/ Watches(m)
    \/ \E c \in Callers : Runs(c) \/ RunFails(c)
    \/ ScheduleFires \/ ProcessRestarts

\* Timers fire, a lost connection is tried again and there is a server at the
\* other end, runs come to an end, and the schedule comes round.
MailFair ==
    /\ \A m \in Mailboxes : WF_mailVars(Watches(m))
    /\ \A c \in Callers : WF_mailVars(Runs(c))
    /\ WF_mailVars(ScheduleFires)
MailSpec == MailInit /\ [][MailNext]_mailVars /\ MailFair

-----------------------------------------------------------------------------
(* Properties. *)

Unheard(m) == told[m] > heard[m]

\* What the watcher still has to do about a bell: a timer that will ask for a
\* run, or another after the run that is under way.
WillAsk(m) == coalescing[m] \/ (running(m) /\ another[m])

\* Somebody's run of the mailbox that has yet to search it.
Due(m) == \E c \in Callers : call[c].at \in {"asked", "started"} /\ call[c].of = m

\* The watcher itself drops no bell (watcher.ts:118-155).  One that rang since
\* the mailbox was last searched is with a timer, with another run after the
\* one under way, or with a run of its own that has yet to search; unless the
\* run that was asked for on its account, and not on an earlier bell's, came
\* back refused or failed, and no bell has rung since.
BellsAreAnswered == \A m \in Mailboxes : Unheard(m) =>
    WillAsk(m) \/ call[m].at \in {"asked", "started"} \/ told[m] <= turnedAway[m]

\* "Holds an IMAP connection open and starts a read-mail run within a couple of
\* seconds of a message landing" (docs/node-parameters.md:522), and "Start a
\* run, or note that another is wanted once this one finishes"
\* (watcher.ts:116).  Not so: while a run for another mailbox, or the
\* schedule's, is under way and has searched, the run is refused, and nothing
\* is noted.
EveryBellGetsARun == \A m \in Mailboxes : Unheard(m) => WillAsk(m) \/ Due(m)

\* Of the schedule: "the backstop that catches anything missed while the
\* connection was down", "what guarantees the mail is eventually read"
\* (docs/node-parameters.md:524, :532).  Not so for a mailbox that is not the
\* inbox: what arrives there while its connection is down is read only when
\* something else arrives.
ScheduleIsTheBackstop == \A m \in Mailboxes : read[m] < mail[m] ~> read[m] = mail[m]
==============================================================================
