------------------------------ MODULE SendMail ------------------------------
(***************************************************************************)
(* be/src/jobs/send-mail.ts and the journal it keeps,                      *)
(* be/src/tracker/sent.ts: one mailing to a list, through retries, restarts*)
(* and overlapping work.  A loop is one call of the job's run().  The      *)
(* runner starts one at a time, but a loop it gave up on is only abandoned *)
(* - send-mail never looks at its abort signal - and goes on down the list *)
(* beside the next one.                                                    *)
(*                                                                         *)
(*   idle -> turn -> (gap) -> wire -> (accepted) -> turn -> ... -> an end  *)
(*                                                                         *)
(* Only "gap" and "wire"/"accepted" are awaits.  "turn" is a point inside  *)
(* synchronous code at which the process may die; what another loop does   *)
(* there commutes with what this one did just before.  There is one send   *)
(* id, as markers of different ids never meet; a dry run and the refusals  *)
(* before the first recipient touch none of this state and are left out.   *)
(***************************************************************************)
EXTENDS Integers, Sequences, FiniteSets, Functions

CONSTANTS
    Recipients,
    List,           \* parseRecipients: the addresses in order, each once
    Loops,          \* identities of calls of run(), each used once (bound)
    MaxAbandoned,   \* bound: how many of them are abandoned
    MayTear         \* an append cut short leaves a part of its line behind

ASSUME MailingAssumption ==
    /\ List \in Seq(Recipients)
    /\ IsInjective(List)
    /\ Range(List) = Recipients
    /\ MaxAbandoned \in Nat
    /\ MayTear \in BOOLEAN

VARIABLES
    gap,            \* config.smtpGapMs > 0, kept over restarts (bound)
    pc,             \* where each loop is
    at,             \* the index into List it is at
    spoke,          \* its `attempted > 0`: it has put a message on the wire
    failures,       \* what it collected: <<recipient, permanent>>
    abandoned,      \* loops whose run timed out under them
    report,         \* the summary of a loop that returned
    file,           \* tracker-sent.jsonl: its complete lines
    torn,           \* and whether it ends in the middle of one more
    attempted, delivered, rejected,     \* sent.ts: the sets in memory
    mails           \* how often the server took the mail for each recipient

loopVars == <<gap, pc, at, spoke, failures, abandoned, report>>
storeVars == <<file, torn, attempted, delivered, rejected>>
vars == <<loopVars, storeVars, mails>>

Kinds == {"attempt", "sent", "rejected", "release"}
Line(kind, r) == [t |-> kind, to |-> r]

\* A line that does not parse.
Junk == [t |-> "junk"]

Lines == [t : Kinds, to : Recipients] \cup {Junk}

Ended == {"completed", "hopeless", "failed", "threw", "lost"}
OnTheWire(w) == pc[w] \in {"wire", "accepted"}
Active(w) == pc[w] \notin Ended \cup {"idle"}
Awaiting(w) == pc[w] \in {"gap", "wire", "accepted"}
Current(w) == List[at[w]]

NoReport == [delivered |-> {}, rejected |-> {}, unresolved |-> {}]

Init ==
    /\ gap \in BOOLEAN
    /\ pc = [w \in Loops |-> "idle"]
    /\ at = [w \in Loops |-> 1]
    /\ spoke = [w \in Loops |-> FALSE]
    /\ failures = [w \in Loops |-> {}]
    /\ abandoned = {}
    /\ report = [w \in Loops |-> NoReport]
    /\ file = <<>>
    /\ torn = FALSE
    /\ attempted = {} /\ delivered = {} /\ rejected = {}
    /\ mails = [r \in Recipients |-> 0]

-----------------------------------------------------------------------------
(* The journal.                                                            *)

\* What load() makes of a file.  An attempt blocks until a release.
Blocked(f, r) ==
    \E i \in 1..Len(f) :
        /\ f[i] = Line("attempt", r)
        /\ \A j \in i..Len(f) : f[j] # Line("release", r)

Loaded(f, kind) == {r \in Recipients : \E i \in 1..Len(f) : f[i] = Line(kind, r)}

\* append(): behind a fragment the new line does not parse either.
Append1(line) ==
    /\ file' = Append(file, IF torn THEN Junk ELSE line)
    /\ torn' = FALSE

\* append() throws, perhaps with a part of the line written.
AppendFails ==
    /\ torn' \in {torn, torn \/ MayTear}
    /\ UNCHANGED file

\* The line is written, or the call throws; memory was changed before.
Write(line, ok) == IF ok THEN Append1(line) ELSE AppendFails

-----------------------------------------------------------------------------
(* run(): down the list.                                                   *)

\* The runner: a job runs once at a time, as far as the runner can see.
Start(w) ==
    /\ pc[w] = "idle"
    /\ \A v \in Loops : Active(v) => v \in abandoned
    /\ pc' = [pc EXCEPT ![w] = "turn"]
    /\ UNCHANGED <<gap, at, spoke, failures, abandoned, report, storeVars, mails>>

\* run.ts: the deadline passed, and the grace with it.
Abandon(w) ==
    /\ Awaiting(w)
    /\ w \notin abandoned
    /\ Cardinality(abandoned) < MaxAbandoned
    /\ abandoned' = abandoned \cup {w}
    /\ UNCHANGED <<gap, pc, at, spoke, failures, report, storeVars, mails>>

\* Those not skipped for their marker, from where the loop is.
Unmarked(w) == {k \in at[w]..Len(List) : List[k] \notin attempted}
IsNext(w, k) == k \in Unmarked(w) /\ \A i \in Unmarked(w) : k <= i

\* Every marked recipient is skipped; what happens to the first unmarked one.
Pause(w) ==
    /\ pc[w] = "turn"
    /\ gap /\ spoke[w]
    /\ \E k \in Unmarked(w) :
          IsNext(w, k) /\ at' = [at EXCEPT ![w] = k]
    /\ pc' = [pc EXCEPT ![w] = "gap"]
    /\ UNCHANGED <<gap, spoke, failures, abandoned, report, storeVars, mails>>

\* Faulty: the message goes out whether or not the marker was written.
MarkInBackground(w, k, ok) ==
    /\ attempted' = attempted \cup {List[k]}
    /\ Write(Line("attempt", List[k]), ok)
    /\ at' = [at EXCEPT ![w] = k]
    /\ spoke' = [spoke EXCEPT ![w] = TRUE]
    /\ pc' = [pc EXCEPT ![w] = "wire"]
    /\ UNCHANGED <<gap, failures, abandoned, report, delivered, rejected, mails>>

\* markAttempt, and tx.send only if it did not throw.
MarkAndSend(w, k, ok) ==
    /\ attempted' = attempted \cup {List[k]}
    /\ Write(Line("attempt", List[k]), ok)
    /\ at' = [at EXCEPT ![w] = k]
    /\ spoke' = [spoke EXCEPT ![w] = TRUE]
    /\ pc' = [pc EXCEPT ![w] = IF ok THEN "wire" ELSE "threw"]
    /\ UNCHANGED <<gap, failures, abandoned, report, delivered, rejected, mails>>

Attempt(w, ok) ==
    /\ pc[w] = "turn"
    /\ ~(gap /\ spoke[w])
    /\ \E k \in Unmarked(w) : IsNext(w, k) /\ MarkAndSend(w, k, ok)

\* After the pause nobody asks again whether the marker is there.
AttemptAfterGap(w, ok) ==
    /\ pc[w] = "gap"
    /\ MarkAndSend(w, at[w], ok)

\* The server takes the message; the reply is on its way.
Accept(w) ==
    /\ pc[w] = "wire"
    /\ pc' = [pc EXCEPT ![w] = "accepted"]
    /\ mails' = [mails EXCEPT ![Current(w)] = @ + 1]
    /\ UNCHANGED <<gap, at, spoke, failures, abandoned, report, storeVars>>

\* Faulty: the index moves in the handler and again in the loop header.
CollectAndSkip(w, permanent) ==
    /\ failures' = [failures EXCEPT ![w] = @ \cup {<<Current(w), permanent>>}]
    /\ pc' = [pc EXCEPT ![w] = "turn"]
    /\ at' = [at EXCEPT ![w] = @ + 2]

\* failures.push, and on to the next recipient.
Collect(w, permanent) ==
    /\ failures' = [failures EXCEPT ![w] = @ \cup {<<Current(w), permanent>>}]
    /\ pc' = [pc EXCEPT ![w] = "turn"]
    /\ at' = [at EXCEPT ![w] = @ + 1]

\* A throw out of the catch block ends the loop before failures.push.
CollectUnlessThrown(w, permanent, ok) ==
    IF ok THEN Collect(w, permanent)
    ELSE /\ pc' = [pc EXCEPT ![w] = "threw"]
         /\ UNCHANGED <<failures, at>>

\* The reply says it was taken.  A markSent that throws is caught as if the
\* send had failed, without a code.
Sent(w, ok) ==
    /\ pc[w] = "accepted"
    /\ delivered' = delivered \cup {Current(w)}
    /\ Write(Line("sent", Current(w)), ok)
    /\ IF ok
       THEN /\ pc' = [pc EXCEPT ![w] = "turn"]
            /\ at' = [at EXCEPT ![w] = @ + 1]
            /\ UNCHANGED failures
       ELSE Collect(w, FALSE)
    /\ UNCHANGED <<gap, spoke, abandoned, report, attempted, rejected, mails>>

\* SMTP 5xx: the block stays.
Refused(w, ok) ==
    /\ pc[w] = "wire"
    /\ rejected' = rejected \cup {Current(w)}
    /\ Write(Line("rejected", Current(w)), ok)
    /\ CollectUnlessThrown(w, TRUE, ok)
    /\ UNCHANGED <<gap, spoke, abandoned, report, attempted, delivered, mails>>

\* Faulty: the block is lifted and nobody is told.
DeferredQuietly(w, ok) ==
    /\ pc[w] = "wire"
    /\ attempted' = attempted \ {Current(w)}
    /\ Write(Line("release", Current(w)), ok)
    /\ pc' = [pc EXCEPT ![w] = "turn"]
    /\ at' = [at EXCEPT ![w] = @ + 1]
    /\ UNCHANGED <<gap, spoke, failures, abandoned, report, delivered, rejected, mails>>

\* Faulty: the HTTP rule, by which 4xx is permanent.
DeferredForGood(w, ok) ==
    /\ pc[w] = "wire"
    /\ attempted' = attempted \ {Current(w)}
    /\ Write(Line("release", Current(w)), ok)
    /\ CollectUnlessThrown(w, TRUE, ok)
    /\ UNCHANGED <<gap, spoke, abandoned, report, delivered, rejected, mails>>

\* SMTP 4xx: definitely not delivered, the block is lifted.
Deferred(w, ok) ==
    /\ pc[w] = "wire"
    /\ attempted' = attempted \ {Current(w)}
    /\ Write(Line("release", Current(w)), ok)
    /\ CollectUnlessThrown(w, FALSE, ok)
    /\ UNCHANGED <<gap, spoke, abandoned, report, delivered, rejected, mails>>

\* Faulty: no answer is taken for a refusal for now.
NoAnswerReleases(w, permanent) ==
    /\ OnTheWire(w)
    /\ attempted' = attempted \ {Current(w)}
    /\ Append1(Line("release", Current(w)))
    /\ Collect(w, permanent)
    /\ UNCHANGED <<gap, spoke, abandoned, report, delivered, rejected, mails>>

\* Faulty: no answer is taken for a refusal for good.
NoAnswerRejects(w, permanent) ==
    /\ OnTheWire(w)
    /\ rejected' = rejected \cup {Current(w)}
    /\ Append1(Line("rejected", Current(w)))
    /\ Collect(w, permanent)
    /\ UNCHANGED <<gap, spoke, abandoned, report, attempted, delivered, mails>>

\* No reply code: a dead socket, a timeout, before or after DATA.  Permanent
\* when the runtime refused the connection (netPermissionHint).
NoAnswer(w, permanent) ==
    /\ OnTheWire(w)
    /\ permanent => pc[w] = "wire"
    /\ Collect(w, permanent)
    /\ UNCHANGED <<gap, spoke, abandoned, report, storeVars, mails>>

\* The whole list had its turn.
Summary ==
    [delivered |-> delivered,
     rejected |-> rejected,
     unresolved |-> attempted \ (delivered \cup rejected)]

Finish(w) ==
    /\ pc[w] = "turn"
    /\ Unmarked(w) = {}
    /\ IF failures[w] = {}
       THEN /\ pc' = [pc EXCEPT ![w] = "completed"]
            /\ report' = [report EXCEPT ![w] = Summary]
       ELSE /\ pc' = [pc EXCEPT ![w] =
                  IF \A f \in failures[w] : f[2] THEN "hopeless" ELSE "failed"]
            /\ UNCHANGED report
    /\ UNCHANGED <<gap, at, spoke, failures, abandoned, storeVars, mails>>

-----------------------------------------------------------------------------

\* The next thing the loop does is an append.
Writing(w) == Awaiting(w) \/ (pc[w] = "turn" /\ Unmarked(w) # {})

\* The process dies, perhaps inside an append, and starts again: load().
Restart ==
    /\ pc' = [w \in Loops |-> IF Active(w) THEN "lost" ELSE pc[w]]
    /\ attempted' = {r \in Recipients : Blocked(file, r)}
    /\ delivered' = Loaded(file, "sent")
    /\ rejected' = Loaded(file, "rejected")
    /\ torn' \in {torn, torn \/ (MayTear /\ \E w \in Loops : Writing(w))}
    /\ UNCHANGED <<gap, at, spoke, failures, abandoned, report, file, mails>>

LoopStep(w) ==
    \/ Start(w) \/ Abandon(w) \/ Pause(w) \/ Accept(w) \/ Finish(w)
    \/ \E ok \in BOOLEAN :
          \/ Attempt(w, ok) \/ AttemptAfterGap(w, ok)
          \/ Sent(w, ok) \/ Refused(w, ok) \/ Deferred(w, ok)
    \/ \E permanent \in BOOLEAN : NoAnswer(w, permanent)

Next == Restart \/ \E w \in Loops : LoopStep(w)

Spec == Init /\ [][Next]_vars

-----------------------------------------------------------------------------
(* Properties.                                                             *)

Phases == Ended \cup {"idle", "turn", "gap", "wire", "accepted"}

\* Every variable stays in its set: a loop's place in the list and its counts,
\* the journal and what a load makes of it.
TypeOK ==
    /\ gap \in BOOLEAN
    /\ pc \in [Loops -> Phases]
    /\ at \in [Loops -> 1..Len(List) + 1]
    /\ spoke \in [Loops -> BOOLEAN]
    /\ failures \in [Loops -> SUBSET (Recipients \X BOOLEAN)]
    /\ abandoned \in SUBSET Loops
    /\ report \in [Loops -> [delivered : SUBSET Recipients,
                             rejected : SUBSET Recipients,
                             unresolved : SUBSET Recipients]]
    /\ file \in Seq(Lines)
    /\ torn \in BOOLEAN
    /\ attempted \in SUBSET Recipients
    /\ delivered \in SUBSET Recipients
    /\ rejected \in SUBSET Recipients
    /\ mails \in [Recipients -> Nat]

(***************************************************************************)
(* sent.ts:3 and send-mail.ts:399, "sending byte-identical mail to the     *)
(* same list twice does nothing the second time": whatever is retried,     *)
(* restarted, left unwritten or still working behind a timeout, the server *)
(* takes the mail for one recipient at most once.                          *)
(***************************************************************************)
NeverTwice == \A r \in Recipients : mails[r] <= 1

(***************************************************************************)
(* The same where it holds: as long as checking and marking a recipient    *)
(* are one synchronous step (no pause configured), or no loop was ever     *)
(* abandoned.                                                              *)
(***************************************************************************)
Exclusive == ~gap \/ abandoned = {}
AtMostOnce == Exclusive => NeverTwice

(***************************************************************************)
(* sent.ts:30, "the mark goes down before the SMTP call": whoever has the  *)
(* mail, or may get it any moment, is blocked in the file a restart reads, *)
(* and in the memory the next loop asks.                                   *)
(***************************************************************************)
InFlight(r) == \E w \in Loops : OnTheWire(w) /\ Current(w) = r
MarkerPrecedesMail ==
    Exclusive =>
        \A r \in Recipients :
            InFlight(r) \/ mails[r] > 0 => Blocked(file, r) /\ r \in attempted

(***************************************************************************)
(* send-mail.ts:690-704: a loop that returns has accounted for its whole   *)
(* list: each recipient is in its summary - or another loop took the       *)
(* recipient over and failed, which is that loop's to say.                 *)
(***************************************************************************)
Failed(v, r) ==
    \/ \E permanent \in BOOLEAN : <<r, permanent>> \in failures[v]
    \/ pc[v] = "threw" /\ Current(v) = r
Accounted(w, r) ==
    \/ r \in report[w].delivered \cup report[w].rejected \cup report[w].unresolved
    \/ \E v \in Loops : v # w /\ Failed(v, r)
NobodyForgotten ==
    \A w \in Loops : pc[w] = "completed" => \A r \in Recipients : Accounted(w, r)

(***************************************************************************)
(* send-mail.ts:697: retries are given up only when nobody is left whom    *)
(* another attempt would serve: everyone this loop failed is blocked, also *)
(* after a restart.                                                        *)
(***************************************************************************)
HopelessMeansBlocked ==
    \A w \in Loops :
        Exclusive /\ pc[w] = "hopeless"
            => \A f \in failures[w] : Blocked(file, f[1]) /\ f[1] \in attempted

(***************************************************************************)
(* sent.ts:46, "the report can tell them apart": whoever is reported as    *)
(* delivered to has the mail, and whoever is reported as refused has not.  *)
(***************************************************************************)
ReportIsTrue ==
    \A w \in Loops :
        /\ \A r \in report[w].delivered : mails[r] > 0
        /\ Exclusive => \A r \in report[w].rejected : mails[r] = 0
=============================================================================
