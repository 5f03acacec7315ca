--------------------------- MODULE Services_proofs ---------------------------
(***************************************************************************)
(* The services beside the runner, each by its own specification:          *)
(*   - the mail watcher: it drops no bell of itself; what is lost is a run *)
(*     that was refused or failed, for any mailboxes and any number of     *)
(*     messages;                                                           *)
(*   - the link store: what was handed out resolves, and what is forgotten *)
(*     stays so, whatever fails between;                                   *)
(*   - signing in: nothing that is spent is presented again.               *)
(***************************************************************************)
EXTENDS MailWatcher, TrackerStore, SignIn, FiniteSetTheorems, TLAPS

(* The mail watcher.  The property is nearly inductive.  What it lacks is  *)
(* that a search finds every message that rang, so the counters of a       *)
(* mailbox are ordered; and that a run under way is for the last bell, or  *)
(* a later bell is still with the watcher: that run may be refused.        *)

CallRecords == [at : {"asked", "started", "found"}, of : Mailboxes, bell : Nat]

\* The shape of the variables, as far as the argument needs it.
Shapes ==
    /\ mail \in [Mailboxes -> Nat] /\ told \in [Mailboxes -> Nat]
    /\ heard \in [Mailboxes -> Nat] /\ turnedAway \in [Mailboxes -> Nat]
    /\ coalescing \in [Mailboxes -> BOOLEAN] /\ another \in [Mailboxes -> BOOLEAN]
    /\ call \in [Callers -> {NoCall} \cup CallRecords]

\* Nothing rings, and nothing is found, before it is there.
Ordered == \A m \in Mailboxes : told[m] <= mail[m] /\ heard[m] <= mail[m]

\* A run is for its own mailbox, and for the last bell unless the watcher will
\* ask for one more.
ForTheLastBell == \A m \in Mailboxes :
    running(m) => call[m].of = m /\ (told[m] = call[m].bell \/ WillAsk(m))

Inv == Shapes /\ Ordered /\ ForTheLastBell /\ BellsAreAnswered

-----------------------------------------------------------------------------
LEMMA InitInv == MailInit => Inv
  <1> SUFFICES ASSUME MailInit PROVE Inv
    OBVIOUS
  <1>1. \A c \in Mailboxes : c \in Callers /\ call[c] = NoCall
    BY DEF MailInit, Callers
  <1>2. Shapes /\ Ordered
    BY DEF MailInit, Shapes, Ordered
  <1>3. ForTheLastBell /\ BellsAreAnswered
    BY <1>1 DEF MailInit, ForTheLastBell, BellsAreAnswered, Unheard, running
  <1> QED BY <1>2, <1>3 DEF Inv

\* A call is one of CallRecords.
LEMMA CallShape ==
  ASSUME Inv, NEW c \in Callers, call[c].at # "none"
  PROVE  call[c] \in CallRecords
  BY DEF Inv, Shapes, NoCall

\* What a call for a mailbox looks like.
LEMMA CallsShape ==
  ASSUME Inv, NEW box \in Mailboxes
  PROVE  /\ Calls(box) \in CallRecords /\ Calls(box) # NoCall
         /\ Calls(box).at = "asked" /\ Calls(box).of = box /\ Calls(box).bell = told[box]
  BY DEF Inv, Shapes, Calls, CallRecords, NoCall

\* What the property says of one mailbox, before and after.
Answered(m) ==
    /\ running(m) => call[m].of = m /\ (told[m] = call[m].bell \/ WillAsk(m))
    /\ Unheard(m) => WillAsk(m) \/ call[m].at \in {"asked", "started"} \/ told[m] <= turnedAway[m]

LEMMA InvIsAnswered == Inv <=> Shapes /\ Ordered /\ \A m \in Mailboxes : Answered(m)
  BY DEF Inv, Answered, ForTheLastBell, BellsAreAnswered

LEMMA InvWhenAnswered ==
  ASSUME Shapes', Ordered', \A m \in Mailboxes : Answered(m)'
  PROVE  Inv'
  BY DEF Inv, Answered, ForTheLastBell, BellsAreAnswered

\* A mailbox of which nothing changes but that it is heard.
LEMMA AnsweredStays ==
  ASSUME Inv, NEW m \in Mailboxes, Shapes', told'[m] = told[m], heard'[m] >= heard[m],
         coalescing'[m] = coalescing[m], another'[m] = another[m], call'[m] = call[m],
         turnedAway'[m] = turnedAway[m]
  PROVE  Answered(m)'
  <1>1. Answered(m)
    BY InvIsAnswered
  <1> QED BY <1>1 DEF Answered, Unheard, WillAsk, running, Inv, Shapes

\* The timer fires: a run is asked for on account of all that rang, or the one
\* under way is to be followed by another.
LEMMA TimerStep ==
  ASSUME Inv, NEW m \in Mailboxes, TimerFires(m)
  PROVE  Inv'
  <1>1. CASE running(m)
    <2>1. /\ another' = [another EXCEPT ![m] = TRUE] /\ coalescing' = [coalescing EXCEPT ![m] = FALSE]
          /\ UNCHANGED <<mail, told, heard, turnedAway, call>>
      BY <1>1 DEF TimerFires, trigger
    <2>2. Shapes' /\ Ordered'
      BY <2>1 DEF Inv, Shapes, Ordered
    <2>3. Answered(m)'
      BY <1>1, <2>1 DEF Inv, Shapes, ForTheLastBell, Answered, WillAsk, running
    <2>4. ASSUME NEW k \in Mailboxes, k # m PROVE Answered(k)'
      <3>1. /\ told'[k] = told[k] /\ heard'[k] >= heard[k] /\ turnedAway'[k] = turnedAway[k]
            /\ coalescing'[k] = coalescing[k] /\ another'[k] = another[k] /\ call'[k] = call[k]
        BY <2>1, <2>4 DEF Inv, Shapes
      <3> QED BY <2>2, <3>1, AnsweredStays
    <2> QED BY <2>2, <2>3, <2>4, InvWhenAnswered
  <1>2. CASE ~running(m)
    <2>1. /\ another' = [another EXCEPT ![m] = FALSE] /\ coalescing' = [coalescing EXCEPT ![m] = FALSE]
          /\ call' = [call EXCEPT ![m] = Calls(m)]
          /\ UNCHANGED <<mail, told, heard, turnedAway>>
      BY <1>2 DEF TimerFires, trigger
    <2>2. Shapes' /\ Ordered'
      BY <2>1, CallsShape DEF Inv, Shapes, Ordered, Callers
    <2>3. Answered(m)'
      BY <2>1, CallsShape DEF Inv, Shapes, Answered, WillAsk, running, Callers
    <2>4. ASSUME NEW k \in Mailboxes, k # m PROVE Answered(k)'
      <3>1. /\ told'[k] = told[k] /\ heard'[k] >= heard[k] /\ turnedAway'[k] = turnedAway[k]
            /\ coalescing'[k] = coalescing[k] /\ another'[k] = another[k] /\ call'[k] = call[k]
        BY <2>1, <2>4 DEF Inv, Shapes, Callers
      <3> QED BY <2>2, <3>1, AnsweredStays
    <2> QED BY <2>2, <2>3, <2>4, InvWhenAnswered
  <1> QED BY <1>1, <1>2

\* runJob comes back, and what it was asked for is the last bell that was
\* turned away, or its mailbox is not one of the bells not heard.
LEMMA ReturnsStep ==
  ASSUME Inv, NEW c \in Callers, call[c] # NoCall, Returns(c),
         TurnsAway(c) \/ (UNCHANGED turnedAway /\ call[c].at = "found")
  PROVE  Inv'
  <1>1. call[c] \in CallRecords
    BY DEF Inv, Shapes
  <1>2. call' = [call EXCEPT ![c] = call'[c]]
    BY DEF Returns, Inv, Shapes
  <1>3. Shapes' /\ Ordered'
    <2>1. \A m \in Mailboxes : Calls(m) \in CallRecords
      BY CallsShape
    <2>2. turnedAway' \in [Mailboxes -> Nat]
      BY <1>1 DEF TurnsAway, Inv, Shapes, CallRecords
    <2>3. call' \in [Callers -> {NoCall} \cup CallRecords] /\ another' \in [Mailboxes -> BOOLEAN]
      BY <2>1 DEF Returns, Inv, Shapes
    <2> QED BY <2>2, <2>3 DEF Returns, Inv, Shapes, Ordered
  <1>4. ASSUME NEW k \in Mailboxes, k # c PROVE Answered(k)'
    <2>1. /\ told'[k] = told[k] /\ heard'[k] >= heard[k] /\ turnedAway'[k] = turnedAway[k]
          /\ coalescing'[k] = coalescing[k] /\ another'[k] = another[k] /\ call'[k] = call[k]
      BY <1>4 DEF Returns, TurnsAway, Inv, Shapes, Callers
    <2> QED BY <1>3, <2>1, AnsweredStays
  <1>5. ASSUME c \in Mailboxes PROVE Answered(c)'
    <2>1. Answered(c) /\ running(c)
      BY <1>5, InvIsAnswered DEF running
    <2>2. CASE another[c]
      <3>1. call'[c] = Calls(c) /\ told' = told
        BY <1>5, <2>2 DEF Returns, Inv, Shapes
      <3> QED BY <1>5, <3>1, CallsShape DEF Answered
    <2>3. CASE ~another[c]
      <3>1. call'[c] = NoCall /\ UNCHANGED <<another, coalescing, told, heard>>
        BY <1>5, <2>3 DEF Returns, Inv, Shapes
      <3>2. ASSUME Unheard(c) PROVE coalescing[c] \/ told[c] <= turnedAway'[c]
        <4>1. told[c] = call[c].bell \/ coalescing[c]
          BY <2>1, <2>3 DEF Answered, WillAsk
        <4>2. CASE TurnsAway(c)
          BY <1>1, <1>5, <4>1, <4>2 DEF TurnsAway, Inv, Shapes, CallRecords
        <4>3. CASE UNCHANGED turnedAway /\ call[c].at = "found"
          BY <2>1, <2>3, <3>2, <4>3 DEF Answered, WillAsk
        <4> QED BY <4>2, <4>3
      <3> QED BY <3>1, <3>2 DEF Answered, running, Unheard, WillAsk
    <2> QED BY <2>2, <2>3
  <1> QED BY <1>3, <1>4, <1>5, InvWhenAnswered

\* A call goes from one stage to the next, and the one that searches hears all
\* that rang.
LEMMA CallStep ==
  ASSUME Inv, NEW c \in Callers, RunStarts(c) \/ Searches(c)
  PROVE  Inv'
  <1>1. call[c] \in CallRecords
    BY CallShape DEF RunStarts, Searches
  <1>2. /\ UNCHANGED <<mail, coalescing, another, told, turnedAway>>
        /\ \A k \in Callers : k # c => call'[k] = call[k]
        /\ call'[c] \in CallRecords /\ call'[c].of = call[c].of /\ call'[c].bell = call[c].bell
        /\ \A k \in Mailboxes : heard'[k] = heard[k] \/ heard'[k] = mail[k]
    BY <1>1 DEF RunStarts, Searches, watch, Inv, Shapes, CallRecords
  <1>3. heard' \in [Mailboxes -> Nat] /\ call' \in [Callers -> {NoCall} \cup CallRecords]
    BY <1>1 DEF RunStarts, Searches, Inv, Shapes, CallRecords
  <1>4. Shapes' /\ Ordered'
    <2>1. Shapes'
      BY <1>2, <1>3 DEF Inv, Shapes
    <2>2. ASSUME NEW k \in Mailboxes PROVE told'[k] <= mail'[k] /\ heard'[k] <= mail'[k]
      <3>1. told'[k] = told[k] /\ mail'[k] = mail[k] /\ told[k] <= mail[k] /\ heard[k] <= mail[k] /\ mail[k] \in Nat
        BY <1>2 DEF Inv, Shapes, Ordered
      <3>2. heard'[k] = heard[k] \/ heard'[k] = mail[k]
        BY <1>2
      <3> QED BY <3>1, <3>2
    <2> QED BY <2>1, <2>2 DEF Ordered
  <1>5. ASSUME NEW k \in Mailboxes PROVE Answered(k)'
    <2>1. Answered(k) /\ (Unheard(k)' => Unheard(k))
      <3>1. told'[k] = told[k] /\ told[k] <= mail[k] /\ told[k] \in Nat /\ mail[k] \in Nat /\ heard[k] \in Nat
        BY <1>2 DEF Inv, Shapes, Ordered
      <3>2. heard'[k] = heard[k] \/ heard'[k] = mail[k]
        BY <1>2
      <3>3. Unheard(k)' => Unheard(k)
        BY <3>1, <3>2 DEF Unheard
      <3> QED BY <3>3, InvIsAnswered
    <2>2. CASE k # c
      BY <1>2, <2>1, <2>2 DEF Answered, running, WillAsk, Callers
    <2>3. CASE k = c
      <3>1. running(c) /\ running(c)' /\ call[c].of = k
        BY <1>1, <1>2, <2>1, <2>3 DEF running, CallRecords, NoCall, Answered
      <3>2. CASE RunStarts(c)
        <4>1. call'[c].at = "started"
          BY <1>1, <3>2 DEF RunStarts, Inv, Shapes, CallRecords
        <4> QED BY <1>2, <2>1, <2>3, <3>1, <4>1 DEF Answered, WillAsk, running
      <3>3. CASE Searches(c)
        <4>1. ~Unheard(k)'
          BY <2>3, <3>1, <3>3 DEF Searches, Unheard, Inv, Shapes, Ordered
        <4> QED BY <1>2, <2>1, <2>3, <3>1, <4>1 DEF Answered, WillAsk, running
      <3> QED BY <3>2, <3>3
    <2> QED BY <2>2, <2>3
  <1> QED BY <1>4, <1>5, InvWhenAnswered

\* A message arrives: a bell that rings sets the timer.
LEMMA ArrivesStep ==
  ASSUME Inv, NEW m \in Mailboxes, Arrives(m)
  PROVE  Inv'
  <1>1. UNCHANGED <<another, call, heard, turnedAway>> /\ mail' = [mail EXCEPT ![m] = @ + 1]
    BY DEF Arrives
  <1>2. \/ UNCHANGED <<told, coalescing>>
        \/ told' = [told EXCEPT ![m] = mail[m] + 1] /\ coalescing' = [coalescing EXCEPT ![m] = TRUE]
    BY DEF Arrives, Inv, Shapes
  <1>3. Shapes' /\ Ordered'
    <2>1. Shapes'
      <3>1. mail' \in [Mailboxes -> Nat]
        BY <1>1 DEF Inv, Shapes
      <3>2. told' \in [Mailboxes -> Nat] /\ coalescing' \in [Mailboxes -> BOOLEAN]
        <4>1. CASE UNCHANGED <<told, coalescing>>
          BY <4>1 DEF Inv, Shapes
        <4>2. mail[m] + 1 \in Nat
          BY DEF Inv, Shapes
        <4>3. CASE told' = [told EXCEPT ![m] = mail[m] + 1] /\ coalescing' = [coalescing EXCEPT ![m] = TRUE]
          BY <4>2, <4>3 DEF Inv, Shapes
        <4> QED BY <1>2, <4>1, <4>3
      <3> QED BY <1>1, <3>1, <3>2 DEF Inv, Shapes
    <2>2. ASSUME NEW k \in Mailboxes PROVE told'[k] <= mail'[k] /\ heard'[k] <= mail'[k]
      <3>1. told[k] <= mail[k] /\ heard[k] <= mail[k] /\ told[k] \in Nat /\ mail[k] \in Nat /\ heard[k] \in Nat
        BY DEF Inv, Shapes, Ordered
      <3>2. mail'[k] = (IF k = m THEN mail[k] + 1 ELSE mail[k]) /\ heard'[k] = heard[k]
        BY <1>1 DEF Inv, Shapes
      <3>3. told'[k] = told[k] \/ (k = m /\ told'[k] = mail[k] + 1)
        BY <1>2 DEF Inv, Shapes
      <3> QED BY <3>1, <3>2, <3>3
    <2> QED BY <2>1, <2>2 DEF Ordered
  <1>4. ASSUME NEW k \in Mailboxes PROVE Answered(k)'
    <2>1. CASE told'[k] = told[k] /\ coalescing'[k] = coalescing[k]
      BY <1>1, <1>3, <2>1, AnsweredStays DEF Inv, Shapes
    <2>2. CASE coalescing'[k]
      <3>1. running(k)' => call'[k].of = k
        BY <1>1, InvIsAnswered DEF Answered, running
      <3> QED BY <2>2, <3>1 DEF Answered, WillAsk
    <2> QED BY <1>2, <2>1, <2>2 DEF Inv, Shapes
  <1> QED BY <1>3, <1>4, InvWhenAnswered

LEMMA StepInv == Inv /\ [MailNext]_mailVars => Inv'
  <1> SUFFICES ASSUME Inv, [MailNext]_mailVars PROVE Inv'
    OBVIOUS
  <1>1. ASSUME NEW m \in Mailboxes, Arrives(m) PROVE Inv'
    BY <1>1, ArrivesStep
  <1>2. ASSUME UNCHANGED <<mail, coalescing, another, call, told, heard, turnedAway>> PROVE Inv'
    BY <1>2 DEF Inv, Shapes, Ordered, ForTheLastBell, BellsAreAnswered, Unheard, WillAsk, running
  <1>3. ASSUME NEW m \in Mailboxes, SessionEnds(m) \/ session(m) \/ Reconnects(m) PROVE Inv'
    BY <1>2, <1>3 DEF SessionEnds, session, Reconnects
  <1>4. ASSUME NEW m \in Mailboxes, TimerFires(m) PROVE Inv'
    BY <1>4, TimerStep
  <1>5. ASSUME NEW c \in Callers, RunStarts(c) \/ Searches(c) PROVE Inv'
    BY <1>5, CallStep
  <1>6. ASSUME NEW c \in Callers, RunSkipped(c) \/ RunEnds(c) \/ RunFails(c) PROVE Inv'
    <2>1. call[c] # NoCall /\ Returns(c)
      BY <1>6 DEF RunSkipped, RunEnds, RunFails, NoCall
    <2>2. TurnsAway(c) \/ (UNCHANGED turnedAway /\ call[c].at = "found")
      BY <1>6 DEF RunSkipped, RunEnds, RunFails
    <2> QED BY <2>1, <2>2, ReturnsStep
  <1>7. ASSUME ScheduleFires PROVE Inv'
    <2>1. /\ call' = [call EXCEPT !["schedule"] = Calls(Inbox)]
          /\ UNCHANGED <<mail, coalescing, another, told, heard, turnedAway>>
      BY <1>7 DEF ScheduleFires, watch
    <2>2. Shapes' /\ Ordered'
      BY <2>1, CallsShape, MailAssumption DEF Inv, Shapes, Ordered
    <2>3. ASSUME NEW k \in Mailboxes PROVE Answered(k)'
      <3>1. call'[k] = call[k]
        BY <2>1, MailAssumption DEF Inv, Shapes, Callers
      <3> QED BY <2>1, <2>2, <3>1, AnsweredStays DEF Inv, Shapes
    <2> QED BY <2>2, <2>3, InvWhenAnswered
  <1>8. ASSUME ProcessRestarts PROVE Inv'
    <2>1. Shapes' /\ Ordered'
      BY <1>8 DEF ProcessRestarts, Inv, Shapes, Ordered
    <2>2. \A k \in Mailboxes : call'[k] = NoCall /\ ~Unheard(k)'
      BY <1>8 DEF ProcessRestarts, Callers, Unheard, Inv, Shapes
    <2> QED BY <2>1, <2>2 DEF Inv, ForTheLastBell, BellsAreAnswered, running
  <1> QED
    BY <1>1, <1>2, <1>3, <1>4, <1>5, <1>6, <1>7, <1>8 DEF MailNext, Watches, Runs, mailVars

\* The watcher drops no bell of itself, whatever mailboxes are watched and
\* however the runs of the job meet: a bell is with a timer, with another run
\* after the one under way, or with a run of its own that has yet to search,
\* unless the very run that was asked for on its account came back refused or
\* failed (watcher.ts:118-155, run.ts:464).
THEOREM BellsAreKept == MailSpec => []BellsAreAnswered
  <1>1. Inv => BellsAreAnswered
    BY DEF Inv
  <1> QED
    BY <1>1, InitInv, StepInv, PTL DEF MailSpec

-----------------------------------------------------------------------------
(* The link store.  What was handed out is in memory while there is a      *)
(* process that has read the file, and in the file at all times, on a line *)
(* of its own, unless its line was cut short or went on one that was, or   *)
(* the file was rewritten by a process that had not read it; and what is   *)
(* forgotten in memory only is forgotten again before the first call after *)
(* a load.                                                                 *)

LinkRecords == [t : {"link"}, id : LinkIds, who : {Null, Person}]
ClickRecords == [t : {"click"}, id : ClickIds]
Appended == LinkRecords \cup ClickRecords
Lines == Seq(Appended \cup {Piece})

OnFile(id) == \E i \in DOMAIN stored : \E who \in {Null, Person} : stored[i] = <<LinkRecord(id, who)>>

File == stored \in Seq(Lines) /\ (~ended => stored # <<>>)
Memory ==
    /\ links \in [DOMAIN links -> {Null, Person}] /\ DOMAIN links \subseteq LinkIds /\ IsFiniteSet(DOMAIN links)
    /\ arrivals \subseteq ClickIds /\ IsFiniteSet(arrivals)

\* A call that appends a record, or the first one after a load.
Appending == [at : {"append", "prune", "compact"}, rec : Appended]
Pruning == [at : {"prune", "compact"}]
Step ==
    /\ step \in {Resting} \cup Pruning \cup Appending
    /\ ~loaded => step = Resting
    /\ step \in Appending /\ step.rec \in LinkRecords =>
        /\ step.rec.id \in DOMAIN links
        /\ step.at # "append" => step.rec.id \in torn \/ OnFile(step.rec.id)

Resolves == \A id \in minted \ (torn \cup overwritten) :
    OnFile(id) /\ (loaded /\ ~unread => id \in DOMAIN links)
Forgotten == \A id \in forgotten \cap DOMAIN links : links[id] = Null
Forgets == forgotten \subseteq aged /\ (loaded => Forgotten \/ (step.at = "prune" /\ due))

StoreInv == File /\ Memory /\ Step /\ Resolves /\ Forgets

\* The three sorts of record are told apart, and so are the calls.
LEMMA RecordSorts ==
  /\ Piece \notin Appended
  /\ \A r \in LinkRecords : r.t = "link" /\ r.id \in LinkIds /\ r = LinkRecord(r.id, r.who) /\ r.who \in {Null, Person}
  /\ \A r \in ClickRecords : r.t = "click" /\ r.id \in ClickIds
  /\ \A id \in LinkIds, who \in {Null, Person} : LinkRecord(id, who) \in LinkRecords
  /\ \A n \in ClickIds : ClickRecord(n) \in ClickRecords
  BY DEF Piece, Appended, LinkRecords, ClickRecords, LinkRecord, ClickRecord

LEMMA StepSorts ==
  ASSUME step \in {Resting} \cup Pruning \cup Appending
  PROVE  /\ step.at \in {"rest", "append", "prune", "compact"}
         /\ step.at = "rest" <=> step = Resting
         /\ step.at = "append" => step \in Appending
         /\ "rec" \in DOMAIN step <=> step \in Appending
         /\ step \in Appending => step.rec \in Appended /\ step # Resting
  BY DEF Resting, Pruning, Appending

\* What comes at the end of the file leaves every other line as it is, and a
\* line of its own if the last one has its newline.
LEMMA LongerFile ==
  ASSUME File, NEW pieces \in Lines
  PROVE  /\ Longer(pieces) \in Seq(Lines)
         /\ Longer(pieces) # <<>>
         /\ Len(Longer(pieces)) \in DOMAIN Longer(pieces)
         /\ ended => Longer(pieces)[Len(Longer(pieces))] = pieces
         /\ KeysOf(pieces) \subseteq KeysOf(Longer(pieces)[Len(Longer(pieces))])
         /\ \A i \in DOMAIN stored :
              /\ i \in DOMAIN Longer(pieces)
              /\ \/ Longer(pieces)[i] = stored[i]
                 \/ ~ended /\ i = Len(Longer(pieces)) /\ KeysOf(stored[i]) \subseteq KeysOf(Longer(pieces)[i])
  <1> DEFINE f == Longer(pieces)
  <1>1. CASE ended
    BY <1>1 DEF Longer, File
  <1>2. CASE ~ended
    <2> DEFINE n == Len(stored)
    <2>1. n \in Nat /\ n \in DOMAIN stored /\ stored[n] \in Lines /\ DOMAIN stored = 1..n
      BY <1>2 DEF File
    <2>2. stored[n] \o pieces \in Lines
      BY <2>1 DEF Lines
    <2>3. f = [stored EXCEPT ![n] = stored[n] \o pieces]
      BY <1>2 DEF Longer
    <2>4. f \in Seq(Lines) /\ Len(f) = n /\ DOMAIN f = DOMAIN stored /\ f[n] = stored[n] \o pieces
          /\ \A i \in DOMAIN stored : i # n => f[i] = stored[i]
      BY <2>1, <2>2, <2>3 DEF File
    <2>5. Range(stored[n]) \subseteq Range(f[n])
      <3>1. \A k \in DOMAIN stored[n] : k \in DOMAIN f[n] /\ f[n][k] = stored[n][k]
        BY <2>1, <2>4 DEF Lines
      <3> QED BY <3>1 DEF Range
    <2>6. KeysOf(stored[n]) \subseteq KeysOf(f[n])
      BY <2>5 DEF KeysOf
    <2>10. KeysOf(pieces) \subseteq KeysOf(f[n])
      <3>1. \A k \in DOMAIN pieces : Len(stored[n]) + k \in DOMAIN f[n] /\ f[n][Len(stored[n]) + k] = pieces[k]
        BY <2>1, <2>4 DEF Lines
      <3>2. Range(pieces) \subseteq Range(f[n])
        BY <3>1 DEF Range
      <3> QED BY <3>2 DEF KeysOf
    <2> HIDE DEF f
    <2>7. f # <<>> /\ Len(f) \in DOMAIN f
      BY <2>1, <2>4
    <2> HIDE DEF n
    <2>8. ASSUME NEW i \in DOMAIN stored
          PROVE  i \in DOMAIN f /\ (f[i] = stored[i] \/ (i = Len(f) /\ KeysOf(stored[i]) \subseteq KeysOf(f[i])))
      BY <2>4, <2>6
    <2>9. /\ f \in Seq(Lines) /\ f # <<>> /\ Len(f) \in DOMAIN f /\ (ended => f[Len(f)] = pieces)
          /\ KeysOf(pieces) \subseteq KeysOf(f[Len(f)])
          /\ \A i \in DOMAIN stored :
                i \in DOMAIN f /\ (f[i] = stored[i] \/ (~ended /\ i = Len(f) /\ KeysOf(stored[i]) \subseteq KeysOf(f[i])))
      BY <1>2, <2>4, <2>7, <2>8, <2>10
    <2> QED
      BY <2>9, Zenon DEF f
  <1> QED BY <1>1, <1>2

\* So what is on the file stays there, unless it is counted among the torn.
LEMMA FileGrows ==
  ASSUME File, NEW pieces \in Lines, stored' = Longer(pieces),
         ~ended => KeysOf(stored'[Len(stored')]) \subseteq torn'
  PROVE  /\ stored' \in Seq(Lines) /\ stored' # <<>> /\ Len(stored') \in DOMAIN stored'
         /\ ended => stored'[Len(stored')] = pieces
         /\ KeysOf(pieces) \subseteq KeysOf(stored'[Len(stored')])
         /\ \A id : OnFile(id) => OnFile(id)' \/ id \in torn'
  <1>1. /\ stored' \in Seq(Lines) /\ stored' # <<>> /\ Len(stored') \in DOMAIN stored'
        /\ ended => stored'[Len(stored')] = pieces
        /\ KeysOf(pieces) \subseteq KeysOf(stored'[Len(stored')])
        /\ \A i \in DOMAIN stored :
              /\ i \in DOMAIN stored'
              /\ \/ stored'[i] = stored[i]
                 \/ ~ended /\ i = Len(stored') /\ KeysOf(stored[i]) \subseteq KeysOf(stored'[i])
    BY LongerFile
  <1>2. ASSUME NEW id, OnFile(id) PROVE OnFile(id)' \/ id \in torn'
    <2>1. PICK i \in DOMAIN stored, who \in {Null, Person} : stored[i] = <<LinkRecord(id, who)>>
      BY <1>2 DEF OnFile
    <2>2. CASE stored'[i] = stored[i]
      BY <1>1, <2>1, <2>2 DEF OnFile
    <2>3. CASE ~ended /\ i = Len(stored') /\ KeysOf(stored[i]) \subseteq KeysOf(stored'[i])
      <3>1. id \in KeysOf(stored[i])
        <4> DEFINE r == LinkRecord(id, who)
        <4>1. r # Piece /\ r.id = id
          BY DEF LinkRecord, Piece
        <4> HIDE DEF r
        <4>2. stored[i] = <<r>>
          BY <2>1 DEF r
        <4>3. r \in Range(stored[i])
          BY <4>2 DEF Range
        <4> QED BY <4>1, <4>3 DEF KeysOf
      <3> QED BY <2>3, <3>1
    <2> QED BY <1>1, <2>2, <2>3
  <1> QED BY <1>1, <1>2

LEMMA CutFile ==
  ASSUME File, step \in Appending, Cut
  PROVE  /\ File' /\ torn \subseteq torn' /\ UNCHANGED overwritten
         /\ \A id : OnFile(id) => OnFile(id)' \/ id \in torn'
  <1>3. UNCHANGED overwritten
    BY DEF Cut
  <1>1. CASE UNCHANGED <<stored, ended>> /\ torn' = torn \cup {step.rec.id}
    <2>1. torn \subseteq torn' /\ File' /\ \A id : OnFile(id) => OnFile(id)'
      BY <1>1 DEF File, OnFile
    <2> QED BY <1>3, <2>1
  <1>2. ASSUME NEW last \in {Piece, step.rec}, stored' = Longer(<<last>>), ended' = FALSE,
               torn' = torn \cup KeysOf(stored'[Len(stored')]) \cup {step.rec.id}
        PROVE  File' /\ torn \subseteq torn' /\ \A id : OnFile(id) => OnFile(id)' \/ id \in torn'
    <2>1. <<last>> \in Lines
      BY <1>2 DEF Lines, Appending
    <2>2. KeysOf(stored'[Len(stored')]) \subseteq torn' /\ torn \subseteq torn'
      BY <1>2
    <2>3. stored' \in Seq(Lines) /\ stored' # <<>> /\ \A id : OnFile(id) => OnFile(id)' \/ id \in torn'
      BY <1>2, <2>1, <2>2, FileGrows
    <2> QED BY <2>2, <2>3 DEF File
  <1> QED BY <1>1, <1>2, <1>3 DEF Cut

-----------------------------------------------------------------------------
\* A finite set as a sequence: every element is in it.
LEMMA SequenceOfSet ==
  ASSUME NEW S, IsFiniteSet(S)
  PROVE  /\ Cardinality(S) \in Nat
         /\ SetToSeq(S) \in [1..Cardinality(S) -> S]
         /\ \A x \in S : \E i \in 1..Cardinality(S) : SetToSeq(S)[i] = x
  <1> DEFINE n == Cardinality(S)
             q == SetToSeq(S)
  <1>1. n \in Nat /\ ExistsBijection(1..n, S)
    BY FS_CardinalityType
  <1>2. \E f \in [1..n -> S] : IsInjective(f)
    BY <1>1 DEF ExistsBijection, Bijection, Injection, IsInjective
  <1>3. q \in [1..n -> S] /\ IsInjective(q)
    BY <1>2 DEF SetToSeq
  <1> HIDE DEF q
  <1>4. q \in Injection(1..n, S)
    BY <1>3 DEF Injection
  <1>5. Cardinality(1..n) = n
    BY <1>1, FS_Interval
  <1>6. q \in Surjection(1..n, S)
    BY <1>4, <1>5, FS_Injection
  <1>7. \A x \in S : \E i \in 1..n : q[i] = x
    BY <1>6 DEF Surjection
  <1> QED BY <1>1, <1>3, <1>7 DEF q

\* What is in memory is finite, and so are the records of it.
LEMMA RecordsFinite ==
  ASSUME Memory
  PROVE  IsFiniteSet(Records) /\ Records \subseteq Appended
  <1> DEFINE LR == {LinkRecord(id, links[id]) : id \in DOMAIN links}
             CR == {ClickRecord(n) : n \in arrivals}
             lf == [id \in DOMAIN links |-> LinkRecord(id, links[id])]
             cf == [n \in arrivals |-> ClickRecord(n)]
  <1>1. lf \in Surjection(DOMAIN links, LR) /\ cf \in Surjection(arrivals, CR)
    BY DEF Surjection
  <1>2. IsFiniteSet(LR) /\ IsFiniteSet(CR)
    BY <1>1, FS_Surjection DEF Memory
  <1>3. IsFiniteSet(LR \cup CR)
    BY <1>2, FS_Union
  <1>4. LR \subseteq Appended
    BY RecordSorts DEF Memory, Appended
  <1>5. CR \subseteq Appended
    BY RecordSorts DEF Memory, Appended
  <1> QED BY <1>3, <1>4, <1>5 DEF Records

\* The rewritten file has all of memory, each record on a line of its own.
LEMMA RewrittenFile ==
  ASSUME Memory, stored' = Rewritten
  PROVE  stored' \in Seq(Lines) /\ \A id \in DOMAIN links : OnFile(id)'
  <1> DEFINE n == Cardinality(Records)
             q == SetToSeq(Records)
  <1>1. n \in Nat /\ q \in [1..n -> Records] /\ \A r \in Records : \E i \in 1..n : q[i] = r
    BY RecordsFinite, SequenceOfSet
  <1>2. stored' = [i \in 1..n |-> <<q[i]>>]
    BY DEF Rewritten
  <1> HIDE DEF n, q
  <1>3. \A i \in 1..n : <<q[i]>> \in Lines
    BY <1>1, RecordsFinite DEF Lines
  <1>4. stored' \in Seq(Lines)
    BY <1>1, <1>2, <1>3
  <1>5. ASSUME NEW id \in DOMAIN links PROVE OnFile(id)'
    <2>1. LinkRecord(id, links[id]) \in Records /\ links[id] \in {Null, Person}
      BY DEF Records, Memory
    <2>2. PICK i \in 1..n : q[i] = LinkRecord(id, links[id])
      BY <1>1, <2>1
    <2> DEFINE who == links[id]
    <2>3. who \in {Null, Person} /\ i \in DOMAIN stored' /\ stored'[i] = <<LinkRecord(id, who)>>
      BY <1>2, <2>1, <2>2
    <2> HIDE DEF who
    <2> QED BY <2>3 DEF OnFile
  <1> QED BY <1>4, <1>5

\* What is read of the file.
Read == {line[1] : line \in {l \in Range(stored) : Len(l) = 1 /\ l[1] # Piece}}

LEMMA ReadRecords ==
  ASSUME File
  PROVE  /\ Read \subseteq Appended
         /\ IsFiniteSet(Read)
         /\ \A id \in LinkIds : OnFile(id) => \E rec \in Read : rec.t = "link" /\ rec.id = id
  <1> DEFINE n == Len(stored)
             first == [i \in 1..n |-> stored[i][1]]
             T == {first[i] : i \in 1..n}
  <1>1. n \in Nat /\ DOMAIN stored = 1..n /\ \A i \in 1..n : stored[i] \in Lines
    BY DEF File
  <1>2. IsFiniteSet(T)
    <2>1. first \in Surjection(1..n, T)
      BY DEF Surjection
    <2>2. IsFiniteSet(1..n)
      BY <1>1, FS_Interval
    <2> QED BY <2>1, <2>2, FS_Surjection
  <1>3. ASSUME NEW rec \in Read PROVE rec \in T /\ rec \in Appended
    <2>1. PICK l \in Range(stored) : Len(l) = 1 /\ l[1] # Piece /\ rec = l[1]
      BY DEF Read
    <2>2. PICK i \in 1..n : l = stored[i]
      BY <1>1, <2>1 DEF Range
    <2>3. l \in Lines /\ Len(l) = 1
      BY <1>1, <2>1, <2>2
    <2>4. l[1] \in Appended \cup {Piece}
      BY <2>3 DEF Lines
    <2> QED BY <2>1, <2>2, <2>4
  <1>4. IsFiniteSet(Read)
    BY <1>2, <1>3, FS_Subset
  <1>5. ASSUME NEW id \in LinkIds, OnFile(id) PROVE \E rec \in Read : rec.t = "link" /\ rec.id = id
    <2>1. PICK i \in DOMAIN stored, who \in {Null, Person} : stored[i] = <<LinkRecord(id, who)>>
      BY <1>5 DEF OnFile
    <2> DEFINE r == LinkRecord(id, who)
    <2>2. r.t = "link" /\ r.id = id /\ r # Piece
      BY DEF LinkRecord, Piece
    <2> HIDE DEF r
    <2>3. stored[i] = <<r>> /\ stored[i] \in Range(stored)
      BY <2>1 DEF r, Range
    <2>4. Len(stored[i]) = 1 /\ stored[i][1] = r
      BY <2>3
    <2>5. r \in Read
      BY <2>2, <2>3, <2>4 DEF Read
    <2> QED BY <2>2, <2>5
  <1> QED BY <1>3, <1>4, <1>5

-----------------------------------------------------------------------------
LEMMA StoreInitInv == TrackerInit => StoreInv
  <1> SUFFICES ASSUME TrackerInit PROVE StoreInv
    OBVIOUS
  <1>1. links = [id \in {} |-> Null] /\ DOMAIN links = {}
    BY DEF TrackerInit, NoLinks
  <1>2. File /\ Memory
    BY <1>1, FS_EmptySet DEF TrackerInit, File, Memory
  <1>3. Step
    BY DEF TrackerInit, Step, Resting, Appending
  <1> QED BY <1>1, <1>2, <1>3 DEF TrackerInit, StoreInv, Resolves, Forgets

\* A call that rests is not one that appends.
LEMMA NotAppending == Resting \notin Appending /\ \A s \in Pruning : s \notin Appending
  BY DEF Resting, Appending, Pruning

LEMMA MintStep ==
  ASSUME StoreInv, NEW id \in LinkIds, NEW who \in {Null, Person}, mint(id, who)
  PROVE  StoreInv'
  <1>1. /\ loaded /\ step = Resting /\ id \notin minted \cup aged /\ id \notin DOMAIN links
        /\ links' = [i \in DOMAIN links \cup {id} |-> IF i = id THEN who ELSE links[i]]
        /\ step' = [at |-> "append", rec |-> LinkRecord(id, who)]
        /\ UNCHANGED <<arrivals, loaded, unread, stored, ended, torn, overwritten, aged, minted, forgotten>>
    BY DEF mint, Rests, trackerFile
  <1>2. DOMAIN links' = DOMAIN links \cup {id} /\ \A i \in DOMAIN links : i # id /\ links'[i] = links[i]
    BY <1>1
  <1>3. Memory'
    <2>1. IsFiniteSet(DOMAIN links')
      BY <1>2, FS_AddElement DEF StoreInv, Memory
    <2>2. links' \in [DOMAIN links' -> {Null, Person}]
      BY <1>1 DEF StoreInv, Memory
    <2> QED BY <1>1, <1>2, <2>1, <2>2 DEF StoreInv, Memory
  <1>4. Step'
    <2>1. LinkRecord(id, who) \in LinkRecords
      BY RecordSorts
    <2>2. step' \in Appending /\ step'.at = "append" /\ step'.rec.id = id
      BY <1>1, <2>1 DEF Appending, Appended, LinkRecord
    <2> QED BY <1>1, <1>2, <2>2 DEF Step
  <1>5. Forgets'
    <2>1. Forgotten
      BY <1>1 DEF StoreInv, Forgets, Resting
    <2>2. id \notin forgotten
      BY <1>1 DEF StoreInv, Forgets
    <2>3. Forgotten'
      BY <1>1, <1>2, <2>1, <2>2 DEF Forgotten
    <2> QED BY <1>1, <2>3 DEF StoreInv, Forgets
  <1>6. File' /\ Resolves'
    <2>1. File' /\ \A x : OnFile(x)' <=> OnFile(x)
      BY <1>1 DEF StoreInv, File, OnFile
    <2> QED BY <1>1, <1>2, <2>1 DEF StoreInv, Resolves
  <1> QED BY <1>3, <1>4, <1>5, <1>6 DEF StoreInv

LEMMA ClickStep ==
  ASSUME StoreInv, NEW n \in ClickIds, click(n)
  PROVE  StoreInv'
  <1>1. /\ loaded /\ step = Resting /\ arrivals' = arrivals \cup {n}
        /\ step' = [at |-> "append", rec |-> ClickRecord(n)]
        /\ UNCHANGED <<links, loaded, unread, stored, ended, torn, overwritten, aged, minted, forgotten>>
    BY DEF click, Rests, trackerFile
  <1>2. Memory'
    BY <1>1, FS_AddElement DEF StoreInv, Memory
  <1>3. Step'
    <2>1. ClickRecord(n) \in ClickRecords /\ ClickRecord(n) \notin LinkRecords
      BY RecordSorts DEF ClickRecord, LinkRecords
    <2>2. step' \in Appending /\ step'.rec \notin LinkRecords
      BY <1>1, <2>1 DEF Appending, Appended
    <2> QED BY <1>1, <2>2 DEF Step
  <1>4. Forgets'
    BY <1>1 DEF StoreInv, Forgets, Forgotten, Resting
  <1>5. File' /\ Resolves'
    BY <1>1 DEF StoreInv, File, Resolves, OnFile
  <1> QED BY <1>2, <1>3, <1>4, <1>5 DEF StoreInv

\* After a load there is everything that is on the file, and what is to be
\* forgotten is, before the first call.
LEMMA LoadStep ==
  ASSUME StoreInv, load
  PROVE  StoreInv'
  <1> DEFINE LR == {rec \in Read : rec.t = "link"}
             CR == {rec \in Read : rec.t = "click"}
  <1>1. /\ loaded' /\ due' /\ step' = [at |-> "prune"]
        /\ links' = [id \in {rec.id : rec \in LR} |-> (CHOOSE rec \in LR : rec.id = id).who]
        /\ arrivals' = {rec.id : rec \in CR}
        /\ UNCHANGED <<stored, ended, torn, overwritten, aged, minted, forgotten>>
    BY DEF load, Read, trackerFile
  <1>2. IsFiniteSet(LR) /\ IsFiniteSet(CR)
    BY ReadRecords, FS_Subset DEF StoreInv
  <1>3. LR \subseteq LinkRecords /\ CR \subseteq ClickRecords
    BY ReadRecords, RecordSorts DEF StoreInv, Appended
  <1>4. \A id \in LinkIds : OnFile(id) => \E rec \in LR : rec.id = id
    BY ReadRecords DEF StoreInv
  <1> HIDE DEF LR, CR
  <1>5. DOMAIN links' = {rec.id : rec \in LR}
    BY <1>1
  <1>6. Memory'
    <2>1. IsFiniteSet({rec.id : rec \in LR}) /\ IsFiniteSet({rec.id : rec \in CR})
      <3> DEFINE lf == [rec \in LR |-> rec.id]
                 cf == [rec \in CR |-> rec.id]
      <3>1. lf \in Surjection(LR, {rec.id : rec \in LR}) /\ cf \in Surjection(CR, {rec.id : rec \in CR})
        BY DEF Surjection
      <3> QED BY <1>2, <3>1, FS_Surjection
    <2>2. \A id \in DOMAIN links' : links'[id] \in {Null, Person}
      <3> SUFFICES ASSUME NEW id \in {rec.id : rec \in LR} PROVE links'[id] \in {Null, Person}
        BY <1>5
      <3>1. (CHOOSE rec \in LR : rec.id = id) \in LR
        OBVIOUS
      <3> QED BY <1>1, <1>3, <3>1, RecordSorts
    <2>3. links' \in [DOMAIN links' -> {Null, Person}]
      BY <1>1, <2>2
    <2>4. DOMAIN links' \subseteq LinkIds /\ arrivals' \subseteq ClickIds
      BY <1>1, <1>3, <1>5, RecordSorts
    <2> QED BY <1>1, <1>5, <2>1, <2>3, <2>4 DEF Memory
  <1>7. Step'
    BY <1>1 DEF Step, Pruning, Appending
  <1>8. Resolves'
    <2> SUFFICES ASSUME NEW id \in minted \ (torn \cup overwritten) PROVE OnFile(id)' /\ id \in DOMAIN links'
      BY <1>1 DEF Resolves
    <2>1. OnFile(id)
      BY DEF StoreInv, Resolves
    <2>2. id \in LinkIds
      <3>1. PICK i \in DOMAIN stored, who \in {Null, Person} : stored[i] = <<LinkRecord(id, who)>>
        BY <2>1 DEF OnFile
      <3> DEFINE r == LinkRecord(id, who)
      <3>2. r.t = "link" /\ r.id = id /\ r # Piece
        BY DEF LinkRecord, Piece
      <3> HIDE DEF r
      <3>3. stored[i] \in Lines /\ stored[i] = <<r>>
        BY <3>1 DEF r, StoreInv, File
      <3>4. r \in Appended \cup {Piece}
        BY <3>3 DEF Lines
      <3> QED BY <3>2, <3>4, RecordSorts DEF Appended
    <2> QED BY <1>1, <1>4, <1>5, <2>1, <2>2 DEF OnFile
  <1> QED BY <1>1, <1>6, <1>7, <1>8 DEF StoreInv, File, Forgets


LEMMA AppendStep ==
  ASSUME StoreInv, append
  PROVE  StoreInv'
  <1>1. /\ step.at = "append" /\ stored' = Longer(<<step.rec>>) /\ ended' = TRUE
        /\ torn' = IF ended THEN torn ELSE torn \cup KeysOf(stored'[Len(stored')])
        /\ step' = [step EXCEPT !.at = "prune"]
        /\ UNCHANGED <<links, arrivals, loaded, unread, overwritten, aged, minted, forgotten>>
    BY DEF append, Writes, trackerMemory
  <1>2. step \in Appending /\ step.rec \in Appended /\ <<step.rec>> \in Lines /\ step # Resting
    BY <1>1, StepSorts DEF StoreInv, Step, Lines
  <1>3. torn \subseteq torn' /\ (~ended => KeysOf(stored'[Len(stored')]) \subseteq torn')
    BY <1>1
  <1>4. /\ stored' \in Seq(Lines) /\ stored' # <<>> /\ Len(stored') \in DOMAIN stored'
        /\ ended => stored'[Len(stored')] = <<step.rec>>
        /\ KeysOf(<<step.rec>>) \subseteq KeysOf(stored'[Len(stored')])
        /\ \A id : OnFile(id) => OnFile(id)' \/ id \in torn'
    BY <1>1, <1>2, <1>3, FileGrows DEF StoreInv
  <1>5. step' \in Appending /\ step'.rec = step.rec
    BY <1>1, <1>2 DEF Appending
  <1>6. ASSUME NEW id \in LinkIds, NEW who \in {Null, Person}, step.rec = LinkRecord(id, who)
        PROVE  id \in torn' \/ OnFile(id)'
    <2>1. CASE ended
      <3>1. stored'[Len(stored')] = <<LinkRecord(id, who)>>
        BY <1>4, <1>6, <2>1
      <3>2. PICK i \in DOMAIN stored' : stored'[i] = <<LinkRecord(id, who)>>
        BY <1>4, <3>1
      <3> QED BY <3>2 DEF OnFile
    <2>2. CASE ~ended
      <3> DEFINE r == LinkRecord(id, who)
      <3>1. r # Piece /\ r.id = id
        BY DEF LinkRecord, Piece
      <3> HIDE DEF r
      <3>2. r \in Range(<<r>>)
        BY DEF Range
      <3>3. id \in KeysOf(<<r>>)
        BY <3>1, <3>2 DEF KeysOf
      <3>4. step.rec = r
        BY <1>6 DEF r
      <3> QED BY <1>3, <1>4, <2>2, <3>3, <3>4
    <2> QED BY <2>1, <2>2
  <1>9. Step'
    <2>1. CASE step.rec \in LinkRecords
      <3>1. PICK id \in LinkIds, who \in {Null, Person} : step.rec = LinkRecord(id, who) /\ step.rec.id = id
        BY <2>1, RecordSorts
      <3>2. id \in DOMAIN links /\ step'.rec.id = id
        BY <1>2, <1>5, <2>1, <3>1 DEF StoreInv, Step
      <3>3. id \in torn' \/ \E i \in DOMAIN stored', w \in {Null, Person} : stored'[i] = <<LinkRecord(id, w)>>
        BY <1>6, <3>1 DEF OnFile
      <3>4. step'.rec.id \in torn' \/ \E i \in DOMAIN stored', w \in {Null, Person} :
                                           stored'[i] = <<LinkRecord(step'.rec.id, w)>>
        BY <3>2, <3>3
      <3> QED BY <1>1, <1>2, <1>5, <3>2, <3>4 DEF StoreInv, Step, OnFile
    <2>2. CASE step.rec \notin LinkRecords
      BY <1>1, <1>2, <1>5, <2>2 DEF StoreInv, Step
    <2> QED BY <2>1, <2>2
  <1>7. Resolves' /\ Memory'
    BY <1>1, <1>3, <1>4 DEF StoreInv, Resolves, Memory
  <1>8. Forgets'
    BY <1>1 DEF StoreInv, Forgets, Forgotten
  <1> QED BY <1>1, <1>4, <1>7, <1>8, <1>9 DEF StoreInv, File

\* An append that fails leaves memory as it is; and so does one in which the
\* process dies, until the next one loads.
LEMMA CutStep ==
  ASSUME StoreInv, Cut, step.at = "append", step' = Resting,
         \/ UNCHANGED <<links, arrivals, loaded, unread>>
         \/ links' = NoLinks /\ arrivals' = {} /\ loaded' = FALSE,
         UNCHANGED <<aged, minted, forgotten>>
  PROVE  StoreInv'
  <1>1. step \in Appending
    BY StepSorts DEF StoreInv, Step
  <1>2. /\ File' /\ torn \subseteq torn' /\ UNCHANGED overwritten
        /\ \A id : OnFile(id) => OnFile(id)' \/ id \in torn'
    BY <1>1, CutFile DEF StoreInv
  <1>3. Memory'
    <2>1. DOMAIN NoLinks = {} /\ NoLinks \in [{} -> {Null, Person}]
      BY DEF NoLinks
    <2>2. CASE links' = NoLinks /\ arrivals' = {}
      <3>1. DOMAIN links' = {} /\ links' \in [DOMAIN links' -> {Null, Person}]
        BY <2>1, <2>2
      <3> QED BY <2>2, <3>1, FS_EmptySet DEF Memory
    <2>3. CASE UNCHANGED <<links, arrivals>>
      BY <2>3 DEF StoreInv, Memory
    <2> QED BY <2>2, <2>3
  <1>4. Step'
    BY NotAppending DEF Step
  <1>5. Resolves'
    BY <1>2 DEF StoreInv, Resolves
  <1>6. Forgets'
    <2>1. loaded => Forgotten
      BY DEF StoreInv, Forgets
    <2> QED BY <2>1 DEF StoreInv, Forgets, Forgotten
  <1> QED BY <1>2, <1>3, <1>4, <1>5, <1>6 DEF StoreInv

\* What leaves the file alone, and comes to rest.
LEMMA RestStep ==
  ASSUME StoreInv, step' = Resting, UNCHANGED <<stored, ended, torn, overwritten, forgotten>>,
         \/ UNCHANGED <<links, arrivals, loaded, unread>>
         \/ links' = NoLinks /\ arrivals' = {} /\ (loaded' => unread'),
         aged \subseteq aged',
         minted' = minted \/ (minted' = HandedOut /\ step.at # "append" /\ UNCHANGED <<links, loaded, unread>>),
         loaded' => Forgotten'
  PROVE  StoreInv'
  <1>1. Memory'
    <2>1. DOMAIN NoLinks = {} /\ NoLinks \in [{} -> {Null, Person}]
      BY DEF NoLinks
    <2>2. CASE links' = NoLinks /\ arrivals' = {}
      <3>1. DOMAIN links' = {} /\ links' \in [DOMAIN links' -> {Null, Person}]
        BY <2>1, <2>2
      <3> QED BY <2>2, <3>1, FS_EmptySet DEF Memory
    <2>3. CASE UNCHANGED <<links, arrivals>>
      BY <2>3 DEF StoreInv, Memory
    <2> QED BY <2>2, <2>3
  <1>2. Step'
    BY NotAppending DEF Step
  <1>3. Resolves'
    <2>1. CASE minted' = minted
      BY <2>1 DEF StoreInv, Resolves, OnFile
    <2>2. CASE minted' = HandedOut /\ step.at # "append" /\ UNCHANGED <<links, loaded, unread>>
      <3>1. CASE "rec" \in DOMAIN step /\ step.rec.t = "link"
        <4>1. step \in Appending /\ step.rec \in LinkRecords
          BY <3>1, StepSorts, RecordSorts DEF StoreInv, Step, Appended
        <4>2. PICK new : new = step.rec.id
          OBVIOUS
        <4>3. new \in DOMAIN links /\ (new \in torn \/ OnFile(new)) /\ minted' = minted \cup {new}
          BY <2>2, <3>1, <4>1, <4>2 DEF StoreInv, Step, HandedOut
        <4> QED BY <2>2, <4>3 DEF StoreInv, Resolves, OnFile
      <3>2. CASE ~("rec" \in DOMAIN step /\ step.rec.t = "link")
        BY <2>2, <3>2 DEF HandedOut, StoreInv, Resolves, OnFile
      <3> QED BY <3>1, <3>2
    <2> QED BY <2>1, <2>2
  <1>4. Forgets'
    <2>1. CASE loaded'
      BY <2>1 DEF StoreInv, Forgets, Forgotten
    <2>2. CASE ~loaded'
      BY <2>2 DEF StoreInv, Forgets
    <2> QED BY <2>1, <2>2
  <1> QED BY <1>1, <1>2, <1>3, <1>4 DEF StoreInv, File

LEMMA PruneStep ==
  ASSUME StoreInv, prune
  PROVE  StoreInv'
  <1>1. /\ step.at = "prune" /\ step' = [step EXCEPT !.at = "compact"]
        /\ links' = [id \in DOMAIN links |-> IF id \in aged THEN Null ELSE links[id]]
        /\ arrivals' = arrivals \ aged /\ forgotten' = forgotten \cup Ageing
        /\ UNCHANGED <<loaded, unread, stored, ended, torn, overwritten, aged, minted>>
    BY DEF prune, trackerFile
  <1>2. Memory'
    <2>1. DOMAIN links' = DOMAIN links /\ links' \in [DOMAIN links' -> {Null, Person}]
      BY <1>1 DEF StoreInv, Memory
    <2>2. IsFiniteSet(arrivals')
      BY <1>1, FS_Subset DEF StoreInv, Memory
    <2> QED BY <1>1, <2>1, <2>2 DEF StoreInv, Memory
  <1>3. Step'
    <2>1. CASE step \in Appending
      <3>1. step' \in Appending /\ step'.rec = step.rec /\ loaded' = loaded /\ step # Resting
        BY <1>1, <2>1, NotAppending DEF Appending
      <3> QED BY <1>1, <2>1, <3>1 DEF StoreInv, Step, OnFile
    <2>2. CASE step \in Pruning
      <3>1. step' \in Pruning /\ step # Resting
        BY <1>1, <2>2 DEF Pruning, Resting
      <3> QED BY <1>1, <3>1, NotAppending DEF StoreInv, Step
    <2> QED BY <1>1, <2>1, <2>2 DEF StoreInv, Step, Resting
  <1>4. Forgets'
    <2>1. forgotten' \subseteq aged
      BY <1>1 DEF StoreInv, Forgets, Ageing
    <2>2. \A id \in forgotten' \cap DOMAIN links' : links'[id] = Null
      BY <1>1, <2>1
    <2> QED BY <1>1, <2>1, <2>2 DEF Forgets, Forgotten
  <1> QED BY <1>1, <1>2, <1>3, <1>4 DEF StoreInv, File, Resolves, OnFile

LEMMA CompactStep ==
  ASSUME StoreInv, compact
  PROVE  StoreInv'
  <1>1. /\ step.at = "compact" /\ stored' = Rewritten /\ ended' = TRUE /\ step' = Resting /\ minted' = HandedOut
        /\ UNCHANGED <<links, arrivals, loaded, unread, torn, aged, forgotten>>
        /\ overwritten' = IF unread THEN overwritten \cup (minted \ DOMAIN links) ELSE overwritten
    BY DEF compact, trackerMemory
  <1>2. loaded
    BY <1>1 DEF StoreInv, Step, Resting
  <1>3. stored' \in Seq(Lines) /\ \A id \in DOMAIN links : OnFile(id)'
    BY <1>1, RewrittenFile DEF StoreInv
  <1>4. minted' \ (torn \cup overwritten') \subseteq DOMAIN links
    <2>1. CASE "rec" \in DOMAIN step /\ step.rec.t = "link"
      <3>1. step \in Appending /\ step.rec \in LinkRecords
        BY <2>1, StepSorts, RecordSorts DEF StoreInv, Step, Appended
      <3> QED BY <1>1, <1>2, <2>1, <3>1 DEF StoreInv, Step, Resolves, HandedOut
    <2>2. CASE ~("rec" \in DOMAIN step /\ step.rec.t = "link")
      BY <1>1, <1>2, <2>2 DEF HandedOut, StoreInv, Resolves
    <2> QED BY <2>1, <2>2
  <1>5. Resolves'
    BY <1>1, <1>3, <1>4 DEF Resolves
  <1>6. Step'
    BY <1>1, NotAppending DEF Step
  <1>7. Forgets'
    BY <1>1 DEF StoreInv, Forgets, Forgotten
  <1> QED BY <1>1, <1>3, <1>5, <1>6, <1>7 DEF StoreInv, File, Memory

LEMMA StoreStepInv == StoreInv /\ [TrackerNext]_trackerVars => StoreInv'
  <1> SUFFICES ASSUME StoreInv, [TrackerNext]_trackerVars PROVE StoreInv'
    OBVIOUS
  <1>1. ASSUME NEW id \in LinkIds, NEW who \in {Null, Person}, mint(id, who) PROVE StoreInv'
    BY <1>1, MintStep
  <1>2. ASSUME NEW n \in ClickIds, click(n) PROVE StoreInv'
    BY <1>2, ClickStep
  <1>3. CASE load
    BY <1>3, LoadStep
  <1>4. CASE append
    BY <1>4, AppendStep
  <1>5. CASE AppendFails
    BY <1>5, CutStep DEF AppendFails, trackerMemory
  <1>6. CASE NothingToPrune
    <2>1. loaded' => Forgotten'
      BY <1>6 DEF NothingToPrune, StoreInv, Forgets, Forgotten, Ageing, trackerMemory
    <2> QED BY <1>6, <2>1, RestStep DEF NothingToPrune, trackerMemory, trackerFile
  <1>7. CASE prune
    BY <1>7, PruneStep
  <1>8. CASE compact
    BY <1>8, CompactStep
  <1>13. CASE LoadFails
    <2>1. Forgotten'
      <3>1. DOMAIN links' = {}
        BY <1>13 DEF LoadFails, NoLinks
      <3> QED BY <3>1 DEF Forgotten
    <2>2. step' = Resting
      BY <1>13 DEF LoadFails, StoreInv, Step
    <2> QED BY <1>13, <2>1, <2>2, RestStep DEF LoadFails, trackerFile
  <1>9. CASE CompactFails
    <2>1. loaded' => Forgotten'
      BY <1>9 DEF CompactFails, StoreInv, Forgets, Forgotten, trackerMemory
    <2> QED BY <1>9, <2>1, RestStep DEF CompactFails, Interrupted, trackerMemory
  <1>10. CASE Dies
    <2>1. CASE step.at = "append"
      BY <1>10, <2>1, CutStep DEF Dies
    <2>2. CASE step.at # "append"
      <3>1. UNCHANGED <<stored, ended, torn, overwritten>>
        BY <1>10, <2>2 DEF Dies, Interrupted, trackerFile
      <3> QED BY <1>10, <3>1, RestStep DEF Dies
    <2> QED BY <2>1, <2>2
  <1>11. CASE RetentionPasses
    <2>1. loaded' => Forgotten'
      BY <1>11 DEF RetentionPasses, StoreInv, Forgets, Forgotten, Resting, trackerMemory
    <2> QED BY <1>11, <2>1, RestStep DEF RetentionPasses, trackerMemory, trackerFile
  <1>12. CASE UNCHANGED trackerVars
    BY <1>12 DEF trackerVars, trackerMemory, trackerFile, StoreInv, File, Memory, Step, Resolves, Forgets,
                 Forgotten, OnFile
  <1> QED
    BY <1>1, <1>2, <1>3, <1>4, <1>5, <1>6, <1>7, <1>8, <1>9, <1>10, <1>11, <1>12, <1>13 DEF TrackerNext

\* For any links and clicks and any number of mishaps: what was handed out
\* resolves after every call, restart, failed write and compaction, unless its
\* line was cut short or went on one that was, or the file could not be read by
\* this process or was rewritten by one that could not; and who a forgotten link
\* was for does not come back with the file (be/src/tracker/store.ts:133-275).
THEOREM LinksNeverExpire == TrackerSpec => []StoreKeepsFaith
  <1>1. StoreInv => StoreKeepsFaith
    BY DEF StoreInv, StoreKeepsFaith, Rests, Resolves, Forgets, Forgotten, Resting
  <1> QED
    BY <1>1, StoreInitInv, StoreStepInv, PTL DEF TrackerSpec

-----------------------------------------------------------------------------
(* Signing in.  A state that is pending has never been presented, and what *)
(* was presented is on record from then on; a refresh token that need not  *)
(* be presented again is nowhere, neither in force nor in the file, and    *)
(* will not come again: it has the number of a request that was answered.  *)

SignInSpec == SignInInit /\ [][SignInNext]_signInVars

Tokens == Nat \cup {Hand}
Keys == [token : Tokens, refresh : Nat]
States == {"state"} \X Nat
Renewals == {"refresh"} \X Nat
Revocations == {"token"} \X Tokens
TaskRecords == [n : Nat, kind : {"exchange", "identify", "refresh", "revoke"}, tab : Tabs \cup {Nobody},
                what : States \cup Renewals \cup Revocations, renewable : BOOLEAN]

\* What the answer will have its number stored for.
Grants(k) == k.kind \in {"exchange", "refresh"}

Asked(k) ==
    /\ k \in TaskRecords /\ k.n >= 1 /\ k.n <= requests
    /\ k.kind \in {"exchange", "identify"} => k.what \in States /\ k.what \in spent
    /\ k.kind = "refresh" => k.what \in Renewals /\ k.what[2] >= 1 /\ k.what[2] <= requests
    /\ k.kind = "revoke" => k.what \in Revocations
Tasks ==
    /\ requests \in Nat
    /\ \A k \in tasks : Asked(k)
    /\ \A k, other \in tasks : k.n = other.n => k = other

Flows ==
    /\ started \in Nat
    /\ pendingFlows \in [DOMAIN pendingFlows -> BOOLEAN]
    /\ \A s \in DOMAIN pendingFlows : s \in Nat /\ s <= started /\ <<"state", s>> \notin spent
    /\ spent \subseteq States \cup Renewals
    /\ \A p \in spent : /\ p[1] = "state" => p[2] <= started
                        /\ p[1] = "refresh" => p[2] >= 1 /\ p[2] <= requests

\* A refresh token that may be presented.
Good(x) ==
    /\ x \in Nat /\ x <= requests /\ <<"refresh", x>> \notin spent
    /\ \A k \in tasks : Grants(k) => k.n # x
InForce == env \in Keys /\ credentials \in Keys /\ Good(env.refresh) /\ Good(credentials.refresh)

\* What a request will bring has not been presented, nor is it being.
Unseen == \A k \in tasks : Grants(k) =>
    /\ <<"refresh", k.n>> \notin spent
    /\ \A other \in tasks : other.what # <<"refresh", k.n>>

SignInv == Tasks /\ Flows /\ InForce /\ Unseen

-----------------------------------------------------------------------------
\* The three things that are presented are told apart.
LEMMA Presented ==
  /\ \A p \in States : p[1] = "state" /\ p[2] \in Nat /\ p \notin Renewals /\ p \notin Revocations
  /\ \A p \in Renewals : p[1] = "refresh" /\ p[2] \in Nat /\ p = <<"refresh", p[2]>> /\ p \notin Revocations
  /\ \A n \in Nat : <<"state", n>> \in States /\ <<"refresh", n>> \in Renewals
  /\ \A n \in Tokens : <<"token", n>> \in Revocations
  BY DEF States, Renewals, Revocations

\* A refresh token that is not set has not been presented.
LEMMA NotSetGood == ASSUME SignInv PROVE Good(NotSet)
  <1>1. <<"refresh", NotSet>> \notin spent
    BY DEF SignInv, Flows, NotSet
  <1> QED BY <1>1 DEF SignInv, Tasks, Asked, Good, NotSet

\* Nothing is asked and nothing comes of what was: a credential is what the
\* process had, or what the file had, or none.
LEMMA NothingAsked ==
  ASSUME SignInv, tasks' \subseteq tasks, UNCHANGED <<requests, spent>>, Flows',
         env' \in Keys, credentials' \in Keys,
         env'.refresh \in {env.refresh, credentials.refresh, NotSet},
         credentials'.refresh \in {env.refresh, credentials.refresh, NotSet}
  PROVE  SignInv'
  <1>1. Tasks' /\ Unseen'
    BY DEF SignInv, Tasks, Unseen, Asked
  <1>2. ASSUME NEW x, Good(x) PROVE Good(x)'
    BY <1>2 DEF Good
  <1>3. \A x \in {env.refresh, credentials.refresh, NotSet} : Good(x)'
    BY <1>2, NotSetGood DEF SignInv, InForce
  <1>4. ASSUME NEW x, x \in {env.refresh, credentials.refresh, NotSet}
        PROVE  x \in Nat /\ x <= requests' /\ <<"refresh", x>> \notin spent' /\ \A k \in tasks' : Grants(k) => k.n # x
    BY <1>3, <1>4 DEF Good
  <1>5. InForce'
    BY <1>4 DEF InForce, Good
  <1> QED BY <1>1, <1>5 DEF SignInv

LEMMA FewerFlows ==
  ASSUME SignInv, UNCHANGED <<requests, spent, started>>,
         DOMAIN pendingFlows' \subseteq DOMAIN pendingFlows,
         pendingFlows' \in [DOMAIN pendingFlows' -> BOOLEAN]
  PROVE  Flows'
  BY DEF SignInv, Flows

\* A sign-in starts: its state is a new one.
LEMMA StartFlows ==
  ASSUME SignInv, NEW t \in Tabs, start(t)
  PROVE  Flows'
  <1>1. PICK room : /\ DOMAIN room \subseteq DOMAIN pendingFlows
                    /\ pendingFlows' = [s \in DOMAIN room \cup {started'} |-> s \in DOMAIN room /\ room[s]]
    <2> DEFINE kept == Fresh(pendingFlows)
               room == IF Cardinality(DOMAIN kept) < MAX_PENDING THEN kept
                       ELSE Restrict(kept, DOMAIN kept \ {Oldest(kept)})
    <2>1. DOMAIN kept \subseteq DOMAIN pendingFlows
      BY DEF Fresh, Restrict
    <2>2. pendingFlows' = [s \in DOMAIN room \cup {started'} |-> s \in DOMAIN room /\ room[s]]
      BY DEF start
    <2> HIDE DEF kept
    <2>3. DOMAIN room \subseteq DOMAIN pendingFlows
      BY <2>1 DEF Restrict
    <2> QED BY <2>2, <2>3
  <1>2. started' = started + 1 /\ UNCHANGED <<requests, spent>>
    BY DEF start
  <1>3. DOMAIN pendingFlows' = DOMAIN room \cup {started'}
    BY <1>1
  <1>4. pendingFlows' \in [DOMAIN pendingFlows' -> BOOLEAN]
    <2>1. \A s \in DOMAIN pendingFlows' : pendingFlows'[s] \in BOOLEAN
      BY <1>1
    <2> QED BY <1>1, <2>1
  <1>5. <<"state", started + 1>> \notin spent
    BY DEF SignInv, Flows
  <1>6. ASSUME NEW s \in DOMAIN pendingFlows' PROVE s \in Nat /\ s <= started' /\ <<"state", s>> \notin spent
    <2>1. CASE s = started + 1
      BY <1>2, <1>5, <2>1 DEF SignInv, Flows
    <2>2. CASE s \in DOMAIN pendingFlows
      BY <1>2, <2>2 DEF SignInv, Flows
    <2> QED BY <1>1, <1>2, <1>3, <2>1, <2>2
  <1>7. \A p \in spent : p[1] = "state" => p[2] <= started'
    BY <1>2, Presented DEF SignInv, Flows
  <1> QED BY <1>2, <1>4, <1>6, <1>7 DEF SignInv, Flows

\* A request is made, of a number that nothing has.
LEMMA AskTasks ==
  ASSUME SignInv, NEW k \in TaskRecords, Ask(k),
         \A p \in spent : p \in spent',
         k.kind = "exchange" => k.what \in States /\ k.what \in spent',
         k.kind = "refresh" => k.what \in Renewals /\ k.what[2] >= 1 /\ k.what[2] <= requests,
         k.kind = "revoke" => k.what \in Revocations,
         k.kind # "identify"
  PROVE  /\ Tasks' /\ requests' = requests + 1
         /\ \E new : /\ tasks' = tasks \cup {new} /\ new \in TaskRecords /\ new.n = requests + 1
                     /\ new.kind = k.kind /\ new.what = k.what
  <1>0. PICK new : new = [k EXCEPT !.n = requests + 1]
    OBVIOUS
  <1>1. requests' = requests + 1 /\ tasks' = tasks \cup {new} /\ requests \in Nat
    BY <1>0 DEF Ask, SignInv, Tasks
  <1>2. new \in TaskRecords /\ new.n = requests + 1 /\ new.kind = k.kind /\ new.what = k.what
    BY <1>0, <1>1 DEF TaskRecords
  <1>3. \A j \in tasks : Asked(j) /\ j.n \in Nat
    BY DEF SignInv, Tasks, Asked, TaskRecords
  <1>4. \A j \in tasks : Asked(j)'
    <2> SUFFICES ASSUME NEW j \in tasks PROVE Asked(j)'
      OBVIOUS
    <2>1. Asked(j) /\ j.n <= requests' /\ requests <= requests'
      BY <1>1, <1>3 DEF Asked
    <2>2. j.kind = "refresh" => j.what[2] <= requests'
      BY <1>1, <2>1, Presented DEF Asked
    <2> QED BY <2>1, <2>2 DEF Asked
  <1>5. Asked(new)'
    <2>1. k.kind = "refresh" => k.what[2] <= requests'
      BY <1>1, Presented
    <2> QED BY <1>1, <1>2, <2>1 DEF Asked, TaskRecords
  <1>6. \A j \in tasks : j.n # new.n
    BY <1>1, <1>2, <1>3 DEF Asked
  <1>7. Tasks'
    BY <1>1, <1>4, <1>5, <1>6 DEF SignInv, Tasks
  <1> QED BY <1>1, <1>2, <1>7

\* The number of a request is new to everything.
LEMMA AskSeen ==
  ASSUME SignInv, NEW new, tasks' = tasks \cup {new}, new.n = requests + 1, requests' = requests + 1,
         \A p \in Renewals : p \in spent' => p \in spent,
         \A n \in Nat : new.what = <<"refresh", n>> => n = env.refresh,
         UNCHANGED <<env, credentials>>
  PROVE  InForce' /\ Unseen'
  <1>1. requests \in Nat /\ env.refresh \in Nat /\ credentials.refresh \in Nat
    BY DEF SignInv, Tasks, InForce, Keys
  <1>2. ASSUME NEW x, Good(x) PROVE Good(x)'
    <2>1. x \in Nat /\ x <= requests'
      BY <1>1, <1>2 DEF Good
    <2>2. <<"refresh", x>> \notin spent'
      BY <1>2, <2>1, Presented DEF Good
    <2>3. new.n # x
      BY <1>1, <1>2 DEF Good
    <2> QED BY <1>2, <2>1, <2>2, <2>3 DEF Good
  <1>3. InForce'
    <2>1. PICK x, y : x = env.refresh /\ y = credentials.refresh
      OBVIOUS
    <2>2. Good(x)' /\ Good(y)'
      BY <1>2, <2>1 DEF SignInv, InForce
    <2>3. env' = env /\ credentials' = credentials
      OBVIOUS
    <2> QED BY <2>1, <2>2, <2>3 DEF SignInv, InForce, Good
  <1>4. \A p \in spent : p \in Renewals => p[2] <= requests
    BY Presented DEF SignInv, Flows
  <1>5. \A k \in tasks : k.what \in Renewals => k.kind = "refresh" /\ k.what[2] <= requests
    BY Presented DEF SignInv, Tasks, Asked, TaskRecords
  <1>6. ASSUME NEW k \in tasks', Grants(k) PROVE <<"refresh", k.n>> \notin spent' /\ \A other \in tasks' : other.what # <<"refresh", k.n>>
    <2>1. CASE k = new
      <3>1. <<"refresh", requests + 1>> \in Renewals /\ <<"refresh", requests + 1>>[2] = requests + 1
        BY <1>1 DEF Renewals
      <3>2. <<"refresh", requests + 1>> \notin spent'
        BY <1>1, <1>4, <3>1
      <3>3. \A other \in tasks : other.what # <<"refresh", requests + 1>>
        BY <1>1, <1>5, <3>1
      <3>4. new.what # <<"refresh", requests + 1>>
        BY <1>1 DEF SignInv, InForce, Good
      <3> QED BY <2>1, <3>2, <3>3, <3>4
    <2>2. CASE k \in tasks
      <3>1. k.n \in Nat /\ k.n # env.refresh
        BY <1>6, <2>2 DEF SignInv, Tasks, Asked, TaskRecords, InForce, Good
      <3>2. <<"refresh", k.n>> \notin spent'
        BY <1>6, <2>2, <3>1, Presented DEF SignInv, Unseen
      <3>3. new.what # <<"refresh", k.n>>
        BY <3>1
      <3> QED BY <1>6, <2>2, <3>2, <3>3 DEF SignInv, Unseen
    <2> QED BY <2>1, <2>2
  <1> QED BY <1>3, <1>6 DEF Unseen

-----------------------------------------------------------------------------
\* A state that came back is spent, and its code is being exchanged.
LEMMA CallbackStep ==
  ASSUME SignInv, NEW t \in Tabs, callback(t)
  PROVE  SignInv' /\ <<"state", tab[t].state>> \notin spent
  <1>0. PICK s : s = tab[t].state
    OBVIOUS
  <1> DEFINE k == Task("exchange", t, <<"state", s>>)
  <1>1. /\ s \in DOMAIN pendingFlows /\ pendingFlows' = Without(s)
        /\ Ask(k) /\ spent' = spent \cup {<<"state", s>>}
        /\ UNCHANGED <<env, credentials, started>>
    BY <1>0 DEF callback, Pending, keys
  <1>2. s \in Nat /\ s <= started /\ <<"state", s>> \notin spent
    BY <1>1 DEF SignInv, Flows
  <1>3. k \in TaskRecords /\ k.kind = "exchange" /\ k.what = <<"state", s>>
    BY <1>2, Presented DEF Task, TaskRecords
  <1> HIDE DEF k
  <1>4. k.what \in States /\ k.what \in spent'
    BY <1>1, <1>2, <1>3, Presented
  <1>5. /\ Tasks' /\ requests' = requests + 1
        /\ \E new : /\ tasks' = tasks \cup {new} /\ new \in TaskRecords /\ new.n = requests + 1
                    /\ new.kind = k.kind /\ new.what = k.what
    BY <1>1, <1>3, <1>4, AskTasks
  <1>6. PICK new : tasks' = tasks \cup {new} /\ new.n = requests + 1 /\ new.what = <<"state", s>>
    BY <1>3, <1>5
  <1>7. \A n \in Nat : new.what # <<"refresh", n>>
    BY <1>6
  <1>8. \A p \in Renewals : p \in spent' => p \in spent
    BY <1>1, <1>2, Presented
  <1>9. InForce' /\ Unseen'
    BY <1>1, <1>5, <1>6, <1>7, <1>8, AskSeen
  <1>10. Flows'
    <2>1. DOMAIN pendingFlows' = DOMAIN pendingFlows \ {s} /\ pendingFlows' \in [DOMAIN pendingFlows' -> BOOLEAN]
      BY <1>1 DEF Without, Restrict, SignInv, Flows
    <2>2. ASSUME NEW q \in DOMAIN pendingFlows' PROVE q \in Nat /\ q <= started /\ <<"state", q>> \notin spent'
      <3>1. q \in DOMAIN pendingFlows /\ q # s
        BY <2>1
      <3>2. q \in Nat /\ q <= started /\ <<"state", q>> \notin spent
        BY <3>1 DEF SignInv, Flows
      <3>3. <<"state", q>> # <<"state", s>>
        BY <3>1
      <3> QED BY <1>1, <3>2, <3>3
    <2>3. spent' \subseteq States \cup Renewals
      BY <1>1, <1>2, Presented DEF SignInv, Flows
    <2>4. ASSUME NEW p \in spent'
          PROVE  (p[1] = "state" => p[2] <= started) /\ (p[1] = "refresh" => p[2] >= 1 /\ p[2] <= requests')
      <3>1. CASE p \in spent
        <4>1. /\ p[1] = "state" => p[2] <= started
              /\ p[1] = "refresh" => p[2] >= 1 /\ p[2] <= requests
              /\ p[2] \in Nat /\ requests \in Nat
          BY <3>1, Presented DEF SignInv, Flows, Tasks
        <4> QED BY <1>5, <4>1
      <3>2. CASE p = <<"state", s>>
        BY <1>2, <3>2
      <3> QED BY <1>1, <3>1, <3>2
    <2> QED BY <1>1, <2>1, <2>2, <2>3, <2>4 DEF SignInv, Flows
  <1> QED BY <1>0, <1>2, <1>5, <1>9, <1>10 DEF SignInv

\* What else is asked changes no flow, and presents nothing yet.
LEMMA AskedFlows ==
  ASSUME SignInv, requests' = requests + 1, UNCHANGED <<pendingFlows, started, spent>>
  PROVE  Flows'
  <1>1. \A p \in spent : p[1] = "refresh" => p[2] >= 1 /\ p[2] <= requests + 1
    BY Presented DEF SignInv, Flows, Tasks
  <1> QED BY <1>1 DEF SignInv, Flows

LEMMA DisconnectStep ==
  ASSUME SignInv, NEW t \in Tabs, disconnect(t)
  PROVE  SignInv'
  <1>0. PICK x : x = env.token
    OBVIOUS
  <1> DEFINE k == Task("revoke", t, <<"token", x>>)
  <1>1. Ask(k) /\ UNCHANGED <<env, credentials, pendingFlows, started, spent>>
    BY <1>0 DEF disconnect, keys
  <1>2. k \in TaskRecords /\ k.kind = "revoke" /\ k.what = <<"token", x>> /\ k.what \in Revocations
    <2>1. x \in Tokens
      BY <1>0 DEF SignInv, InForce, Keys
    <2> QED BY <2>1, Presented DEF Task, TaskRecords
  <1> HIDE DEF k
  <1>3. /\ Tasks' /\ requests' = requests + 1
        /\ \E new : /\ tasks' = tasks \cup {new} /\ new \in TaskRecords /\ new.n = requests + 1
                    /\ new.kind = k.kind /\ new.what = k.what
    BY <1>1, <1>2, AskTasks
  <1>4. PICK new : tasks' = tasks \cup {new} /\ new.n = requests + 1 /\ new.what = <<"token", x>>
    BY <1>2, <1>3
  <1>5. \A n \in Nat : new.what # <<"refresh", n>>
    BY <1>4
  <1>6. InForce' /\ Unseen'
    BY <1>1, <1>3, <1>4, <1>5, AskSeen
  <1> QED BY <1>1, <1>3, <1>6, AskedFlows DEF SignInv

\* The refresh token in force is good, and no other renewal presents it.
LEMMA RefreshStep ==
  ASSUME SignInv, ensureFresh
  PROVE  SignInv' /\ <<"refresh", env.refresh>> \notin spent /\ \A k \in tasks : k.what # <<"refresh", env.refresh>>
  <1>0. PICK x : x = env.refresh
    OBVIOUS
  <1> DEFINE k == Task("refresh", Nobody, <<"refresh", x>>)
  <1>1. Ask(k) /\ ~Refreshing /\ x # NotSet /\ UNCHANGED <<env, credentials, pendingFlows, started, spent>>
    BY <1>0 DEF ensureFresh, refresh, keys
  <1>2. x \in Nat /\ x >= 1 /\ x <= requests /\ <<"refresh", x>> \notin spent
    BY <1>0, <1>1 DEF SignInv, InForce, Good, NotSet
  <1>3. k \in TaskRecords /\ k.kind = "refresh" /\ k.what = <<"refresh", x>>
    BY <1>2, Presented DEF Task, TaskRecords
  <1> HIDE DEF k
  <1>4. k.what \in Renewals /\ k.what[2] >= 1 /\ k.what[2] <= requests
    BY <1>2, <1>3, Presented
  <1>5. /\ Tasks' /\ requests' = requests + 1
        /\ \E new : /\ tasks' = tasks \cup {new} /\ new \in TaskRecords /\ new.n = requests + 1
                    /\ new.kind = k.kind /\ new.what = k.what
    BY <1>1, <1>3, <1>4, AskTasks
  <1>6. PICK new : tasks' = tasks \cup {new} /\ new.n = requests + 1 /\ new.what = <<"refresh", x>>
    BY <1>3, <1>5
  <1>7. \A n \in Nat : new.what = <<"refresh", n>> => n = env.refresh
    BY <1>0, <1>6
  <1>8. InForce' /\ Unseen'
    BY <1>1, <1>5, <1>6, <1>7, AskSeen
  <1>9. \A j \in tasks : j.what # <<"refresh", x>>
    <2>1. <<"refresh", x>> \in Renewals
      BY <1>2, Presented
    <2>2. \A j \in tasks : j.what \in Renewals => j.kind = "refresh"
      BY Presented DEF SignInv, Tasks, Asked, TaskRecords
    <2> QED BY <1>1, <2>1, <2>2 DEF Refreshing
  <1> QED BY <1>0, <1>1, <1>2, <1>5, <1>8, <1>9, AskedFlows DEF SignInv

-----------------------------------------------------------------------------
\* What is stored of an answer has the number of the request, or is what was.
LEMMA StoredKeys ==
  ASSUME SignInv, NEW k \in tasks, NEW given \in BOOLEAN, NEW keep \in BOOLEAN, NEW written \in 0..2,
         storeGrant(k, given, keep, written)
  PROVE  /\ env' \in Keys /\ credentials' \in Keys
         /\ env'.refresh \in {k.n, env.refresh, NotSet}
         /\ credentials'.refresh \in {k.n, credentials.refresh, NotSet}
         /\ given /\ Stored(given, written) => env'.refresh = k.n /\ credentials'.refresh = k.n
  <1>1. k.n \in Nat /\ k.n \in Tokens
    BY DEF SignInv, Tasks, Asked, TaskRecords, Tokens
  <1>2. env.refresh \in Nat /\ credentials.refresh \in Nat /\ credentials.token \in Tokens /\ NotSet \in Nat
    BY DEF SignInv, InForce, Keys, NotSet
  <1>3. env' \in Keys /\ env'.refresh \in {k.n, env.refresh, NotSet}
    BY <1>1, <1>2 DEF storeGrant, Keys
  <1>4. credentials' \in Keys /\ credentials'.refresh \in {k.n, credentials.refresh, NotSet}
    BY <1>1, <1>2 DEF storeGrant, Keys
  <1>5. given /\ Stored(given, written) => env'.refresh = k.n /\ credentials'.refresh = k.n
    BY DEF storeGrant, Stored
  <1> QED BY <1>3, <1>4, <1>5

\* A request is answered: its number is at most where it was stored, and what
\* it presented need not be presented again if both places have the number.
LEMMA AnswerStep ==
  ASSUME SignInv, NEW k \in tasks, Grants(k), UNCHANGED requests,
         \A j \in tasks' :
            \/ j \in tasks /\ j # k
            \/ /\ j \in TaskRecords /\ j.kind = "identify" /\ j.n = k.n /\ j.what = k.what
               /\ k.kind = "exchange"
               /\ \A i \in tasks' : i.n = k.n => i = j,
         env' \in Keys, credentials' \in Keys,
         env'.refresh \in {k.n, env.refresh, NotSet}, credentials'.refresh \in {k.n, credentials.refresh, NotSet},
         \/ spent' = spent
         \/ k.kind = "refresh" /\ spent' = spent \cup {k.what} /\ env'.refresh = k.n /\ credentials'.refresh = k.n
  PROVE  Tasks' /\ InForce' /\ Unseen'
  <1>1. \A p \in spent : p \in spent'
    OBVIOUS
  <1>2. \A j \in tasks : Asked(j) /\ j.n \in Nat
    BY DEF SignInv, Tasks, Asked, TaskRecords
  <1>3. ASSUME NEW j \in tasks' PROVE Asked(j)'
    <2>1. CASE j \in tasks
      BY <1>1, <1>2, <2>1 DEF Asked
    <2>2. CASE j.kind = "identify" /\ j \in TaskRecords /\ j.n = k.n /\ j.what = k.what /\ k.kind = "exchange"
      BY <1>1, <1>2, <2>2 DEF Asked
    <2> QED BY <2>1, <2>2
  <1>4. ASSUME NEW j \in tasks', NEW i \in tasks', j.n = i.n PROVE j = i
    <2>1. CASE j \in tasks /\ i \in tasks
      BY <1>4, <2>1 DEF SignInv, Tasks
    <2>2. CASE ~(j \in tasks /\ i \in tasks)
      BY <1>4, <2>2
    <2> QED BY <2>1, <2>2
  <1>5. Tasks'
    BY <1>3, <1>4 DEF SignInv, Tasks
  <1>6. ASSUME NEW j \in tasks', Grants(j) PROVE j \in tasks /\ j # k /\ j.n # k.n
    BY <1>6 DEF Grants, SignInv, Tasks
  <1>7. k.n \in Nat /\ k.n <= requests /\ <<"refresh", k.n>> \notin spent /\ \A j \in tasks : j.what # <<"refresh", k.n>>
    BY <1>2 DEF SignInv, Unseen, Asked
  <1>8. spent' = spent \/ (spent' = spent \cup {k.what} /\ k.what \in Renewals)
    BY <1>2 DEF Asked
  <1>9. ASSUME NEW j \in tasks', Grants(j)
        PROVE  <<"refresh", j.n>> \notin spent' /\ \A other \in tasks' : other.what # <<"refresh", j.n>>
    <2>1. <<"refresh", j.n>> \notin spent /\ \A other \in tasks : other.what # <<"refresh", j.n>>
      BY <1>6, <1>9 DEF SignInv, Unseen
    <2> QED BY <2>1
  <1>10. Unseen'
    BY <1>9 DEF Unseen
  <1>11. ASSUME NEW x, Good(x), spent' = spent
         PROVE  x \in Nat /\ x <= requests' /\ <<"refresh", x>> \notin spent' /\ \A j \in tasks' : Grants(j) => j.n # x
    BY <1>6, <1>11 DEF Good
  <1>12. /\ k.n \in Nat /\ k.n <= requests' /\ <<"refresh", k.n>> \notin spent'
         /\ \A j \in tasks' : Grants(j) => j.n # k.n
    BY <1>6, <1>7
  <1>13. Good(env.refresh) /\ Good(credentials.refresh) /\ Good(NotSet)
    BY NotSetGood DEF SignInv, InForce
  <1>14. InForce'
    <2>1. ASSUME NEW x, x = env'.refresh \/ x = credentials'.refresh
          PROVE  x \in Nat /\ x <= requests' /\ <<"refresh", x>> \notin spent' /\ \A j \in tasks' : Grants(j) => j.n # x
      <3>1. CASE x = k.n
        BY <1>12, <3>1
      <3>2. CASE x # k.n
        BY <1>11, <1>13, <2>1, <3>2
      <3> QED BY <3>1, <3>2
    <2>2. PICK x, y : x = env'.refresh /\ y = credentials'.refresh
      OBVIOUS
    <2>3. Good(x)' /\ Good(y)'
      BY <2>1, <2>2 DEF Good
    <2> QED BY <2>2, <2>3 DEF InForce, Good
  <1> QED BY <1>5, <1>10, <1>14

LEMMA ExchangedStep ==
  ASSUME SignInv, NEW k \in tasks, Exchanged(k)
  PROVE  SignInv'
  <1>0. PICK given \in BOOLEAN, written \in 0..2 :
           /\ k.kind = "exchange" /\ storeGrant(k, given, FALSE, written)
           /\ UNCHANGED requests
           /\ IF Stored(given, written)
              THEN tasks' = (tasks \ {k}) \cup {[k EXCEPT !.kind = "identify", !.renewable = given]} /\ UNCHANGED tab
              ELSE tasks' = tasks \ {k} /\ Answer303(k)
           /\ UNCHANGED <<connection, client, pendingFlows, started, spent, hands>>
    BY Zenon DEF Exchanged
  <1>1. /\ k.kind = "exchange" /\ storeGrant(k, given, FALSE, written) /\ UNCHANGED requests
        /\ \/ tasks' = (tasks \ {k}) \cup {[k EXCEPT !.kind = "identify", !.renewable = given]}
           \/ tasks' = tasks \ {k}
        /\ UNCHANGED <<pendingFlows, started, spent>>
    BY <1>0
  <1>2. PICK j : j = [k EXCEPT !.kind = "identify", !.renewable = given]
    OBVIOUS
  <1>3. j \in TaskRecords /\ j.kind = "identify" /\ j.n = k.n /\ j.what = k.what
    BY <1>2 DEF SignInv, Tasks, Asked, TaskRecords
  <1>4. \A i \in tasks : i.n = k.n => i = k
    BY DEF SignInv, Tasks
  <1>5. \A i \in tasks' : (i \in tasks /\ i # k) \/ (i = j /\ \A o \in tasks' : o.n = k.n => o = j)
    BY <1>1, <1>2, <1>4
  <1>6. Grants(k)
    BY <1>1 DEF Grants
  <1>7. /\ env' \in Keys /\ credentials' \in Keys
        /\ env'.refresh \in {k.n, env.refresh, NotSet} /\ credentials'.refresh \in {k.n, credentials.refresh, NotSet}
    BY <1>1, StoredKeys
  <1>8. Tasks' /\ InForce' /\ Unseen'
    BY <1>1, <1>3, <1>5, <1>6, <1>7, AnswerStep
  <1>9. Flows'
    BY <1>1 DEF SignInv, Flows
  <1> QED BY <1>8, <1>9 DEF SignInv

LEMMA RefreshedStep ==
  ASSUME SignInv, NEW k \in tasks, refreshOnce(k)
  PROVE  SignInv'
  <1>1. PICK rotated \in BOOLEAN, written \in 0..2 :
           /\ k.kind = "refresh" /\ Done(k) /\ storeGrant(k, rotated, TRUE, written)
           /\ spent' = spent \/ (rotated /\ Stored(rotated, written) /\ spent' = spent \cup {k.what})
           /\ UNCHANGED <<pendingFlows, started>>
    BY DEF refreshOnce
  <1>2. tasks' = tasks \ {k} /\ UNCHANGED requests /\ Grants(k)
    BY <1>1 DEF Done, Grants
  <1>3. /\ env' \in Keys /\ credentials' \in Keys
        /\ env'.refresh \in {k.n, env.refresh, NotSet} /\ credentials'.refresh \in {k.n, credentials.refresh, NotSet}
        /\ rotated /\ Stored(rotated, written) => env'.refresh = k.n /\ credentials'.refresh = k.n
    BY <1>1, StoredKeys
  <1>4. Tasks' /\ InForce' /\ Unseen'
    BY <1>1, <1>2, <1>3, AnswerStep
  <1>5. Flows'
    <2>1. k.what \in Renewals /\ k.what[2] >= 1 /\ k.what[2] <= requests /\ k.what[1] # "state"
      BY <1>1, Presented DEF SignInv, Tasks, Asked
    <2>2. spent' \subseteq States \cup Renewals
      BY <1>1, <2>1 DEF SignInv, Flows
    <2>3. \A p \in spent' : /\ p[1] = "state" => p[2] <= started
                            /\ p[1] = "refresh" => p[2] >= 1 /\ p[2] <= requests
      BY <1>1, <2>1 DEF SignInv, Flows
    <2>4. ASSUME NEW s \in DOMAIN pendingFlows PROVE s \in Nat /\ s <= started /\ <<"state", s>> \notin spent'
      <3>1. s \in Nat /\ s <= started /\ <<"state", s>> \notin spent
        BY DEF SignInv, Flows
      <3>2. <<"state", s>> \notin Renewals
        BY <3>1, Presented
      <3> QED BY <1>1, <2>1, <3>1, <3>2
    <2> QED BY <1>1, <1>2, <2>2, <2>3, <2>4 DEF SignInv, Flows
  <1> QED BY <1>4, <1>5 DEF SignInv

\* Clearing takes nothing but what was, and leaves nothing in its place.
LEMMA ClearedKeys ==
  ASSUME SignInv, NEW names, Clear(names)
  PROVE  /\ env' \in Keys /\ credentials' \in Keys
         /\ env'.refresh \in {env.refresh, NotSet} /\ credentials'.refresh \in {credentials.refresh, NotSet}
  <1>1. /\ env.token \in Tokens /\ env.refresh \in Nat /\ DOMAIN env = {"token", "refresh"}
        /\ credentials.token \in Tokens /\ credentials.refresh \in Nat /\ DOMAIN credentials = {"token", "refresh"}
        /\ NotSet \in Nat /\ NotSet \in Tokens
    BY DEF SignInv, InForce, Keys, NotSet, Tokens
  <1>2. env' = [n \in {"token", "refresh"} |-> IF n \in names THEN NotSet ELSE env[n]]
    BY <1>1 DEF Clear
  <1>3. PICK written \in SUBSET names :
           credentials' = [n \in {"token", "refresh"} |-> IF n \in written THEN NotSet ELSE credentials[n]]
    BY <1>1 DEF Clear
  <1>4. env' \in Keys /\ env'.refresh \in {env.refresh, NotSet}
    <2>1. env' = [token |-> env'.token, refresh |-> env'.refresh]
      BY <1>2
    <2> QED BY <1>1, <1>2, <2>1 DEF Keys
  <1>5. credentials' \in Keys /\ credentials'.refresh \in {credentials.refresh, NotSet}
    <2>1. credentials' = [token |-> credentials'.token, refresh |-> credentials'.refresh]
      BY <1>3
    <2> QED BY <1>1, <1>3, <2>1 DEF Keys
  <1> QED BY <1>4, <1>5

LEMMA SignInitInv == SignInInit => SignInv
  <1> SUFFICES ASSUME SignInInit PROVE SignInv
    OBVIOUS
  <1>1. tasks = {} /\ spent = {} /\ requests = 0 /\ started = 0 /\ pendingFlows = [s \in {} |-> FALSE]
    BY DEF SignInInit, NoFlows
  <1>2. env = [token |-> 0, refresh |-> 0] /\ credentials = env
    BY DEF SignInInit, NotSet
  <1>3. Flows
    BY <1>1 DEF Flows
  <1>4. InForce
    BY <1>1, <1>2 DEF InForce, Keys, Tokens, Good
  <1> QED BY <1>1, <1>3, <1>4 DEF SignInv, Tasks, Unseen

\* A change by hand sets no refresh token.
LEMMA BoardStep ==
  ASSUME SignInv, CredentialsBoard
  PROVE  SignInv'
  <1>1. PICK written \in BOOLEAN :
          LET gone == IF written THEN credentialChangedByHand ELSE {} IN
          /\ env' = [token |-> Hand, refresh |-> IF gone = {} THEN env.refresh ELSE NotSet]
          /\ \E cleared \in SUBSET gone :
              credentials' = [token |-> IF written THEN Hand ELSE credentials.token,
                              refresh |-> IF cleared = {} THEN credentials.refresh ELSE NotSet]
          /\ connection' = IF written THEN NoConnection ELSE connection
    BY DEF CredentialsBoard, PutCredential
  <1>2. /\ env.refresh \in Nat /\ credentials.refresh \in Nat /\ credentials.token \in Tokens
        /\ NotSet \in Nat /\ Hand \in Tokens
    BY DEF SignInv, InForce, Keys, NotSet, Tokens
  <1>3. env' \in Keys /\ env'.refresh \in {env.refresh, NotSet}
    BY <1>1, <1>2 DEF Keys
  <1>4. credentials' \in Keys /\ credentials'.refresh \in {credentials.refresh, NotSet}
    BY <1>1, <1>2 DEF Keys
  <1>5. UNCHANGED <<tasks, requests, started, spent, pendingFlows>>
    BY DEF CredentialsBoard, counters
  <1>6. Flows'
    BY <1>5 DEF SignInv, Flows
  <1> QED BY <1>3, <1>4, <1>5, <1>6, NothingAsked

\* Forgetting the connection, whatever else goes with it.
LEMMA ClearStep ==
  ASSUME SignInv, NEW names, Clear(names), tasks' \subseteq tasks,
         UNCHANGED <<requests, started, spent, pendingFlows>>
  PROVE  SignInv'
  <1>1. Flows'
    BY DEF SignInv, Flows
  <1> QED BY <1>1, ClearedKeys, NothingAsked

LEMMA KeptKeys ==
  ASSUME SignInv, UNCHANGED <<env, credentials, requests, spent>>, tasks' \subseteq tasks, Flows'
  PROVE  SignInv'
  <1>1. env' \in Keys /\ credentials' \in Keys
    BY DEF SignInv, InForce
  <1> QED BY <1>1, NothingAsked

LEMMA SignStepInv == SignInv /\ [SignInNext]_signInVars => SignInv'
  <1> SUFFICES ASSUME SignInv, [SignInNext]_signInVars PROVE SignInv'
    OBVIOUS
  <1>0. pendingFlows \in [DOMAIN pendingFlows -> BOOLEAN]
    BY DEF SignInv, Flows
  <1>1. ASSUME NEW t \in Tabs, describeAll(t) PROVE SignInv'
    <2>1. DOMAIN pendingFlows' \subseteq DOMAIN pendingFlows /\ pendingFlows' \in [DOMAIN pendingFlows' -> BOOLEAN]
      BY <1>0, <1>1 DEF describeAll, Fresh, Restrict
    <2> QED BY <1>1, <2>1, FewerFlows, KeptKeys DEF describeAll, keys, counters
  <1>2. ASSUME NEW t \in Tabs, start(t) PROVE SignInv'
    BY <1>2, StartFlows, KeptKeys DEF start, keys
  <1>3. ASSUME NEW t \in Tabs, Visit(t) \/ StateUnknown(t) PROVE SignInv'
    BY <1>0, <1>3, FewerFlows, KeptKeys DEF Visit, StateUnknown, keys, counters
  <1>4. ASSUME NEW t \in Tabs, disconnect(t) PROVE SignInv'
    BY <1>4, DisconnectStep
  <1>5. ASSUME NEW t \in Tabs, DisconnectAtOnce(t) PROVE SignInv'
    BY <1>5, ClearStep DEF DisconnectAtOnce, Forget
  <1>6. ASSUME NEW t \in Tabs, callbackRefused(t) PROVE SignInv'
    <2>1. DOMAIN pendingFlows' \subseteq DOMAIN pendingFlows /\ pendingFlows' \in [DOMAIN pendingFlows' -> BOOLEAN]
      BY <1>0, <1>6 DEF callbackRefused, Without, Restrict
    <2> QED BY <1>6, <2>1, FewerFlows, KeptKeys DEF callbackRefused, keys, counters
  <1>7. ASSUME NEW t \in Tabs, callback(t) PROVE SignInv'
    BY <1>7, CallbackStep
  <1>8. ASSUME NEW k \in tasks, Exchanged(k) PROVE SignInv'
    BY <1>8, ExchangedStep
  <1>9. ASSUME NEW k \in tasks, ExchangeFails(k) \/ RefreshFails(k) PROVE SignInv'
    BY <1>0, <1>9, FewerFlows, KeptKeys DEF ExchangeFails, RefreshFails, Done, keys
  <1>10. ASSUME NEW k \in tasks, Identified(k) PROVE SignInv'
    BY <1>0, <1>10, FewerFlows, KeptKeys DEF Identified, Done, keys
  <1>11. ASSUME NEW k \in tasks, Revoked(k) PROVE SignInv'
    BY <1>11, ClearStep DEF Revoked, Forget, Done
  <1>12. ASSUME NEW k \in tasks, refreshOnce(k) PROVE SignInv'
    BY <1>12, RefreshedStep
  <1>13. CASE ensureFresh
    BY <1>13, RefreshStep
  <1>14. CASE CredentialsBoard
    BY <1>14, BoardStep
  <1>15. CASE CredentialRow
    BY <1>15, ClearStep DEF CredentialRow, DeleteCredential, counters
  <1>16. CASE ClientCredentialRow
    BY <1>0, <1>16, FewerFlows, KeptKeys DEF ClientCredentialRow, keys, counters
  <1>17. CASE TimePassesBy
    <2>1. DOMAIN pendingFlows' \subseteq DOMAIN pendingFlows /\ pendingFlows' \in [DOMAIN pendingFlows' -> BOOLEAN]
      BY <1>0, <1>17 DEF TimePassesBy
    <2> QED BY <1>17, <2>1, FewerFlows, KeptKeys DEF TimePassesBy, keys, counters
  <1>18. CASE NewProcess
    <2>1. tasks' = {} /\ env' = credentials /\ pendingFlows' = [s \in {} |-> FALSE]
          /\ UNCHANGED <<credentials, requests, started, spent>>
      BY <1>18 DEF NewProcess, NoFlows, counters
    <2>2. Flows'
      BY <2>1, FewerFlows
    <2>3. env' \in Keys /\ credentials' \in Keys
      BY <2>1 DEF SignInv, InForce
    <2> QED BY <2>1, <2>2, <2>3, NothingAsked
  <1>19. CASE UNCHANGED signInVars
    BY <1>0, <1>19, FewerFlows, KeptKeys DEF signInVars, keys, counters
  <1> QED
    BY <1>1, <1>2, <1>3, <1>4, <1>5, <1>6, <1>7, <1>8, <1>9, <1>10, <1>11, <1>12, <1>13, <1>14, <1>15, <1>16,
       <1>17, <1>18, <1>19 DEF SignInNext

\* What a request under way presents has been presented already, so that only
\* a request of this step can be the first.
LEMMA OnlyAsked ==
  ASSUME SignInv, UNCHANGED requests,
         \A j \in tasks' : j \in tasks \/ \E k \in tasks : j.n = k.n
  PROVE  \A j \in tasks' : ~(j.n > requests)
  BY DEF SignInv, Tasks, Asked, TaskRecords

\* However many tabs, sign-ins, renewals and changes by hand overlap, and
\* whenever the process is replaced: no state and no spent refresh token is
\* given to the provider again (be/src/oauth.ts:420-436, :550-555, :729-799).
THEOREM NothingIsReplayed == SignInSpec => PresentsEachOnce
  <1> DEFINE Once == \A k \in tasks' : k.n > requests /\ k.kind \in {"exchange", "refresh"} =>
                        k.what \notin spent /\ \A other \in tasks : other.what # k.what
  <1>1. ASSUME SignInv, [SignInNext]_signInVars PROVE Once \/ UNCHANGED signInVars
    <2>1. ASSUME NEW t \in Tabs, callback(t) PROVE Once
      <3>1. PICK s : s = tab[t].state
        OBVIOUS
      <3>2. s \in DOMAIN pendingFlows /\ <<"state", s>> \notin spent /\ s \in Nat
        BY <2>1, <3>1, <1>1, CallbackStep DEF callback, Pending, SignInv, Flows
      <3>3. \A k \in tasks' : k \in tasks \/ k.what = <<"state", s>>
        BY <2>1, <3>1 DEF callback, Ask, Task
      <3>4. ASSUME NEW other \in tasks PROVE other.what # <<"state", s>>
        <4>1. <<"state", s>> \notin spent /\ <<"state", s>> \notin Renewals /\ <<"state", s>> \notin Revocations
          BY <3>2, Presented
        <4>2. Asked(other) /\ other.kind \in {"exchange", "identify", "refresh", "revoke"}
          BY <1>1 DEF SignInv, Tasks, Asked, TaskRecords
        <4> QED BY <4>1, <4>2 DEF Asked
      <3>5. \A k \in tasks : ~(k.n > requests)
        BY <1>1 DEF SignInv, Tasks, Asked, TaskRecords
      <3> QED BY <3>2, <3>3, <3>4, <3>5
    <2>2. ASSUME ensureFresh PROVE Once
      <3>1. PICK x : x = env.refresh
        OBVIOUS
      <3>2. <<"refresh", x>> \notin spent /\ \A k \in tasks : k.what # <<"refresh", x>>
        BY <1>1, <2>2, <3>1, RefreshStep
      <3>3. \A k \in tasks' : k \in tasks \/ k.what = <<"refresh", x>>
        BY <2>2, <3>1 DEF ensureFresh, Ask, Task
      <3>4. \A k \in tasks : ~(k.n > requests)
        BY <1>1 DEF SignInv, Tasks, Asked, TaskRecords
      <3> QED BY <3>2, <3>3, <3>4
    <2>3. ASSUME NEW t \in Tabs, disconnect(t) PROVE Once
      <3>1. \A k \in tasks' : k \in tasks \/ k.kind = "revoke"
        BY <2>3 DEF disconnect, Ask, Task
      <3>2. \A k \in tasks : ~(k.n > requests)
        BY <1>1 DEF SignInv, Tasks, Asked, TaskRecords
      <3> QED BY <3>1, <3>2
    <2>4. ASSUME NEW t \in Tabs,
                 describeAll(t) \/ start(t) \/ Visit(t) \/ DisconnectAtOnce(t) \/ StateUnknown(t) \/ callbackRefused(t)
          PROVE  Once
      <3>1. tasks' = tasks /\ requests' = requests
        BY <2>4 DEF describeAll, start, Visit, DisconnectAtOnce, StateUnknown, callbackRefused, counters
      <3> QED BY <1>1, <3>1, OnlyAsked
    <2>5. ASSUME NEW k \in tasks, Exchanged(k) PROVE Once
      <3>1. requests' = requests /\ \A j \in tasks' : j \in tasks \/ j.n = k.n
        <4>1. \A given : [k EXCEPT !.kind = "identify", !.renewable = given].n = k.n
          BY <1>1 DEF SignInv, Tasks, Asked, TaskRecords
        <4> QED BY <2>5, <4>1 DEF Exchanged
      <3> QED BY <1>1, <3>1, OnlyAsked
    <2>6. ASSUME NEW k \in tasks,
                 ExchangeFails(k) \/ Identified(k) \/ Revoked(k) \/ refreshOnce(k) \/ RefreshFails(k)
          PROVE  Once
      <3>1. tasks' \subseteq tasks /\ requests' = requests
        BY <2>6 DEF ExchangeFails, Identified, Revoked, refreshOnce, RefreshFails, Done
      <3> QED BY <1>1, <3>1, OnlyAsked
    <2>7. ASSUME CredentialsBoard \/ CredentialRow \/ ClientCredentialRow \/ TimePassesBy \/ NewProcess PROVE Once
      <3>1. tasks' \subseteq tasks /\ requests' = requests
        BY <2>7 DEF CredentialsBoard, CredentialRow, ClientCredentialRow, TimePassesBy, NewProcess, counters
      <3> QED BY <1>1, <3>1, OnlyAsked
    <2> HIDE DEF Once
    <2> QED
      BY <1>1, <2>1, <2>2, <2>3, <2>4, <2>5, <2>6, <2>7 DEF SignInNext
  <1>2. SignInv /\ SignInv' /\ [SignInNext]_signInVars =>
          [\A k \in tasks' : k.n > requests /\ k.kind \in {"exchange", "refresh"} =>
              k.what \notin spent /\ \A other \in tasks : other.what # k.what]_signInVars
    BY <1>1
  <1> QED
    BY <1>2, SignInitInv, SignStepInv, PTL DEF SignInSpec, PresentsEachOnce
=============================================================================
