--------------------------- MODULE SendMail_proofs ---------------------------
(***************************************************************************)
(* Proofs about SendMail, for every list of recipients and any number of   *)
(* loops: types, and - as long as no append leaves a part of its line - at *)
(* most one mail to each recipient.                                        *)
(***************************************************************************)
EXTENDS SendMail, TLAPS

-----------------------------------------------------------------------------
(* Type correctness.                                                       *)

\* A loop that holds a recipient holds one of the list.
Positions == \A w \in Loops : Awaiting(w) => at[w] \in 1..Len(List)

LEMMA ListType ==
    /\ Len(List) \in Nat
    /\ \A k \in 1..Len(List) : List[k] \in Recipients
BY MailingAssumption

LEMMA WriteType ==
    ASSUME TypeOK, NEW line \in Lines, NEW ok \in BOOLEAN, Write(line, ok)
    PROVE  file' \in Seq(Lines) /\ torn' \in BOOLEAN
<1>1. CASE ok
  <2> DEFINE written == IF torn THEN Junk ELSE line
  <2>1. written \in Lines
    BY DEF Lines
  <2>2. file' = Append(file, written) /\ torn' = FALSE
    BY <1>1 DEF Write, Append1
  <2> HIDE DEF written
  <2>3. file' \in Seq(Lines)
    BY <2>1, <2>2 DEF TypeOK
  <2>4. torn' \in BOOLEAN
    BY <2>2
  <2> QED
    BY <2>3, <2>4
<1>2. CASE ~ok
  BY <1>2, MailingAssumption DEF Write, AppendFails, TypeOK
<1> QED
  BY <1>1, <1>2

LEMMA LineType ==
    ASSUME NEW kind \in Kinds, NEW r \in Recipients
    PROVE  Line(kind, r) \in Lines
BY DEF Line, Lines

LEMMA NextIndex ==
    ASSUME TypeOK, NEW w \in Loops, NEW k, k \in Unmarked(w)
    PROVE  k \in 1..Len(List) /\ List[k] \notin attempted
BY ListType DEF Unmarked, TypeOK

LEMMA MarkAndSendType ==
    ASSUME TypeOK, Positions, NEW w \in Loops, NEW k \in 1..Len(List),
           NEW ok \in BOOLEAN, MarkAndSend(w, k, ok)
    PROVE  TypeOK' /\ Positions'
<1>1. List[k] \in Recipients /\ Len(List) \in Nat
  BY ListType
<1>2. file' \in Seq(Lines) /\ torn' \in BOOLEAN
  BY <1>1, WriteType, LineType DEF MarkAndSend, Kinds
<1>3. /\ at' \in [Loops -> 1..Len(List) + 1]
      /\ at'[w] = k
      /\ \A v \in Loops \ {w} : at'[v] = at[v] /\ pc'[v] = pc[v]
  BY <1>1 DEF MarkAndSend, TypeOK
<1>4. pc' \in [Loops -> Phases]
  BY DEF MarkAndSend, TypeOK, Phases, Ended
<1>5. attempted' \in SUBSET Recipients
  BY <1>1 DEF MarkAndSend, TypeOK
<1>6. TypeOK'
  BY <1>2, <1>3, <1>4, <1>5 DEF MarkAndSend, TypeOK
<1>7. Positions'
  BY <1>3 DEF Positions, Awaiting
<1> QED
  BY <1>6, <1>7

LEMMA CollectType ==
    ASSUME TypeOK, Positions, NEW w \in Loops, NEW permanent \in BOOLEAN,
           Awaiting(w), Collect(w, permanent)
    PROVE  /\ failures' \in [Loops -> SUBSET (Recipients \X BOOLEAN)]
           /\ pc' \in [Loops -> Phases]
           /\ at' \in [Loops -> 1..Len(List) + 1]
           /\ Positions'
<1>1. at[w] \in 1..Len(List) /\ Current(w) \in Recipients /\ Len(List) \in Nat
  BY ListType DEF Positions, Current
<1>2. at' \in [Loops -> 1..Len(List) + 1]
  BY <1>1 DEF Collect, TypeOK
<1>3. failures' \in [Loops -> SUBSET (Recipients \X BOOLEAN)]
  BY <1>1 DEF Collect, TypeOK
<1>4. pc' \in [Loops -> Phases]
  BY DEF Collect, TypeOK, Phases
<1>5. Positions'
  BY DEF Collect, TypeOK, Positions, Awaiting
<1> QED
  BY <1>2, <1>3, <1>4, <1>5

LEMMA CollectUnlessThrownType ==
    ASSUME TypeOK, Positions, NEW w \in Loops, NEW permanent \in BOOLEAN,
           NEW ok \in BOOLEAN, Awaiting(w), CollectUnlessThrown(w, permanent, ok)
    PROVE  /\ failures' \in [Loops -> SUBSET (Recipients \X BOOLEAN)]
           /\ pc' \in [Loops -> Phases]
           /\ at' \in [Loops -> 1..Len(List) + 1]
           /\ Positions'
<1>1. CASE ok
  BY <1>1, CollectType DEF CollectUnlessThrown
<1>2. CASE ~ok
  BY <1>2 DEF CollectUnlessThrown, TypeOK, Phases, Ended, Positions, Awaiting
<1> QED
  BY <1>1, <1>2

LEMMA CurrentType ==
    ASSUME Positions, NEW w \in Loops, Awaiting(w)
    PROVE  Current(w) \in Recipients
BY ListType DEF Positions, Current

LEMMA InitType == Init => TypeOK /\ Positions
<1> SUFFICES ASSUME Init PROVE TypeOK /\ Positions
  OBVIOUS
<1>1. 1 \in 1..Len(List) + 1
  BY ListType
<1>2. NoReport \in [delivered : SUBSET Recipients, rejected : SUBSET Recipients,
                    unresolved : SUBSET Recipients]
  BY DEF NoReport
<1>3. <<>> \in Seq(Lines)
  OBVIOUS
<1> QED
  BY <1>1, <1>2, <1>3 DEF Init, TypeOK, Phases, Positions, Awaiting

LEMMA TypeStep ==
    ASSUME TypeOK, Positions, [Next]_vars
    PROVE  TypeOK' /\ Positions'
<1>1. ASSUME NEW w \in Loops, Start(w) PROVE TypeOK' /\ Positions'
  BY <1>1 DEF Start, TypeOK, Phases, Positions, Awaiting, storeVars
<1>2. ASSUME NEW w \in Loops, Abandon(w) PROVE TypeOK' /\ Positions'
  BY <1>2 DEF Abandon, TypeOK, Positions, Awaiting, storeVars
<1>3. ASSUME NEW w \in Loops, Pause(w) PROVE TypeOK' /\ Positions'
  <2>1. PICK k \in Unmarked(w) : at' = [at EXCEPT ![w] = k]
    BY <1>3 DEF Pause
  <2>2. k \in 1..Len(List) /\ Len(List) \in Nat
    BY <2>1, NextIndex, ListType
  <2>3. at' \in [Loops -> 1..Len(List) + 1]
    BY <2>1, <2>2 DEF TypeOK
  <2>4. pc' \in [Loops -> Phases]
    BY <1>3 DEF Pause, TypeOK, Phases
  <2>5. Positions'
    BY <1>3, <2>1, <2>2 DEF Pause, TypeOK, Positions, Awaiting
  <2> QED
    BY <1>3, <2>3, <2>4, <2>5 DEF Pause, TypeOK, storeVars
<1>4. ASSUME NEW w \in Loops, NEW ok \in BOOLEAN, Attempt(w, ok)
      PROVE  TypeOK' /\ Positions'
  <2>1. PICK k \in Unmarked(w) : MarkAndSend(w, k, ok)
    BY <1>4 DEF Attempt
  <2> QED
    BY <1>4, <2>1, NextIndex, MarkAndSendType
<1>5. ASSUME NEW w \in Loops, NEW ok \in BOOLEAN, AttemptAfterGap(w, ok)
      PROVE  TypeOK' /\ Positions'
  <2>1. at[w] \in 1..Len(List)
    BY <1>5 DEF AttemptAfterGap, Positions, Awaiting
  <2> QED
    BY <1>5, <2>1, MarkAndSendType DEF AttemptAfterGap
<1>6. ASSUME NEW w \in Loops, Accept(w) PROVE TypeOK' /\ Positions'
  <2>1. Current(w) \in Recipients
    BY <1>6, CurrentType DEF Accept, Awaiting
  <2>2. mails' \in [Recipients -> Nat]
    BY <1>6, <2>1 DEF Accept, TypeOK
  <2>3. pc' \in [Loops -> Phases]
    BY <1>6 DEF Accept, TypeOK, Phases
  <2>4. Positions'
    BY <1>6 DEF Accept, TypeOK, Positions, Awaiting
  <2> QED
    BY <1>6, <2>2, <2>3, <2>4 DEF Accept, TypeOK, storeVars
<1>7. ASSUME NEW w \in Loops, NEW ok \in BOOLEAN, Sent(w, ok)
      PROVE  TypeOK' /\ Positions'
  <2>1. Awaiting(w) /\ Current(w) \in Recipients
    BY <1>7, CurrentType DEF Sent, Awaiting
  <2>2. file' \in Seq(Lines) /\ torn' \in BOOLEAN
    BY <1>7, <2>1, WriteType, LineType DEF Sent, Kinds
  <2>3. delivered' \in SUBSET Recipients
    BY <1>7, <2>1 DEF Sent, TypeOK
  <2>4. /\ failures' \in [Loops -> SUBSET (Recipients \X BOOLEAN)]
        /\ pc' \in [Loops -> Phases]
        /\ at' \in [Loops -> 1..Len(List) + 1]
        /\ Positions'
    <3>1. CASE ~ok
      BY <1>7, <2>1, <3>1, CollectType DEF Sent
    <3>2. CASE ok
      <4>1. at[w] \in 1..Len(List) /\ Len(List) \in Nat
        BY <2>1, ListType DEF Positions
      <4>2. /\ pc' = [pc EXCEPT ![w] = "turn"]
            /\ at' = [at EXCEPT ![w] = @ + 1]
            /\ failures' = failures
        BY <1>7, <3>2 DEF Sent
      <4> QED
        BY <4>1, <4>2 DEF TypeOK, Phases, Positions, Awaiting
    <3> QED
      BY <3>1, <3>2
  <2> QED
    BY <1>7, <2>2, <2>3, <2>4 DEF Sent, TypeOK
<1>8. ASSUME NEW w \in Loops, NEW ok \in BOOLEAN, Refused(w, ok)
      PROVE  TypeOK' /\ Positions'
  <2>1. Awaiting(w) /\ Current(w) \in Recipients
    BY <1>8, CurrentType DEF Refused, Awaiting
  <2>2. file' \in Seq(Lines) /\ torn' \in BOOLEAN
    BY <1>8, <2>1, WriteType, LineType DEF Refused, Kinds
  <2>3. /\ failures' \in [Loops -> SUBSET (Recipients \X BOOLEAN)]
        /\ pc' \in [Loops -> Phases]
        /\ at' \in [Loops -> 1..Len(List) + 1]
        /\ Positions'
    BY <1>8, <2>1, CollectUnlessThrownType DEF Refused
  <2> QED
    BY <1>8, <2>1, <2>2, <2>3 DEF Refused, TypeOK
<1>9. ASSUME NEW w \in Loops, NEW ok \in BOOLEAN, Deferred(w, ok)
      PROVE  TypeOK' /\ Positions'
  <2>1. Awaiting(w) /\ Current(w) \in Recipients
    BY <1>9, CurrentType DEF Deferred, Awaiting
  <2>2. file' \in Seq(Lines) /\ torn' \in BOOLEAN
    BY <1>9, <2>1, WriteType, LineType DEF Deferred, Kinds
  <2>3. /\ failures' \in [Loops -> SUBSET (Recipients \X BOOLEAN)]
        /\ pc' \in [Loops -> Phases]
        /\ at' \in [Loops -> 1..Len(List) + 1]
        /\ Positions'
    BY <1>9, <2>1, CollectUnlessThrownType DEF Deferred
  <2> QED
    BY <1>9, <2>1, <2>2, <2>3 DEF Deferred, TypeOK
<1>10. ASSUME NEW w \in Loops, NEW permanent \in BOOLEAN, NoAnswer(w, permanent)
       PROVE  TypeOK' /\ Positions'
  <2>1. Awaiting(w)
    BY <1>10 DEF NoAnswer, OnTheWire, Awaiting
  <2>2. /\ failures' \in [Loops -> SUBSET (Recipients \X BOOLEAN)]
        /\ pc' \in [Loops -> Phases]
        /\ at' \in [Loops -> 1..Len(List) + 1]
        /\ Positions'
    BY <1>10, <2>1, CollectType DEF NoAnswer
  <2> QED
    BY <1>10, <2>2 DEF NoAnswer, TypeOK, storeVars
<1>11. ASSUME NEW w \in Loops, Finish(w) PROVE TypeOK' /\ Positions'
  <2>1. Summary \in [delivered : SUBSET Recipients, rejected : SUBSET Recipients,
                     unresolved : SUBSET Recipients]
    BY DEF Summary, TypeOK
  <2>2. report' \in [Loops -> [delivered : SUBSET Recipients,
                               rejected : SUBSET Recipients,
                               unresolved : SUBSET Recipients]]
    BY <1>11, <2>1 DEF Finish, TypeOK
  <2>3. pc' \in [Loops -> Phases] /\ Positions'
    BY <1>11 DEF Finish, TypeOK, Phases, Ended, Positions, Awaiting
  <2> QED
    BY <1>11, <2>2, <2>3 DEF Finish, TypeOK, storeVars
<1>12. ASSUME Restart PROVE TypeOK' /\ Positions'
  <2>1. pc' \in [Loops -> Phases] /\ Positions'
    BY <1>12 DEF Restart, TypeOK, Phases, Ended, Positions, Awaiting, Active
  <2>2. torn' \in BOOLEAN
    BY <1>12, MailingAssumption DEF Restart, TypeOK
  <2> QED
    BY <1>12, <2>1, <2>2 DEF Restart, TypeOK, Loaded
<1>13. ASSUME UNCHANGED vars PROVE TypeOK' /\ Positions'
  BY <1>13 DEF vars, loopVars, storeVars, TypeOK, Positions, Awaiting
<1> QED
  BY <1>1, <1>2, <1>3, <1>4, <1>5, <1>6, <1>7, <1>8, <1>9, <1>10, <1>11, <1>12, <1>13
  DEF Next, LoopStep

(***************************************************************************)
(* Every state of every behaviour is well typed: no loop runs past the end *)
(* of its list, whatever throws.                                           *)
(***************************************************************************)
THEOREM TypeCorrect == Spec => []TypeOK
<1>1. TypeOK /\ Positions /\ [Next]_vars => (TypeOK /\ Positions)'
  BY TypeStep
<1> QED
  BY <1>1, InitType, PTL DEF Spec

-----------------------------------------------------------------------------
(* At most one mail.                                                       *)

LEMMA AttemptBlocks ==
    ASSUME NEW f \in Seq(Lines), NEW r \in Recipients
    PROVE  Blocked(Append(f, Line("attempt", r)), r)
<1> DEFINE n == Len(f) + 1
           g == Append(f, Line("attempt", r))
<1>1. /\ Line("attempt", r) \in Lines /\ Line("attempt", r) # Line("release", r)
      /\ n \in 1..Len(g) /\ Len(g) = n /\ n \in Nat
  BY LineType DEF Line, Kinds
<1>2. g[n] = Line("attempt", r)
  BY <1>1
<1>3. \A j \in n..Len(g) : j = n
  BY <1>1
<1> QED
  BY <1>1, <1>2, <1>3 DEF Blocked

LEMMA OthersKeepBlocks ==
    ASSUME NEW f \in Seq(Lines), NEW r \in Recipients, NEW line \in Lines,
           line # Line("release", r), Blocked(f, r)
    PROVE  Blocked(Append(f, line), r)
<1>1. PICK i \in 1..Len(f) : /\ f[i] = Line("attempt", r)
                             /\ \A j \in i..Len(f) : f[j] # Line("release", r)
  BY DEF Blocked
<1> DEFINE g == Append(f, line)
<1>2. /\ i \in 1..Len(g) /\ g[i] = Line("attempt", r)
  BY <1>1
<1>3. ASSUME NEW j \in i..Len(g) PROVE g[j] # Line("release", r)
  <2>1. CASE j = Len(f) + 1
    BY <2>1
  <2>2. CASE j # Len(f) + 1
    BY <1>1, <1>3, <2>2
  <2> QED
    BY <2>1, <2>2
<1> QED
  BY <1>2, <1>3 DEF Blocked

\* The recipient of a loop that is waiting for the server.
Marked ==
    \A w \in Loops : OnTheWire(w)
        => Blocked(file, Current(w)) /\ Current(w) \in attempted

Mailed ==
    \A r \in Recipients : mails[r] > 0 => Blocked(file, r) /\ r \in attempted

\* No two loops wait for one recipient, and what is not accepted is not there.
OnePerRecipient ==
    \A v, w \in Loops :
        OnTheWire(v) /\ OnTheWire(w) /\ Current(v) = Current(w) => v = w
NotYet == \A w \in Loops : pc[w] = "wire" => mails[Current(w)] = 0

\* A loop that pauses is alone, so what it found unmarked stays unmarked.
Paused ==
    \A w \in Loops : pc[w] = "gap" => gap /\ Current(w) \notin attempted
Alone ==
    gap => \A v, w \in Loops : Active(v) /\ Active(w) => v = w

Careful ==
    /\ Marked /\ Mailed
    /\ OnePerRecipient /\ NotYet /\ NeverTwice
    /\ Paused /\ Alone

\* The inductive invariant.
Safe == ~torn /\ (Exclusive => Careful)

LEMMA StillExclusive ==
    ASSUME [Next]_vars, Exclusive'
    PROVE  Exclusive
<1>1. gap' = gap /\ abandoned \subseteq abandoned'
  BY DEF Next, LoopStep, Start, Abandon, Pause, Accept, Finish, Attempt,
         AttemptAfterGap, MarkAndSend, Sent, Refused, Deferred, NoAnswer,
         Restart, vars, loopVars, storeVars
<1> QED
  BY <1>1 DEF Exclusive

LEMMA StaysWhole ==
    ASSUME ~MayTear, ~torn, [Next]_vars
    PROVE  ~torn'
<1>1. ASSUME NEW line, NEW ok, Write(line, ok) PROVE ~torn'
  BY <1>1 DEF Write, Append1, AppendFails
<1>2. ASSUME NEW w \in Loops, NEW ok \in BOOLEAN,
             Attempt(w, ok) \/ AttemptAfterGap(w, ok) \/ Sent(w, ok)
               \/ Refused(w, ok) \/ Deferred(w, ok)
      PROVE  ~torn'
  BY <1>1, <1>2 DEF Attempt, AttemptAfterGap, MarkAndSend, Sent, Refused, Deferred
<1> QED
  BY <1>2 DEF Next, LoopStep, Start, Abandon, Pause, Accept, Finish, NoAnswer,
              Restart, vars, loopVars, storeVars

LEMMA WriteKeepsBlocks ==
    ASSUME TypeOK, ~torn, NEW line \in Lines, NEW ok \in BOOLEAN, Write(line, ok),
           NEW r \in Recipients, line # Line("release", r), Blocked(file, r)
    PROVE  Blocked(file', r)
<1>1. CASE ok
  <2>1. file' = Append(file, line)
    BY <1>1 DEF Write, Append1
  <2> QED
    BY <2>1, OthersKeepBlocks DEF TypeOK
<1>2. CASE ~ok
  BY <1>2 DEF Write, AppendFails
<1> QED
  BY <1>1, <1>2

\* Loop w is done with its recipient; no other's marker is touched.
LEMMA MovesOn ==
    ASSUME TypeOK, TypeOK', Positions, Careful, NEW w \in Loops, Active(w),
           pc'[w] \in Ended \cup {"turn"},
           \A v \in Loops \ {w} : pc'[v] = pc[v] /\ at'[v] = at[v],
           gap' = gap, mails' = mails, attempted' \subseteq attempted,
           \A r \in Recipients :
               (mails[r] > 0 \/ \E v \in Loops \ {w} : OnTheWire(v) /\ Current(v) = r)
                 /\ Blocked(file, r) /\ r \in attempted
               => Blocked(file', r) /\ r \in attempted'
    PROVE  Careful'
<1>1. ~OnTheWire(w)' /\ pc'[w] # "gap"
  BY DEF OnTheWire, Ended
<1>2. \A v \in Loops \ {w} :
          /\ OnTheWire(v)' <=> OnTheWire(v)
          /\ Current(v)' = Current(v)
          /\ Active(v)' <=> Active(v)
  BY DEF OnTheWire, Current, Active
<1>3. Marked'
  <2> SUFFICES ASSUME NEW v \in Loops, OnTheWire(v)'
               PROVE  Blocked(file', Current(v)') /\ Current(v)' \in attempted'
    BY DEF Marked
  <2>1. v # w /\ OnTheWire(v) /\ Current(v)' = Current(v)
    BY <1>1, <1>2
  <2>2. Current(v) \in Recipients
    BY <2>1, CurrentType DEF OnTheWire, Awaiting
  <2>3. Blocked(file, Current(v)) /\ Current(v) \in attempted
    BY <2>1 DEF Careful, Marked
  <2> QED
    BY <2>1, <2>2, <2>3
<1>4. Mailed'
  BY DEF Careful, Mailed
<1>5. OnePerRecipient' /\ NotYet' /\ NeverTwice'
  BY <1>1, <1>2 DEF Careful, OnePerRecipient, NotYet, NeverTwice, OnTheWire
<1>6. Paused'
  BY <1>1, <1>2 DEF Careful, Paused
<1>7. Alone'
  BY <1>2 DEF Careful, Alone
<1> QED
  BY <1>3, <1>4, <1>5, <1>6, <1>7 DEF Careful

LEMMA MarkAndSendCareful ==
    ASSUME TypeOK, TypeOK', Positions, Careful, ~torn, NEW w \in Loops,
           pc[w] \in {"turn", "gap"}, NEW k \in 1..Len(List), List[k] \notin attempted,
           NEW ok \in BOOLEAN, MarkAndSend(w, k, ok)
    PROVE  Careful'
<1> DEFINE to == List[k]
<1>0. to \in Recipients /\ Line("attempt", to) \in Lines
      /\ \A r \in Recipients : Line("attempt", to) # Line("release", r)
  BY ListType, LineType DEF Line, Kinds
<1>1. /\ \A v \in Loops \ {w} : pc'[v] = pc[v] /\ at'[v] = at[v]
      /\ at'[w] = k /\ pc'[w] = IF ok THEN "wire" ELSE "threw"
      /\ gap' = gap /\ mails' = mails /\ attempted' = attempted \cup {to}
  BY DEF MarkAndSend, TypeOK
<1>2. \A v \in Loops \ {w} :
          /\ OnTheWire(v)' <=> OnTheWire(v)
          /\ Current(v)' = Current(v)
          /\ Active(v)' <=> Active(v)
  BY <1>1 DEF OnTheWire, Current, Active
<1>3. /\ Current(w)' = to
      /\ OnTheWire(w)' <=> ok
      /\ ~OnTheWire(w) /\ Active(w)
  BY <1>1 DEF Current, OnTheWire, Active, Ended
<1>4. mails[to] = 0 /\ \A v \in Loops : OnTheWire(v) => Current(v) # to
  BY <1>0 DEF Careful, Marked, Mailed, TypeOK
<1>5. \A r \in Recipients : Blocked(file, r) => Blocked(file', r)
  BY <1>0, WriteKeepsBlocks DEF MarkAndSend
<1>6. ok => Blocked(file', to)
  <2> SUFFICES ASSUME ok PROVE Blocked(file', to)
    OBVIOUS
  <2>1. file' = Append(file, Line("attempt", to))
    BY DEF MarkAndSend, Write, Append1
  <2> QED
    BY <1>0, <2>1, AttemptBlocks DEF TypeOK
<1>7. Marked'
  <2> SUFFICES ASSUME NEW v \in Loops, OnTheWire(v)'
               PROVE  Blocked(file', Current(v)') /\ Current(v)' \in attempted'
    BY DEF Marked
  <2>1. CASE v = w
    BY <1>1, <1>3, <1>6, <2>1
  <2>2. CASE v # w
    <3>1. OnTheWire(v) /\ Current(v)' = Current(v)
      BY <1>2, <2>2
    <3>2. Current(v) \in Recipients
      BY <3>1, CurrentType DEF OnTheWire, Awaiting
    <3>3. Blocked(file, Current(v)) /\ Current(v) \in attempted
      BY <3>1 DEF Careful, Marked
    <3> QED
      BY <1>1, <1>5, <3>1, <3>2, <3>3
  <2> QED
    BY <2>1, <2>2
<1>8. Mailed'
  BY <1>1, <1>5 DEF Careful, Mailed
<1>9. OnePerRecipient'
  BY <1>2, <1>3, <1>4 DEF Careful, OnePerRecipient
<1>10. NotYet'
  BY <1>1, <1>2, <1>3, <1>4 DEF Careful, NotYet
<1>11. NeverTwice'
  BY <1>1 DEF Careful, NeverTwice
<1>12. Paused'
  <2> SUFFICES ASSUME NEW v \in Loops, pc'[v] = "gap" PROVE FALSE
    BY DEF Paused
  <2>1. v # w /\ pc[v] = "gap"
    BY <1>1
  <2>2. gap /\ Active(v)
    BY <2>1 DEF Careful, Paused, Active, Ended
  <2> QED
    BY <1>3, <2>1, <2>2 DEF Careful, Alone
<1>13. Alone'
  BY <1>1, <1>2, <1>3 DEF Careful, Alone
<1> QED
  BY <1>7, <1>8, <1>9, <1>10, <1>11, <1>12, <1>13 DEF Careful

LEMMA CarefulStep ==
    ASSUME TypeOK, TypeOK', Positions, ~torn, Careful, Exclusive, Exclusive', [Next]_vars
    PROVE  Careful'
<1>0. ASSUME NEW w \in Loops, NEW r \in Recipients, NEW kind \in {"sent", "rejected"}
      PROVE  Line(kind, r) \in Lines
             /\ \A s \in Recipients : Line(kind, r) # Line("release", s)
  BY LineType DEF Line, Kinds
<1>1. ASSUME NEW w \in Loops, Start(w) PROVE Careful'
  <2>1. \A v \in Loops \ {w} : pc'[v] = pc[v]
    BY <1>1 DEF Start, TypeOK
  <2>2. pc'[w] = "turn" /\ pc[w] = "idle"
    BY <1>1 DEF Start, TypeOK
  <2>3. \A v \in Loops : OnTheWire(v)' <=> OnTheWire(v)
    BY <2>1, <2>2 DEF OnTheWire
  <2>4. \A v \in Loops : Current(v)' = Current(v)
    BY <1>1 DEF Start, Current
  <2>5. Alone'
    BY <1>1, <2>1 DEF Start, Exclusive, Alone, Active
  <2>6. Paused'
    BY <1>1, <2>1, <2>2, <2>4 DEF Start, storeVars, Careful, Paused
  <2>7. NotYet'
    BY <1>1, <2>1, <2>2, <2>4 DEF Start, Careful, NotYet
  <2> QED
    BY <1>1, <2>3, <2>4, <2>5, <2>6, <2>7
    DEF Start, storeVars, Careful, Marked, Mailed, OnePerRecipient, NeverTwice
<1>2. ASSUME NEW w \in Loops, Abandon(w) PROVE Careful'
  BY <1>2 DEF Abandon, storeVars, Careful, Marked, Mailed, OnePerRecipient, NotYet,
              NeverTwice, Paused, Alone, OnTheWire, Current, Active
<1>3. ASSUME NEW w \in Loops, Pause(w) PROVE Careful'
  <2>1. PICK k \in Unmarked(w) : at' = [at EXCEPT ![w] = k]
    BY <1>3 DEF Pause
  <2>2. k \in 1..Len(List) /\ List[k] \notin attempted
    BY <2>1, NextIndex
  <2>3. /\ \A v \in Loops \ {w} : pc'[v] = pc[v] /\ at'[v] = at[v]
        /\ at'[w] = k /\ pc'[w] = "gap" /\ pc[w] = "turn" /\ gap /\ gap' = gap
        /\ attempted' = attempted /\ file' = file /\ mails' = mails
    BY <1>3, <2>1 DEF Pause, TypeOK, storeVars
  <2>4. /\ \A v \in Loops : OnTheWire(v)' <=> OnTheWire(v)
        /\ \A v \in Loops : Active(v)' <=> Active(v)
        /\ \A v \in Loops \ {w} : Current(v)' = Current(v)
        /\ Current(w)' = List[k] /\ ~OnTheWire(w)
    BY <2>3 DEF OnTheWire, Active, Current, Ended
  <2>5. Paused'
    BY <2>2, <2>3, <2>4 DEF Careful, Paused
  <2>6. Alone'
    BY <2>3, <2>4 DEF Careful, Alone
  <2>7. Marked' /\ Mailed' /\ NeverTwice'
    BY <2>3, <2>4 DEF Careful, Marked, Mailed, NeverTwice
  <2>8. OnePerRecipient' /\ NotYet'
    BY <2>3, <2>4 DEF Careful, OnePerRecipient, NotYet
  <2> QED
    BY <2>5, <2>6, <2>7, <2>8 DEF Careful
<1>4. ASSUME NEW w \in Loops, NEW ok \in BOOLEAN, Attempt(w, ok) PROVE Careful'
  <2>1. PICK k \in Unmarked(w) : MarkAndSend(w, k, ok)
    BY <1>4 DEF Attempt
  <2>2. k \in 1..Len(List) /\ List[k] \notin attempted
    BY <2>1, NextIndex
  <2> QED
    BY <1>4, <2>1, <2>2, MarkAndSendCareful DEF Attempt
<1>5. ASSUME NEW w \in Loops, NEW ok \in BOOLEAN, AttemptAfterGap(w, ok)
      PROVE  Careful'
  <2>1. pc[w] = "gap" /\ at[w] \in 1..Len(List)
    BY <1>5 DEF AttemptAfterGap, Positions, Awaiting
  <2>2. List[at[w]] \notin attempted
    BY <2>1 DEF Careful, Paused, Current
  <2> QED
    BY <1>5, <2>1, <2>2, MarkAndSendCareful DEF AttemptAfterGap
<1>6. ASSUME NEW w \in Loops, Accept(w) PROVE Careful'
  <2>1. Current(w) \in Recipients
    BY <1>6, CurrentType DEF Accept, Awaiting
  <2>2. mails[Current(w)] = 0
    BY <1>6 DEF Accept, Careful, NotYet
  <2>3. /\ \A v \in Loops \ {w} : pc'[v] = pc[v]
        /\ pc'[w] = "accepted" /\ pc[w] = "wire" /\ gap' = gap
        /\ attempted' = attempted /\ file' = file /\ at' = at
    BY <1>6 DEF Accept, TypeOK, storeVars
  <2>4. /\ mails'[Current(w)] = 1
        /\ \A r \in Recipients \ {Current(w)} : mails'[r] = mails[r]
    BY <1>6, <2>1, <2>2 DEF Accept, TypeOK
  <2>5. \A v \in Loops : /\ OnTheWire(v)' <=> OnTheWire(v)
                         /\ Active(v)' <=> Active(v)
                         /\ Current(v)' = Current(v)
    BY <2>3 DEF OnTheWire, Active, Current, Ended
  <2>6. Blocked(file, Current(w)) /\ Current(w) \in attempted
    BY <2>3 DEF Careful, Marked, OnTheWire
  <2>7. Marked' /\ OnePerRecipient'
    BY <2>3, <2>5 DEF Careful, Marked, OnePerRecipient
  <2>8. Mailed'
    BY <2>3, <2>4, <2>6 DEF Careful, Mailed
  <2>9. NotYet'
    <3> SUFFICES ASSUME NEW v \in Loops, pc'[v] = "wire"
                 PROVE  mails'[Current(v)'] = 0
      BY DEF NotYet
    <3>1. v # w /\ pc[v] = "wire"
      BY <2>3
    <3>2. OnTheWire(v) /\ OnTheWire(w)
      BY <2>3, <3>1 DEF OnTheWire
    <3>3. Current(v) # Current(w)
      BY <3>1, <3>2 DEF Careful, OnePerRecipient
    <3>4. Current(v) \in Recipients
      BY <3>2, CurrentType DEF OnTheWire, Awaiting
    <3> QED
      BY <2>4, <2>5, <3>1, <3>3, <3>4 DEF Careful, NotYet
  <2>10. NeverTwice'
    BY <2>1, <2>4 DEF Careful, NeverTwice
  <2>11. Paused' /\ Alone'
    BY <2>3, <2>5 DEF Careful, Paused, Alone
  <2> QED
    BY <2>7, <2>8, <2>9, <2>10, <2>11 DEF Careful
<1>7. ASSUME NEW w \in Loops, NEW ok \in BOOLEAN, Sent(w, ok) PROVE Careful'
  <2>1. Active(w) /\ Current(w) \in Recipients
    BY <1>7, CurrentType DEF Sent, Awaiting, Active, Ended
  <2>2. /\ \A v \in Loops \ {w} : pc'[v] = pc[v] /\ at'[v] = at[v]
        /\ pc'[w] = "turn"
    BY <1>7 DEF Sent, Collect, TypeOK
  <2>3. \A r \in Recipients : Blocked(file, r) => Blocked(file', r)
    BY <1>0, <1>7, <2>1, WriteKeepsBlocks DEF Sent
  <2> QED
    BY <1>7, <2>1, <2>2, <2>3, MovesOn DEF Sent
<1>8. ASSUME NEW w \in Loops, NEW ok \in BOOLEAN, Refused(w, ok) PROVE Careful'
  <2>1. Active(w) /\ Current(w) \in Recipients
    BY <1>8, CurrentType DEF Refused, Awaiting, Active, Ended
  <2>2. /\ \A v \in Loops \ {w} : pc'[v] = pc[v] /\ at'[v] = at[v]
        /\ pc'[w] \in Ended \cup {"turn"}
    BY <1>8 DEF Refused, CollectUnlessThrown, Collect, TypeOK, Ended
  <2>3. \A r \in Recipients : Blocked(file, r) => Blocked(file', r)
    BY <1>0, <1>8, <2>1, WriteKeepsBlocks DEF Refused
  <2> QED
    BY <1>8, <2>1, <2>2, <2>3, MovesOn DEF Refused
<1>9. ASSUME NEW w \in Loops, NEW ok \in BOOLEAN, Deferred(w, ok) PROVE Careful'
  <2> DEFINE to == Current(w)
  <2>1. Active(w) /\ OnTheWire(w) /\ to \in Recipients
    BY <1>9, CurrentType DEF Deferred, Awaiting, Active, Ended, OnTheWire
  <2>2. /\ \A v \in Loops \ {w} : pc'[v] = pc[v] /\ at'[v] = at[v]
        /\ pc'[w] \in Ended \cup {"turn"}
    BY <1>9 DEF Deferred, CollectUnlessThrown, Collect, TypeOK, Ended
  <2>3. mails[to] = 0
    BY <1>9 DEF Deferred, Careful, NotYet
  <2>4. \A v \in Loops \ {w} : OnTheWire(v) => Current(v) # to
    BY <2>1 DEF Careful, OnePerRecipient
  <2>5. Line("release", to) \in Lines
        /\ \A r \in Recipients \ {to} : Line("release", to) # Line("release", r)
    BY <2>1, LineType DEF Line, Kinds
  <2>6. \A r \in Recipients \ {to} : Blocked(file, r) => Blocked(file', r)
    BY <1>9, <2>5, WriteKeepsBlocks DEF Deferred
  <2>7. attempted' = attempted \ {to}
    BY <1>9 DEF Deferred
  <2> HIDE DEF to
  <2>8. \A r \in Recipients :
            (mails[r] > 0 \/ \E v \in Loops \ {w} : OnTheWire(v) /\ Current(v) = r)
            => r # to
    BY <2>1, <2>3, <2>4 DEF TypeOK
  <2>9. \A r \in Recipients :
            (mails[r] > 0 \/ \E v \in Loops \ {w} : OnTheWire(v) /\ Current(v) = r)
              /\ Blocked(file, r) /\ r \in attempted
            => Blocked(file', r) /\ r \in attempted'
    BY <2>6, <2>7, <2>8
  <2>10. gap' = gap /\ mails' = mails /\ attempted' \subseteq attempted
    BY <1>9 DEF Deferred
  <2> QED
    BY <2>1, <2>2, <2>9, <2>10, MovesOn
<1>10. ASSUME NEW w \in Loops, NEW permanent \in BOOLEAN, NoAnswer(w, permanent)
       PROVE  Careful'
  <2>1. Active(w)
    BY <1>10 DEF NoAnswer, OnTheWire, Active, Ended
  <2>2. /\ \A v \in Loops \ {w} : pc'[v] = pc[v] /\ at'[v] = at[v]
        /\ pc'[w] = "turn"
    BY <1>10 DEF NoAnswer, Collect, TypeOK
  <2> QED
    BY <1>10, <2>1, <2>2, MovesOn DEF NoAnswer, storeVars
<1>11. ASSUME NEW w \in Loops, Finish(w) PROVE Careful'
  <2>1. Active(w)
    BY <1>11 DEF Finish, Active, Ended
  <2>2. /\ \A v \in Loops \ {w} : pc'[v] = pc[v] /\ at'[v] = at[v]
        /\ pc'[w] \in Ended
    BY <1>11 DEF Finish, TypeOK, Ended
  <2> QED
    BY <1>11, <2>1, <2>2, MovesOn DEF Finish, storeVars
<1>12. ASSUME Restart PROVE Careful'
  <2>1. \A v \in Loops : pc'[v] \in Ended \cup {"idle"}
    BY <1>12 DEF Restart, TypeOK, Active, Ended
  <2>2. \A v \in Loops : ~OnTheWire(v)' /\ ~Active(v)' /\ pc'[v] # "gap" /\ pc'[v] # "wire"
    BY <2>1 DEF OnTheWire, Active, Ended
  <2>3. Mailed' /\ NeverTwice'
    BY <1>12 DEF Restart, Careful, Mailed, NeverTwice
  <2> QED
    BY <2>2, <2>3 DEF Careful, Marked, OnePerRecipient, NotYet, Paused, Alone
<1>13. ASSUME UNCHANGED vars PROVE Careful'
  BY <1>13 DEF vars, loopVars, storeVars, Careful, Marked, Mailed, OnePerRecipient,
               NotYet, NeverTwice, Paused, Alone, OnTheWire, Current, Active
<1> QED
  BY <1>1, <1>2, <1>3, <1>4, <1>5, <1>6, <1>7, <1>8, <1>9, <1>10, <1>11, <1>12, <1>13
  DEF Next, LoopStep

LEMMA SafeInit == Init => Safe
BY DEF Init, Safe, Careful, Marked, Mailed, OnePerRecipient, NotYet, NeverTwice,
       Paused, Alone, OnTheWire, Active

LEMMA SafeInvariant == ~MayTear => (Spec => [](TypeOK /\ Safe))
<1> SUFFICES ASSUME ~MayTear PROVE Spec => [](TypeOK /\ Safe)
  OBVIOUS
<1>1. TypeOK /\ Positions /\ Safe /\ [Next]_vars => (TypeOK /\ Positions /\ Safe)'
  <2> SUFFICES ASSUME TypeOK, Positions, Safe, [Next]_vars
               PROVE  TypeOK' /\ Positions' /\ Safe'
    OBVIOUS
  <2>1. TypeOK' /\ Positions'
    BY TypeStep
  <2>2. ~torn'
    BY StaysWhole DEF Safe
  <2>3. Exclusive' => Careful'
    BY <2>1, StillExclusive, CarefulStep DEF Safe
  <2> QED
    BY <2>1, <2>2, <2>3 DEF Safe
<1>2. Init => TypeOK /\ Positions /\ Safe
  BY InitType, SafeInit
<1> QED
  BY <1>1, <1>2, PTL DEF Spec

(***************************************************************************)
(* If no append is ever cut short in the middle of a line, then through    *)
(* every crash, retry, failed append and abandoned loop no recipient gets  *)
(* the mail twice - with a pause configured, as long as no loop is         *)
(* abandoned.                                                              *)
(***************************************************************************)
THEOREM NobodyIsMailedTwice == ~MayTear => (Spec => []AtMostOnce)
<1>1. Safe => AtMostOnce
  BY DEF Safe, Careful, AtMostOnce
<1> QED
  BY <1>1, SafeInvariant, PTL

(***************************************************************************)
(* Under the same assumption, whoever has the mail or may be about to get  *)
(* it is blocked in the file and in memory.                                *)
(***************************************************************************)
THEOREM MarkersComeFirst == ~MayTear => (Spec => []MarkerPrecedesMail)
<1>1. Safe => MarkerPrecedesMail
  BY DEF Safe, Careful, Marked, Mailed, MarkerPrecedesMail, InFlight
<1> QED
  BY <1>1, SafeInvariant, PTL

-----------------------------------------------------------------------------
(* Nobody is forgotten.                                                    *)

\* What a summary will say of a recipient, or a loop that failed.
Kept(r) ==
    \/ r \in attempted \cup delivered \cup rejected
    \/ \E v \in Loops : Failed(v, r)

\* The inductive invariant: a loop under way leaves nobody behind it.
Fresh == \A w \in Loops : pc[w] = "idle" => at[w] = 1
Passed == \A w \in Loops : Active(w) => \A k \in 1..at[w] - 1 : Kept(List[k])
Accounting == Fresh /\ Passed /\ NobodyForgotten

\* What a loop failed it stays the one to say.
LEMMA FailedStays ==
    ASSUME TypeOK, [Next]_vars, NEW v \in Loops, NEW r, Failed(v, r)
    PROVE  Failed(v, r)'
<1>1. failures[v] \subseteq failures'[v]
  <2>1. ASSUME NEW w \in Loops, NEW permanent, Collect(w, permanent)
        PROVE  failures[v] \subseteq failures'[v]
    BY <2>1 DEF Collect, TypeOK
  <2>2. ASSUME NEW w \in Loops, LoopStep(w) PROVE failures[v] \subseteq failures'[v]
    BY <2>1, <2>2 DEF LoopStep, Start, Abandon, Pause, Accept, Finish, Attempt,
       AttemptAfterGap, MarkAndSend, Sent, Refused, Deferred, NoAnswer, CollectUnlessThrown
  <2> QED
    BY <2>2 DEF Next, Restart, vars, loopVars
<1>2. pc[v] = "threw" => pc'[v] = "threw" /\ at'[v] = at[v]
  <2> SUFFICES ASSUME pc[v] = "threw" PROVE pc'[v] = "threw" /\ at'[v] = at[v]
    OBVIOUS
  <2>1. ASSUME NEW w \in Loops, LoopStep(w) PROVE pc'[v] = "threw" /\ at'[v] = at[v]
    <3>1. CASE v = w
      BY <2>1, <3>1 DEF LoopStep, Start, Abandon, Pause, Accept, Finish, Attempt,
         AttemptAfterGap, Sent, Refused, Deferred, NoAnswer, OnTheWire, Awaiting
    <3>2. CASE v # w
      BY <2>1, <3>2 DEF LoopStep, Start, Abandon, Pause, Accept, Finish, Attempt,
         AttemptAfterGap, MarkAndSend, Sent, Refused, Deferred, NoAnswer, Collect,
         CollectUnlessThrown, TypeOK
    <3> QED
      BY <3>1, <3>2
  <2>2. CASE Restart
    BY <2>2 DEF Restart, Active, Ended
  <2> QED
    BY <2>1, <2>2 DEF Next, vars, loopVars
<1>3. pc[v] = "threw" => Current(v)' = Current(v)
  BY <1>2 DEF Current
<1> QED
  BY <1>1, <1>2, <1>3 DEF Failed

\* A marker that is lifted leaves a failure.
LEMMA DeferredFails ==
    ASSUME TypeOK, NEW w \in Loops, NEW ok \in BOOLEAN, Deferred(w, ok),
           NEW r, r = Current(w)
    PROVE  Failed(w, r)'
<1>1. CASE ok
  <2>1. failures'[w] = failures[w] \cup {<<r, FALSE>>}
    BY <1>1 DEF Deferred, CollectUnlessThrown, Collect, TypeOK
  <2>2. <<r, FALSE>> \in failures'[w]
    BY <2>1
  <2> QED
    BY <2>2 DEF Failed
<1>2. CASE ~ok
  <2>1. pc'[w] = "threw" /\ at' = at
    BY <1>2 DEF Deferred, CollectUnlessThrown, TypeOK
  <2> QED
    BY <2>1 DEF Failed, Current
<1> QED
  BY <1>1, <1>2

LEMMA KeptStays ==
    ASSUME TypeOK, NEW w \in Loops, LoopStep(w), NEW r, Kept(r)
    PROVE  Kept(r)'
<1>1. [Next]_vars
  BY DEF Next
<1>2. CASE \E v \in Loops : Failed(v, r)
  BY <1>1, <1>2, FailedStays DEF Kept
<1>3. CASE r \in attempted \cup delivered \cup rejected
  <2>1. CASE \E ok \in BOOLEAN : Deferred(w, ok)
    <3>1. PICK ok \in BOOLEAN : Deferred(w, ok)
      BY <2>1
    <3>2. CASE r = Current(w)
      BY <3>1, <3>2, DeferredFails DEF Kept
    <3>3. CASE r # Current(w)
      BY <1>3, <3>1, <3>3 DEF Deferred, Kept
    <3> QED
      BY <3>2, <3>3
  <2>2. CASE ~\E ok \in BOOLEAN : Deferred(w, ok)
    <3>1. attempted \subseteq attempted' /\ delivered \subseteq delivered'
          /\ rejected \subseteq rejected'
      BY <2>2 DEF LoopStep, Start, Abandon, Pause, Accept, Finish, Attempt,
         AttemptAfterGap, MarkAndSend, Sent, Refused, NoAnswer, storeVars
    <3> QED
      BY <1>3, <3>1 DEF Kept
  <2> QED
    BY <2>1, <2>2
<1> QED
  BY <1>2, <1>3 DEF Kept

\* Where a loop goes next, everyone before is marked.
LEMMA SkippedAreMarked ==
    ASSUME TypeOK, Positions, Passed, NEW w \in Loops, Active(w), NEW k, IsNext(w, k)
    PROVE  \A i \in 1..k - 1 : Kept(List[i])
<1>1. k \in 1..Len(List) /\ k \in Unmarked(w) /\ at[w] \in 1..Len(List) + 1 /\ Len(List) \in Nat
  BY NextIndex, ListType DEF IsNext, TypeOK
<1> SUFFICES ASSUME NEW i \in 1..k - 1 PROVE Kept(List[i])
  OBVIOUS
<1>2. CASE i < at[w]
  BY <1>1, <1>2 DEF Passed
<1>3. CASE i >= at[w]
  <2>1. i \notin Unmarked(w)
    BY <1>1 DEF IsNext
  <2>2. i \in at[w]..Len(List)
    BY <1>1, <1>3
  <2>3. List[i] \in attempted
    BY <2>1, <2>2 DEF Unmarked
  <2> QED
    BY <2>3 DEF Kept
<1> QED
  BY <1>1, <1>2, <1>3

LEMMA CollectKeeps ==
    ASSUME TypeOK, NEW w \in Loops, NEW permanent \in BOOLEAN, Collect(w, permanent),
           NEW r, r = Current(w)
    PROVE  Failed(w, r)'
<1>1. failures'[w] = failures[w] \cup {<<r, permanent>>}
  BY DEF Collect, TypeOK
<1>2. <<r, permanent>> \in failures'[w]
  BY <1>1
<1> QED
  BY <1>2 DEF Failed

\* Loop w moves to an index before which nobody is forgotten.
LEMMA GoesOn ==
    ASSUME TypeOK, Passed, NEW w \in Loops,
           \A r : Kept(r) => Kept(r)',
           \A v \in Loops \ {w} : at'[v] = at[v] /\ pc'[v] = pc[v],
           Active(w)' => \A k \in 1..at'[w] - 1 : Kept(List[k])'
    PROVE  Passed'
<1> SUFFICES ASSUME NEW v \in Loops, Active(v)', NEW k \in 1..at'[v] - 1
             PROVE  Kept(List[k])'
  BY DEF Passed
<1>1. CASE v = w
  BY <1>1
<1>2. CASE v # w
  <2>1. Active(v) /\ k \in 1..at[v] - 1
    BY <1>2 DEF Active
  <2> QED
    BY <2>1 DEF Passed
<1> QED
  BY <1>1, <1>2

LEMMA PassedStep ==
    ASSUME TypeOK, Positions, Fresh, Passed, [Next]_vars
    PROVE  Passed'
<1>1. ASSUME NEW w \in Loops, LoopStep(w) PROVE Passed'
  <2>1. \A r : Kept(r) => Kept(r)'
    BY <1>1, KeptStays
  <2>2. \A v \in Loops \ {w} : at'[v] = at[v] /\ pc'[v] = pc[v]
    BY <1>1 DEF LoopStep, Start, Abandon, Pause, Accept, Finish, Attempt, AttemptAfterGap,
       MarkAndSend, Sent, Refused, Deferred, NoAnswer, Collect, CollectUnlessThrown, TypeOK
  <2>3. CASE Start(w)
    <3>1. at'[w] = 1
      BY <2>3 DEF Start, Fresh
    <3> QED
      BY <2>1, <2>2, <3>1, GoesOn
  <2>4. CASE at'[w] = at[w] /\ (Active(w)' => Active(w))
    <3>1. Active(w)' => \A k \in 1..at'[w] - 1 : Kept(List[k])'
      BY <2>1, <2>4 DEF Passed
    <3> QED
      BY <2>1, <2>2, <3>1, GoesOn
  <2>5. CASE Abandon(w) \/ Accept(w) \/ Finish(w)
    <3>1. at'[w] = at[w] /\ (Active(w)' => Active(w))
      BY <2>5 DEF Abandon, Awaiting, Accept, Finish, Active, Ended
    <3> QED
      BY <2>4, <3>1
  <2>6. ASSUME NEW k, IsNext(w, k), at'[w] = k, pc[w] = "turn" PROVE Passed'
    <3>1. Active(w)
      BY <2>6 DEF Active, Ended
    <3>2. \A i \in 1..at'[w] - 1 : Kept(List[i])'
      BY <2>1, <2>6, <3>1, SkippedAreMarked
    <3> QED
      BY <2>1, <2>2, <3>2, GoesOn
  <2>7. CASE Pause(w)
    BY <2>6, <2>7 DEF Pause, TypeOK
  <2>8. ASSUME NEW ok \in BOOLEAN, Attempt(w, ok) PROVE Passed'
    BY <2>6, <2>8 DEF Attempt, MarkAndSend, TypeOK
  <2>9. ASSUME NEW ok \in BOOLEAN, AttemptAfterGap(w, ok) PROVE Passed'
    <3>1. at'[w] = at[w] /\ Active(w)
      BY <2>9 DEF AttemptAfterGap, MarkAndSend, Active, Ended, TypeOK
    <3> QED
      BY <2>4, <3>1
  <2>10. ASSUME at'[w] = at[w] + 1, Active(w), NEW r, r = Current(w), Kept(r)'
         PROVE  Passed'
    <3>1. \A k \in 1..at'[w] - 1 : k = at[w] \/ k \in 1..at[w] - 1
      BY <2>10, ListType DEF TypeOK
    <3>2. \A k \in 1..at[w] - 1 : Kept(List[k])'
      BY <2>1, <2>10 DEF Passed
    <3>3. ASSUME NEW k \in 1..at'[w] - 1 PROVE Kept(List[k])'
      BY <2>10, <3>1, <3>2 DEF Current
    <3> QED
      BY <2>1, <2>2, <3>3, GoesOn
  <2>11. ASSUME NEW permanent \in BOOLEAN, Collect(w, permanent), Active(w) PROVE Passed'
    <3>1. PICK r : r = Current(w)
      OBVIOUS
    <3>2. Kept(r)'
      BY <2>11, <3>1, CollectKeeps DEF Kept
    <3>3. at'[w] = at[w] + 1
      BY <2>11 DEF Collect, TypeOK
    <3> QED
      BY <2>10, <2>11, <3>1, <3>2, <3>3
  <2>12. ASSUME NEW ok \in BOOLEAN, Sent(w, ok) PROVE Passed'
    <3>1. Active(w)
      BY <2>12 DEF Sent, Active, Ended
    <3>2. CASE ok
      <4>1. PICK r : r = Current(w)
        OBVIOUS
      <4>2. Kept(r)'
        BY <2>12, <4>1 DEF Sent, Kept
      <4>3. at'[w] = at[w] + 1
        BY <2>12, <3>2 DEF Sent, TypeOK
      <4> QED
        BY <2>10, <3>1, <4>1, <4>2, <4>3
    <3>3. CASE ~ok
      BY <2>11, <2>12, <3>1, <3>3 DEF Sent
    <3> QED
      BY <3>2, <3>3
  <2>13. ASSUME NEW ok \in BOOLEAN, NEW permanent \in BOOLEAN, Active(w),
                CollectUnlessThrown(w, permanent, ok)
         PROVE  Passed'
    <3>1. CASE ok
      BY <2>11, <2>13, <3>1 DEF CollectUnlessThrown
    <3>2. CASE ~ok
      BY <2>4, <2>13, <3>2 DEF CollectUnlessThrown
    <3> QED
      BY <3>1, <3>2
  <2>14. ASSUME NEW ok \in BOOLEAN, Refused(w, ok) \/ Deferred(w, ok) PROVE Passed'
    BY <2>13, <2>14 DEF Refused, Deferred, Active, Ended
  <2>15. ASSUME NEW permanent \in BOOLEAN, NoAnswer(w, permanent) PROVE Passed'
    BY <2>11, <2>15 DEF NoAnswer, OnTheWire, Active, Ended
  <2> QED
    BY <1>1, <2>3, <2>5, <2>7, <2>8, <2>9, <2>12, <2>14, <2>15 DEF LoopStep
<1>2. CASE Restart
  BY <1>2 DEF Restart, TypeOK, Passed, Active, Ended
<1>3. CASE UNCHANGED vars
  BY <1>3 DEF vars, loopVars, storeVars, Passed, Active, Kept, Failed, Current
<1> QED
  BY <1>1, <1>2, <1>3 DEF Next

LEMMA FreshStep ==
    ASSUME TypeOK, Fresh, [Next]_vars
    PROVE  Fresh'
<1>1. ASSUME NEW w \in Loops, LoopStep(w) PROVE Fresh'
  <2>1. pc'[w] # "idle" \/ (pc'[w] = pc[w] /\ at'[w] = at[w])
    BY <1>1 DEF LoopStep, Start, Abandon, Pause, Accept, Finish, Attempt, AttemptAfterGap,
       MarkAndSend, Sent, Refused, Deferred, NoAnswer, Collect, CollectUnlessThrown, TypeOK
  <2>2. \A v \in Loops \ {w} : at'[v] = at[v] /\ pc'[v] = pc[v]
    BY <1>1 DEF LoopStep, Start, Abandon, Pause, Accept, Finish, Attempt, AttemptAfterGap,
       MarkAndSend, Sent, Refused, Deferred, NoAnswer, Collect, CollectUnlessThrown, TypeOK
  <2> QED
    BY <2>1, <2>2 DEF Fresh
<1>2. CASE Restart \/ UNCHANGED vars
  BY <1>2 DEF Restart, vars, loopVars, TypeOK, Fresh, Active, Ended
<1> QED
  BY <1>1, <1>2 DEF Next

\* The last look at the list is also the last at whom the loop passed.
LEMMA FinishAccounts ==
    ASSUME TypeOK, Passed, NEW w \in Loops, Finish(w), pc'[w] = "completed",
           NEW r \in Recipients
    PROVE  Accounted(w, r)'
<1>1. /\ failures[w] = {} /\ pc[w] = "turn"
      /\ report'[w] = Summary /\ failures' = failures /\ at' = at
      /\ \A v \in Loops \ {w} : pc'[v] = pc[v]
  BY DEF Finish, TypeOK
<1>2. PICK k \in 1..Len(List) : List[k] = r
  BY MailingAssumption DEF Range
<1>3. Kept(r)
  <2>1. CASE k < at[w]
    <3>1. k \in 1..at[w] - 1 /\ Active(w)
      BY <1>1, <2>1, ListType DEF TypeOK, Active, Ended
    <3> QED
      BY <1>2, <3>1 DEF Passed
  <2>2. CASE ~(k < at[w])
    <3>1. k \in at[w]..Len(List)
      BY <2>2, ListType DEF TypeOK
    <3>2. List[k] \in attempted
      BY <3>1 DEF Finish, Unmarked
    <3> QED
      BY <1>2, <3>2 DEF Kept
  <2> QED
    BY <2>1, <2>2
<1>4. CASE r \in attempted \cup delivered \cup rejected
  BY <1>1, <1>4 DEF Accounted, Summary
<1>5. CASE \E v \in Loops : Failed(v, r)
  <2>1. PICK v \in Loops : Failed(v, r)
    BY <1>5
  <2>2. v # w
    BY <1>1, <2>1 DEF Failed
  <2>3. Failed(v, r)'
    BY <1>1, <2>1, <2>2 DEF Failed, Current
  <2> QED
    BY <2>2, <2>3 DEF Accounted
<1> QED
  BY <1>3, <1>4, <1>5 DEF Kept

LEMMA NobodyForgottenStep ==
    ASSUME TypeOK, Passed, NobodyForgotten, [Next]_vars
    PROVE  NobodyForgotten'
<1> SUFFICES ASSUME NEW w \in Loops, pc'[w] = "completed", NEW r \in Recipients
             PROVE  Accounted(w, r)'
  BY DEF NobodyForgotten
<1>1. CASE Finish(w)
  BY <1>1, FinishAccounts
<1>2. CASE ~Finish(w)
  <2>1. pc[w] = "completed" /\ report'[w] = report[w]
    <3>1. ASSUME NEW v \in Loops, LoopStep(v)
          PROVE  pc[w] = "completed" /\ report'[w] = report[w]
      <4>1. CASE v = w
        BY <1>2, <3>1, <4>1 DEF LoopStep, Start, Abandon, Pause, Accept, Attempt, Awaiting,
           AttemptAfterGap, MarkAndSend, Sent, Refused, Deferred, NoAnswer, Collect,
           CollectUnlessThrown, TypeOK
      <4>2. CASE v # w
        BY <3>1, <4>2 DEF LoopStep, Start, Abandon, Pause, Accept, Finish, Attempt,
           AttemptAfterGap, MarkAndSend, Sent, Refused, Deferred, NoAnswer, Collect,
           CollectUnlessThrown, TypeOK
      <4> QED
        BY <4>1, <4>2
    <3>2. CASE Restart \/ UNCHANGED vars
      BY <3>2 DEF Restart, vars, loopVars, TypeOK, Active, Ended
    <3> QED
      BY <3>1, <3>2 DEF Next
  <2>2. Accounted(w, r)
    BY <2>1 DEF NobodyForgotten
  <2> QED
    BY <2>1, <2>2, FailedStays DEF Accounted
<1> QED
  BY <1>1, <1>2

(***************************************************************************)
(* Whatever tears, throws, is abandoned or starts again: a loop that       *)
(* returned has each of its recipients in its summary, or another loop     *)
(* has failed with that one.                                               *)
(***************************************************************************)
THEOREM EveryoneIsAccountedFor == Spec => []NobodyForgotten
<1>1. Init => TypeOK /\ Positions /\ Accounting
  <2>1. Init => Fresh /\ Passed /\ NobodyForgotten
    BY DEF Init, Fresh, Passed, NobodyForgotten, Active
  <2> QED
    BY <2>1, InitType DEF Accounting
<1>2. TypeOK /\ Positions /\ Accounting /\ [Next]_vars
        => (TypeOK /\ Positions /\ Accounting)'
  BY TypeStep, FreshStep, PassedStep, NobodyForgottenStep DEF Accounting
<1>3. Accounting => NobodyForgotten
  BY DEF Accounting
<1> QED
  BY <1>1, <1>2, <1>3, PTL DEF Spec

-----------------------------------------------------------------------------
(* What a report says is true.                                             *)

\* Whoever is said to have the mail, anywhere, has it.
Taken ==
    /\ \A r \in delivered : mails[r] > 0
    /\ \A r \in Loaded(file, "sent") : mails[r] > 0
    /\ \A w \in Loops : pc[w] = "accepted" => mails[Current(w)] > 0
    /\ \A w \in Loops : \A r \in report[w].delivered : mails[r] > 0

\* Whoever is given up as refused, or for good, does not have it and will not.
Settled(r) == mails[r] = 0 /\ Blocked(file, r) /\ r \in attempted /\ ~InFlight(r)
Remembered(r) == r \in rejected \/ r \in Loaded(file, "rejected")
Told(r) == \E w \in Loops : r \in report[w].rejected \/ <<r, TRUE>> \in failures[w]
GivenUp == \A r \in Recipients : Remembered(r) \/ Told(r) => Settled(r)

\* Retries are given up only over failures that are permanent.
Hopeless == \A w \in Loops : pc[w] = "hopeless" => \A f \in failures[w] : f[2]

\* A line is read back only if it was written.
LEMMA WrittenOnly ==
    ASSUME TypeOK, NEW kind \in Kinds, NEW line \in Lines, NEW ok \in BOOLEAN,
           Write(line, ok), NEW r \in Loaded(file', kind), line # Line(kind, r)
    PROVE  r \in Loaded(file, kind)
<1>1. CASE ok
  <2> DEFINE written == IF torn THEN Junk ELSE line
  <2>1. file' = Append(file, written)
    BY <1>1 DEF Write, Append1
  <2>2. written # Line(kind, r) /\ written \in Lines
    BY DEF Line, Junk, Lines
  <2> HIDE DEF written
  <2>3. PICK i \in 1..Len(file') : file'[i] = Line(kind, r)
    BY DEF Loaded
  <2>4. i \in 1..Len(file) /\ file[i] = Line(kind, r)
    BY <2>1, <2>2, <2>3 DEF TypeOK
  <2> QED
    BY <2>4 DEF Loaded
<1>2. CASE ~ok
  BY <1>2 DEF Write, AppendFails
<1> QED
  BY <1>1, <1>2

LEMMA TakenStep ==
    ASSUME TypeOK, Positions, Taken, [Next]_vars
    PROVE  Taken'
<1>0. ASSUME NEW w \in Loops, Awaiting(w)
      PROVE  Current(w) \in Recipients
             /\ \A kind \in Kinds : Line(kind, Current(w)) \in Lines
  BY <1>0, CurrentType, LineType
<1>1. \A r \in Recipients : mails[r] > 0 => mails'[r] > 0
  <2>1. ASSUME NEW w \in Loops, Accept(w), NEW r \in Recipients, mails[r] > 0
        PROVE  mails'[r] > 0
    BY <2>1 DEF Accept, TypeOK
  <2>2. ASSUME NEW w \in Loops, LoopStep(w), ~Accept(w) PROVE mails' = mails
    BY <2>2 DEF LoopStep, Start, Abandon, Pause, Finish, Attempt, AttemptAfterGap,
       MarkAndSend, Sent, Refused, Deferred, NoAnswer
  <2> QED
    BY <2>1, <2>2 DEF Next, Restart, vars
<1>2. ASSUME NEW w \in Loops, NEW ok \in BOOLEAN, Sent(w, ok)
      PROVE  mails'[Current(w)] > 0 /\ Awaiting(w)
  BY <1>2 DEF Sent, Taken, Awaiting
<1>3. ASSUME NEW r \in delivered' PROVE mails'[r] > 0
  <2>1. CASE r \in delivered \/ r \in Loaded(file, "sent")
    BY <1>1, <2>1 DEF Taken, TypeOK, Loaded
  <2>2. CASE r \notin delivered /\ r \notin Loaded(file, "sent")
    <3>1. PICK w \in Loops, ok \in BOOLEAN : Sent(w, ok)
      BY <1>3, <2>2 DEF Next, LoopStep, Start, Abandon, Pause, Accept, Finish, Attempt,
         AttemptAfterGap, MarkAndSend, Refused, Deferred, NoAnswer, Restart, vars, storeVars
    <3>2. r = Current(w)
      BY <1>3, <2>2, <3>1 DEF Sent
    <3> QED
      BY <1>2, <3>1, <3>2
  <2> QED
    BY <2>1, <2>2
<1>4. ASSUME NEW r \in Loaded(file', "sent") PROVE mails'[r] > 0
  <2>1. CASE r \in Loaded(file, "sent")
    BY <1>1, <2>1 DEF Taken, Loaded
  <2>2. CASE r \notin Loaded(file, "sent")
    <3>1. file' # file
      BY <1>4, <2>2
    <3>2. PICK w \in Loops, ok \in BOOLEAN :
              Attempt(w, ok) \/ AttemptAfterGap(w, ok) \/ Sent(w, ok)
                \/ Refused(w, ok) \/ Deferred(w, ok)
      BY <3>1 DEF Next, LoopStep, Start, Abandon, Pause, Accept, Finish,
         NoAnswer, Restart, vars, storeVars
    <3>3. ASSUME NEW kind \in Kinds, NEW to \in Recipients, kind # "sent",
                 Write(Line(kind, to), ok)
          PROVE  FALSE
      BY <1>4, <2>2, <3>3, WrittenOnly, LineType DEF Kinds, Line
    <3>4. ASSUME NEW k \in 1..Len(List), MarkAndSend(w, k, ok) PROVE FALSE
      BY <3>3, <3>4, ListType DEF MarkAndSend, Kinds
    <3>5. ~Attempt(w, ok)
      BY <3>4, NextIndex DEF Attempt
    <3>6. ~AttemptAfterGap(w, ok)
      BY <3>4 DEF AttemptAfterGap, Positions, Awaiting
    <3>7. ~Refused(w, ok) /\ ~Deferred(w, ok)
      BY <1>0, <3>3 DEF Refused, Deferred, Awaiting, Kinds
    <3>8. Sent(w, ok)
      BY <3>2, <3>5, <3>6, <3>7
    <3>9. r = Current(w)
      BY <1>0, <1>2, <1>4, <2>2, <3>8, WrittenOnly DEF Sent, Line, Kinds
    <3> QED
      BY <1>2, <3>8, <3>9
  <2> QED
    BY <2>1, <2>2
<1>5. ASSUME NEW w \in Loops, pc'[w] = "accepted" PROVE mails'[Current(w)'] > 0
  <2>1. CASE Accept(w)
    <3>1. Current(w) \in Recipients /\ Current(w)' = Current(w)
      BY <2>1, <1>0 DEF Accept, Awaiting, Current
    <3> QED
      BY <2>1, <3>1 DEF Accept, TypeOK
  <2>2. CASE ~Accept(w)
    <3>1. ASSUME NEW v \in Loops, LoopStep(v) PROVE pc[w] = "accepted" /\ at'[w] = at[w]
      <4>1. CASE v = w
        BY <1>5, <2>2, <3>1, <4>1 DEF LoopStep, Start, Abandon, Pause, Attempt,
           AttemptAfterGap, MarkAndSend, Sent, Refused, Deferred, NoAnswer, Collect,
           CollectUnlessThrown, Finish, TypeOK
      <4>2. CASE v # w
        BY <1>5, <3>1, <4>2 DEF LoopStep, Start, Abandon, Pause, Accept, Finish, Attempt,
           AttemptAfterGap, MarkAndSend, Sent, Refused, Deferred, NoAnswer, Collect,
           CollectUnlessThrown, TypeOK
      <4> QED
        BY <4>1, <4>2
    <3>2. pc[w] = "accepted" /\ at'[w] = at[w]
      BY <1>5, <3>1 DEF Next, Restart, vars, loopVars, TypeOK, Active, Ended
    <3>3. Current(w)' = Current(w) /\ Current(w) \in Recipients
      BY <1>0, <3>2 DEF Current, Awaiting
    <3> QED
      BY <1>1, <3>2, <3>3 DEF Taken
  <2> QED
    BY <2>1, <2>2
<1>6. ASSUME NEW w \in Loops, NEW r \in report'[w].delivered PROVE mails'[r] > 0
  <2>1. CASE r \in report[w].delivered
    <3>1. r \in Recipients
      BY <2>1 DEF TypeOK
    <3> QED
      BY <1>1, <2>1, <3>1 DEF Taken
  <2>2. CASE r \notin report[w].delivered
    <3>1. PICK v \in Loops : Finish(v) /\ report' # report
      BY <1>6, <2>2 DEF Next, LoopStep, Start, Abandon, Pause, Accept, Attempt,
         AttemptAfterGap, MarkAndSend, Sent, Refused, Deferred, NoAnswer, Restart, vars, loopVars
    <3>2. report' = [report EXCEPT ![v] = Summary]
      BY <3>1 DEF Finish
    <3>3. v = w /\ r \in Summary.delivered
      BY <1>6, <2>2, <3>2 DEF TypeOK
    <3>4. r \in delivered
      BY <3>3 DEF Summary
    <3> QED
      BY <1>1, <3>4 DEF Taken, TypeOK
  <2> QED
    BY <2>1, <2>2
<1> QED
  BY <1>3, <1>4, <1>5, <1>6 DEF Taken

\* A message on the wire is that of a recipient whom nobody else has there.
LEMMA NobodyElseHas ==
    ASSUME Careful, NEW w \in Loops, OnTheWire(w), NEW r, r = Current(w)
    PROVE  \A v \in Loops : v # w => ~(OnTheWire(v) /\ Current(v) = r)
BY DEF Careful, OnePerRecipient

\* What is settled stays settled.
LEMMA SettledStays ==
    ASSUME TypeOK, Positions, ~torn, Careful, [Next]_vars, NEW r \in Recipients, Settled(r)
    PROVE  Settled(r)'
<1>0. ASSUME NEW w \in Loops, NEW kind \in {"attempt", "sent", "rejected"}, Awaiting(w)
      PROVE  /\ Line(kind, Current(w)) \in Lines
             /\ Line(kind, Current(w)) # Line("release", r)
  BY <1>0, CurrentType, LineType DEF Line, Kinds
<1>1. ASSUME NEW w \in Loops, \A v \in Loops \ {w} : pc'[v] = pc[v] /\ at'[v] = at[v],
             OnTheWire(w)' => OnTheWire(w) /\ at'[w] = at[w],
             mails'[r] = 0, Blocked(file', r), r \in attempted'
      PROVE  Settled(r)'
  <2>1. ASSUME NEW v \in Loops, OnTheWire(v)' PROVE OnTheWire(v) /\ Current(v)' = Current(v)
    BY <1>1, <2>1 DEF OnTheWire, Current
  <2> QED
    BY <1>1, <2>1 DEF Settled, InFlight
<1>2. ASSUME NEW w \in Loops, Start(w) \/ Abandon(w) \/ Pause(w) \/ Finish(w)
                                 \/ \E permanent \in BOOLEAN : NoAnswer(w, permanent)
      PROVE  Settled(r)'
  BY <1>1, <1>2 DEF Start, Abandon, Pause, Finish, NoAnswer, Collect, Settled, TypeOK,
     storeVars, OnTheWire
<1>3. ASSUME NEW w \in Loops, NEW k \in 1..Len(List), NEW ok \in BOOLEAN,
             List[k] \notin attempted, MarkAndSend(w, k, ok)
      PROVE  Settled(r)'
  <2>1. List[k] # r /\ r \in attempted' /\ mails'[r] = 0
    BY <1>3 DEF MarkAndSend, Settled
  <2>2. Line("attempt", List[k]) \in Lines /\ Line("attempt", List[k]) # Line("release", r)
    BY ListType, LineType DEF Line, Kinds
  <2>3. Blocked(file', r)
    BY <1>3, <2>2, WriteKeepsBlocks DEF MarkAndSend, Settled
  <2>4. ASSUME NEW v \in Loops, OnTheWire(v)', Current(v)' = r PROVE FALSE
    <3>1. CASE v = w
      BY <1>3, <2>1, <2>4, <3>1 DEF MarkAndSend, Current, TypeOK
    <3>2. CASE v # w
      BY <1>3, <2>4, <3>2 DEF MarkAndSend, Current, OnTheWire, TypeOK, Settled, InFlight
    <3> QED
      BY <3>1, <3>2
  <2> QED
    BY <2>1, <2>3, <2>4 DEF Settled, InFlight
<1>4. ASSUME NEW w \in Loops, NEW ok \in BOOLEAN, Attempt(w, ok) PROVE Settled(r)'
  <2>1. PICK k \in Unmarked(w) : MarkAndSend(w, k, ok)
    BY <1>4 DEF Attempt
  <2> QED
    BY <1>3, <2>1, NextIndex
<1>5. ASSUME NEW w \in Loops, NEW ok \in BOOLEAN, AttemptAfterGap(w, ok)
      PROVE  Settled(r)'
  <2>1. at[w] \in 1..Len(List) /\ List[at[w]] \notin attempted
    BY <1>5 DEF AttemptAfterGap, Positions, Awaiting, Careful, Paused, Current
  <2> QED
    BY <1>3, <1>5, <2>1 DEF AttemptAfterGap
<1>6. ASSUME NEW w \in Loops, Accept(w) PROVE Settled(r)'
  <2>1. OnTheWire(w) /\ Current(w) # r /\ Current(w) \in Recipients
    BY <1>6, CurrentType DEF Accept, OnTheWire, Awaiting, Settled, InFlight
  <2>2. mails'[r] = 0
    BY <1>6, <2>1 DEF Accept, TypeOK, Settled
  <2> QED
    BY <1>1, <1>6, <2>1, <2>2 DEF Accept, TypeOK, Settled, storeVars
<1>7. ASSUME NEW w \in Loops, NEW ok \in BOOLEAN, Sent(w, ok) \/ Refused(w, ok)
      PROVE  Settled(r)'
  <2>1. Awaiting(w)
    BY <1>7 DEF Sent, Refused, Awaiting
  <2>2. Blocked(file', r)
    BY <1>0, <1>7, <2>1, WriteKeepsBlocks DEF Sent, Refused, Settled
  <2>3. /\ \A v \in Loops \ {w} : pc'[v] = pc[v] /\ at'[v] = at[v]
        /\ ~OnTheWire(w)' /\ mails'[r] = 0 /\ r \in attempted'
    BY <1>7 DEF Sent, Refused, Collect, CollectUnlessThrown, TypeOK, OnTheWire, Settled
  <2> QED
    BY <1>1, <2>2, <2>3
<1>8. ASSUME NEW w \in Loops, NEW ok \in BOOLEAN, Deferred(w, ok) PROVE Settled(r)'
  <2>1. Current(w) # r /\ Current(w) \in Recipients
    BY <1>8, CurrentType DEF Deferred, OnTheWire, Awaiting, Settled, InFlight
  <2>2. /\ Line("release", Current(w)) \in Lines
        /\ Line("release", Current(w)) # Line("release", r)
    BY <2>1, LineType DEF Line, Kinds
  <2>3. Blocked(file', r)
    BY <1>8, <2>2, WriteKeepsBlocks DEF Deferred, Settled
  <2>4. /\ \A v \in Loops \ {w} : pc'[v] = pc[v] /\ at'[v] = at[v]
        /\ ~OnTheWire(w)' /\ mails'[r] = 0
    BY <1>8 DEF Deferred, Collect, CollectUnlessThrown, TypeOK, OnTheWire, Settled
  <2>5. r \in attempted'
    BY <1>8, <2>1 DEF Deferred, Settled
  <2> QED
    BY <1>1, <2>3, <2>4, <2>5
<1>9. ASSUME Restart PROVE Settled(r)'
  <2>1. \A v \in Loops : ~OnTheWire(v)'
    BY <1>9 DEF Restart, TypeOK, OnTheWire, Active, Ended
  <2> QED
    BY <1>9, <2>1 DEF Restart, Settled, InFlight
<1>10. ASSUME UNCHANGED vars PROVE Settled(r)'
  BY <1>10 DEF vars, loopVars, storeVars, Settled, InFlight, OnTheWire, Current
<1> QED
  BY <1>2, <1>4, <1>5, <1>6, <1>7, <1>8, <1>9, <1>10 DEF Next, LoopStep

\* A refusal, by the server or by the runtime, settles its recipient.
Refusal(w, r) ==
    /\ r = Current(w)
    /\ NoAnswer(w, TRUE) \/ \E ok \in BOOLEAN : Refused(w, ok)

LEMMA RefusalSettles ==
    ASSUME TypeOK, Positions, ~torn, Careful, NEW w \in Loops, NEW r, Refusal(w, r)
    PROVE  Settled(r)'
<1>1. pc[w] = "wire" /\ OnTheWire(w) /\ Awaiting(w)
  BY DEF Refusal, Refused, NoAnswer, OnTheWire, Awaiting
<1>2. r \in Recipients /\ mails[r] = 0 /\ Blocked(file, r) /\ r \in attempted
  BY <1>1, CurrentType DEF Refusal, Careful, NotYet, Marked
<1>3. /\ \A v \in Loops \ {w} : pc'[v] = pc[v] /\ at'[v] = at[v]
      /\ ~OnTheWire(w)' /\ mails' = mails /\ attempted' = attempted
  BY DEF Refusal, Refused, NoAnswer, Collect, CollectUnlessThrown, TypeOK, OnTheWire, storeVars
<1>4. Blocked(file', r)
  <2>1. Line("rejected", r) \in Lines /\ Line("rejected", r) # Line("release", r)
    BY <1>2, LineType DEF Line, Kinds
  <2> QED
    BY <1>2, <2>1, WriteKeepsBlocks DEF Refusal, Refused, NoAnswer, storeVars
<1>5. ASSUME NEW v \in Loops, OnTheWire(v)', Current(v)' = r PROVE FALSE
  <2>1. v # w
    BY <1>3, <1>5
  <2>2. OnTheWire(v) /\ Current(v) = r
    BY <1>3, <1>5, <2>1 DEF OnTheWire, Current
  <2> QED
    BY <1>1, <2>1, <2>2, NobodyElseHas DEF Refusal
<1> QED
  BY <1>2, <1>3, <1>4, <1>5 DEF Settled, InFlight

\* Nobody is newly remembered as refused, or told of, but by a refusal.
LEMMA RememberedOnly ==
    ASSUME TypeOK, Positions, [Next]_vars, NEW r, Remembered(r)', ~Remembered(r)
    PROVE  \E w \in Loops : Refusal(w, r)
<1>0. ASSUME NEW w \in Loops, Awaiting(w)
      PROVE  Current(w) \in Recipients
             /\ \A kind \in Kinds : Line(kind, Current(w)) \in Lines
  BY <1>0, CurrentType, LineType
<1>1. CASE r \in rejected'
  <2>1. PICK w \in Loops, ok \in BOOLEAN : Refused(w, ok)
    BY <1>1 DEF Remembered, Next, LoopStep, Start, Abandon, Pause, Accept, Finish, Attempt,
       AttemptAfterGap, MarkAndSend, Sent, Deferred, NoAnswer, Restart, vars, storeVars
  <2>2. r = Current(w)
    BY <1>1, <2>1 DEF Remembered, Refused
  <2> QED
    BY <2>1, <2>2 DEF Refusal
<1>2. CASE r \in Loaded(file', "rejected")
  <2>1. file' # file
    BY <1>2 DEF Remembered
  <2>2. PICK w \in Loops, ok \in BOOLEAN :
            Attempt(w, ok) \/ AttemptAfterGap(w, ok) \/ Sent(w, ok)
              \/ Refused(w, ok) \/ Deferred(w, ok)
    BY <2>1 DEF Next, LoopStep, Start, Abandon, Pause, Accept, Finish,
       NoAnswer, Restart, vars, storeVars
  <2>3. ASSUME NEW kind \in Kinds, NEW to \in Recipients, kind # "rejected",
               Write(Line(kind, to), ok)
        PROVE  FALSE
    BY <1>2, <2>3, WrittenOnly, LineType DEF Kinds, Line, Remembered
  <2>4. ASSUME NEW k \in 1..Len(List), MarkAndSend(w, k, ok) PROVE FALSE
    BY <2>3, <2>4, ListType DEF MarkAndSend, Kinds
  <2>5. ~Attempt(w, ok)
    BY <2>4, NextIndex DEF Attempt
  <2>6. ~AttemptAfterGap(w, ok)
    BY <2>4 DEF AttemptAfterGap, Positions, Awaiting
  <2>7. ~Sent(w, ok) /\ ~Deferred(w, ok)
    BY <1>0, <2>3 DEF Sent, Deferred, Awaiting, Kinds
  <2>8. Refused(w, ok)
    BY <2>2, <2>5, <2>6, <2>7
  <2>9. Line("rejected", Current(w)) \in Lines /\ "rejected" \in Kinds
    BY <1>0, <2>8 DEF Refused, Awaiting, Kinds
  <2>10. r = Current(w)
    BY <1>2, <2>8, <2>9, WrittenOnly DEF Refused, Line, Remembered
  <2> QED
    BY <2>8, <2>10 DEF Refusal
<1> QED
  BY <1>1, <1>2 DEF Remembered

LEMMA ToldOnly ==
    ASSUME TypeOK, [Next]_vars, NEW r, Told(r)', ~Told(r), ~Remembered(r)
    PROVE  \E w \in Loops : Refusal(w, r)
<1>1. PICK w \in Loops : r \in report'[w].rejected \/ <<r, TRUE>> \in failures'[w]
  BY DEF Told
<1>2. CASE r \in report'[w].rejected
  <2>1. r \notin report[w].rejected
    BY DEF Told
  <2>2. PICK v \in Loops : Finish(v) /\ report' # report
    BY <1>2, <2>1 DEF Next, LoopStep, Start, Abandon, Pause, Accept, Attempt,
       AttemptAfterGap, MarkAndSend, Sent, Refused, Deferred, NoAnswer, Restart, vars, loopVars
  <2>3. report' = [report EXCEPT ![v] = Summary]
    BY <2>2 DEF Finish
  <2>4. r \in Summary.rejected
    BY <1>2, <2>1, <2>3 DEF TypeOK
  <2> QED
    BY <2>4 DEF Summary, Remembered
<1>3. CASE <<r, TRUE>> \in failures'[w]
  <2>1. <<r, TRUE>> \notin failures[w]
    BY DEF Told
  <2>2. failures' # failures
    BY <1>3, <2>1
  <2>3. ASSUME NEW v \in Loops, NEW permanent \in BOOLEAN, Collect(v, permanent)
        PROVE  permanent = TRUE /\ r = Current(v)
    <3>1. <<r, TRUE>> = <<Current(v), permanent>>
      BY <1>3, <2>1, <2>3 DEF Collect, TypeOK
    <3> QED
      BY <3>1
  <2>4. PICK v \in Loops :
            (\E ok \in BOOLEAN : Sent(v, ok) \/ Refused(v, ok) \/ Deferred(v, ok))
            \/ \E permanent \in BOOLEAN : NoAnswer(v, permanent)
    BY <2>2 DEF Next, LoopStep, Start, Abandon, Pause, Accept, Finish, Attempt,
       AttemptAfterGap, MarkAndSend, Restart, vars, loopVars
  <2>5. ~\E ok \in BOOLEAN : Sent(v, ok) \/ Deferred(v, ok)
    BY <2>2, <2>3 DEF Sent, Deferred, CollectUnlessThrown
  <2>6. CASE \E ok \in BOOLEAN : Refused(v, ok)
    BY <2>2, <2>3, <2>6 DEF Refused, CollectUnlessThrown, Refusal
  <2>7. CASE \E permanent \in BOOLEAN : NoAnswer(v, permanent)
    BY <2>3, <2>7 DEF NoAnswer, Refusal
  <2> QED
    BY <2>4, <2>5, <2>6, <2>7
<1> QED
  BY <1>1, <1>2, <1>3

LEMMA GivenUpStep ==
    ASSUME TypeOK, Positions, ~torn, Careful, GivenUp, [Next]_vars
    PROVE  GivenUp'
<1> SUFFICES ASSUME NEW r \in Recipients, Remembered(r)' \/ Told(r)'
             PROVE  Settled(r)'
  BY DEF GivenUp
<1>1. CASE Remembered(r) \/ Told(r)
  BY <1>1, SettledStays DEF GivenUp
<1>2. CASE ~Remembered(r) /\ ~Told(r)
  BY <1>2, RememberedOnly, ToldOnly, RefusalSettles
<1> QED
  BY <1>1, <1>2

LEMMA HopelessStep ==
    ASSUME TypeOK, Hopeless, [Next]_vars
    PROVE  Hopeless'
<1> SUFFICES ASSUME NEW w \in Loops, pc'[w] = "hopeless", NEW f \in failures'[w]
             PROVE  f[2]
  BY DEF Hopeless
<1>1. CASE Finish(w)
  BY <1>1 DEF Finish, TypeOK
<1>2. CASE ~Finish(w)
  <2>1. ASSUME NEW v \in Loops, LoopStep(v)
        PROVE  pc[w] = "hopeless" /\ failures'[w] = failures[w]
    <3>1. CASE v = w
      BY <1>2, <2>1, <3>1 DEF LoopStep, Start, Abandon, Pause, Accept, Attempt, Awaiting,
         AttemptAfterGap, MarkAndSend, Sent, Refused, Deferred, NoAnswer, Collect,
         CollectUnlessThrown, TypeOK
    <3>2. CASE v # w
      BY <2>1, <3>2 DEF LoopStep, Start, Abandon, Pause, Accept, Finish, Attempt,
         AttemptAfterGap, MarkAndSend, Sent, Refused, Deferred, NoAnswer, Collect,
         CollectUnlessThrown, TypeOK
    <3> QED
      BY <3>1, <3>2
  <2>2. pc[w] = "hopeless" /\ failures'[w] = failures[w]
    BY <2>1 DEF Next, Restart, vars, loopVars, TypeOK, Active, Ended
  <2> QED
    BY <2>2 DEF Hopeless
<1> QED
  BY <1>1, <1>2

\* The inductive invariant.
Faithful == Taken /\ Hopeless /\ (Exclusive => GivenUp)

LEMMA FaithfulInvariant == ~MayTear => (Spec => [](TypeOK /\ Faithful))
<1> SUFFICES ASSUME ~MayTear PROVE Spec => [](TypeOK /\ Faithful)
  OBVIOUS
<1>1. Init => Positions /\ Safe /\ Faithful
  <2>1. Init => Faithful
    BY DEF Init, Faithful, Taken, Hopeless, GivenUp, Remembered, Told, Loaded, NoReport
  <2> QED
    BY <2>1, InitType, SafeInit
<1>2. TypeOK /\ Positions /\ Safe /\ Faithful /\ [Next]_vars
        => (TypeOK /\ Positions /\ Safe /\ Faithful)'
  <2> SUFFICES ASSUME TypeOK, Positions, Safe, Faithful, [Next]_vars
               PROVE  TypeOK' /\ Positions' /\ Safe' /\ Faithful'
    OBVIOUS
  <2>1. TypeOK' /\ Positions' /\ ~torn'
    BY TypeStep, StaysWhole DEF Safe
  <2>2. Exclusive' => Careful'
    BY <2>1, StillExclusive, CarefulStep DEF Safe
  <2>3. Exclusive' => GivenUp'
    BY StillExclusive, GivenUpStep DEF Safe, Faithful
  <2>4. Taken' /\ Hopeless'
    BY TakenStep, HopelessStep DEF Faithful
  <2> QED
    BY <2>1, <2>2, <2>3, <2>4 DEF Safe, Faithful
<1> QED
  BY <1>1, <1>2, InitType, PTL DEF Spec

(***************************************************************************)
(* If no append is cut short, a summary is true for good: whoever it calls *)
(* delivered to has the mail, and whoever it calls refused has not and     *)
(* never will, with a pause configured as long as no loop is abandoned.    *)
(***************************************************************************)
THEOREM ReportsAreTrue == ~MayTear => (Spec => []ReportIsTrue)
<1>1. TypeOK /\ Faithful => ReportIsTrue
  BY DEF TypeOK, Faithful, Taken, GivenUp, Told, Settled, ReportIsTrue
<1> QED
  BY <1>1, FaithfulInvariant, PTL

(***************************************************************************)
(* Under the same assumption, when a run gives up for good, nobody it      *)
(* failed would have been served by another attempt.                       *)
(***************************************************************************)
THEOREM GivingUpIsRight == ~MayTear => (Spec => []HopelessMeansBlocked)
<1>1. TypeOK /\ Faithful => HopelessMeansBlocked
  <2> SUFFICES ASSUME TypeOK, Faithful, NEW w \in Loops, Exclusive, pc[w] = "hopeless",
                      NEW f \in failures[w]
               PROVE  Blocked(file, f[1]) /\ f[1] \in attempted
    BY DEF HopelessMeansBlocked
  <2>1. PICK r \in Recipients, permanent \in BOOLEAN : f = <<r, permanent>>
    BY DEF TypeOK
  <2>2. f[2]
    BY DEF Faithful, Hopeless
  <2>3. permanent
    BY <2>1, <2>2
  <2>4. <<r, TRUE>> \in failures[w]
    BY <2>1, <2>3
  <2>5. Told(r)
    BY <2>4 DEF Told
  <2> QED
    BY <2>1, <2>5 DEF Faithful, GivenUp, Settled
<1> QED
  BY <1>1, FaithfulInvariant, PTL
=============================================================================
