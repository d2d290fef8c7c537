------------------------- MODULE OsTrustStoreProofs -------------------------
(***************************************************************************)
(* Proofs about the reading of the trust store, for any table of commands, *)
(* any deadline and whenever the reader is called.                         *)
(***************************************************************************)
EXTENDS OsTrustStore, TLAPS

OutcomeType == [failure : Failures, code : Codes, budget : Int, read : BOOLEAN, readMs : Int, certs : BOOLEAN, at : Nat]

LEMMA SliceType ==
  ASSUME NEW r \in Rows, now \in Nat, skew \in Int
  PROVE  Slice(r) \in Nat /\ (Slice(r) > 0 => Slice(r) = Smaller(Ceiling[r], Left) /\ Left > 0)
BY TableAssumption DEF Slice, Smaller, Left, Wall

LEMMA OutcomeIsTyped ==
  ASSUME NEW f \in Failures, NEW c \in Codes, NEW b \in Int, NEW w \in BOOLEAN,
         NEW m \in Int, NEW k \in BOOLEAN, now \in Nat
  PROVE  Outcome(f, c, b, w, m, k) \in OutcomeType
BY DEF Outcome, OutcomeType

LEMMA UnreadIsTyped ==
  ASSUME NEW f \in Failures, NEW c \in Codes, now \in Nat
  PROVE  Unread(f, c) \in OutcomeType
<1>1. 0 \in Int /\ FALSE \in BOOLEAN OBVIOUS
<1> QED BY <1>1, OutcomeIsTyped DEF Unread

LEMMA AppendedIsTyped ==
  ASSUME NEW s \in Seq(OutcomeType), NEW o \in OutcomeType
  PROVE  Append(s, o) \in Seq(OutcomeType)
OBVIOUS

LEMMA SingleIsTyped ==
  ASSUME NEW o \in OutcomeType
  PROVE  <<o>> \in Seq(OutcomeType)
OBVIOUS

\* What TypeOK needs to be inductive: output past the limit kills the child.
Cut == killed = "no" => received <= MaxOutput

-----------------------------------------------------------------------------
(***************************************************************************)
(* Type correctness.                                                       *)
(***************************************************************************)
LEMMA CutStep == TypeOK /\ Cut /\ [Next]_vars => Cut'
<1> SUFFICES ASSUME TypeOK, Cut, [Next]_vars PROVE Cut' OBVIOUS
<1> USE TableAssumption DEF Cut
<1>1. ASSUME UNCHANGED childVars PROVE Cut' BY <1>1 DEF childVars
<1>2. CASE CallRead \/ Loop
  <2>1. ASSUME NEW r \in Rows, SpawnChild(r) PROVE Cut' BY <2>1 DEF SpawnChild
  <2> QED BY <1>1, <1>2, <2>1 DEF CallRead, Loop, SkipRow, RefuseRow, SpawnFails
<1>3. CASE Output
  <2>1. CASE received + 1 > MaxOutput BY <1>3, <2>1 DEF Output, KillFor, TypeOK
  <2>2. CASE ~(received + 1 > MaxOutput) BY <1>3, <2>2 DEF Output, TypeOK
  <2> QED BY <2>1, <2>2
<1>4. CASE ChildEnds BY <1>4 DEF ChildEnds
<1>5. CASE StoreTimer BY <1>5 DEF StoreTimer, KillFor
<1>6. CASE CloseEvent BY <1>6 DEF CloseEvent
<1>7. CASE RunAbort BY <1>7 DEF RunAbort, KillFor
<1>8. CASE Linux \/ Tick \/ ClockStep \/ PipeIsClosed
  BY <1>1, <1>8 DEF Linux, LinuxPath, LinuxNone, Tick, ClockStep, PipeIsClosed
<1>9. CASE UNCHANGED vars BY <1>1, <1>9 DEF vars, childVars
<1> QED BY <1>2, <1>3, <1>4, <1>5, <1>6, <1>7, <1>8, <1>9 DEF Next

LEMMA TimesAreTyped ==
  ASSUME TypeOK
  PROVE  /\ budget \in Int /\ began \in Nat /\ now \in Nat /\ NoBudget \in Int
         /\ Wall - startedAt \in Int /\ Wall - entered \in Int
<1>1. now \in Nat /\ skew \in Skews \cup {0} BY DEF TypeOK
<1>2. began \in Nat /\ budget \in Nat BY DEF TypeOK
<1>3. startedAt \in Int /\ entered \in Int BY DEF TypeOK
<1>4. skew \in Int BY <1>1, TableAssumption
<1>5. Wall \in Int BY <1>1, <1>4 DEF Wall
<1>6. Wall - startedAt \in Int /\ Wall - entered \in Int BY <1>3, <1>5
<1> QED BY <1>1, <1>2, <1>6 DEF NoBudget

LEMMA TypeStep == TypeOK /\ Cut /\ [Next]_vars => TypeOK'
<1> SUFFICES ASSUME TypeOK, Cut, [Next]_vars PROVE TypeOK' OBVIOUS
<1> USE TableAssumption
<1>0. outcomes \in Seq(OutcomeType) BY DEF TypeOK, OutcomeType
<1>a. ASSUME outcomes' \in Seq(OutcomeType)
      PROVE  outcomes' \in Seq([failure : Failures, code : Codes, budget : Int, read : BOOLEAN, readMs : Int,
                                certs : BOOLEAN, at : Nat])
  BY <1>a DEF OutcomeType
<1>b. /\ now \in Nat /\ NoBudget \in Int /\ 0 \in Int /\ FALSE \in BOOLEAN /\ TRUE \in BOOLEAN
      /\ skew \in Int /\ Wall \in Int
  BY DEF TypeOK, NoBudget, Wall
<1>1. CASE CallRead BY <1>1, <1>b DEF CallRead, childVars, TypeOK
<1>2. ASSUME NEW r \in Rows, SkipRow(r) PROVE TypeOK'
  <2>1. "timeout" \in Failures /\ "budget-exhausted" \in Codes BY DEF Failures, Codes
  <2>2. Unread("timeout", "budget-exhausted") \in OutcomeType
    BY <1>b, <2>1, UnreadIsTyped
  <2>3. outcomes' \in Seq(OutcomeType) BY <1>0, <1>2, <2>2, AppendedIsTyped DEF SkipRow, Answer
  <2>4. at' \in Nat BY <1>2 DEF SkipRow, Answer, TypeOK
  <2> QED BY <1>2, <1>a, <2>3, <2>4 DEF SkipRow, childVars, TypeOK
<1>3. ASSUME NEW r \in Rows, RefuseRow(r) PROVE TypeOK'
  <2>1. "aborted" \in Failures /\ "run-signal" \in Codes BY DEF Failures, Codes
  <2>2. Unread("aborted", "run-signal") \in OutcomeType
    BY <1>b, <2>1, UnreadIsTyped
  <2>3. outcomes' \in Seq(OutcomeType) BY <1>0, <1>3, <2>2, AppendedIsTyped DEF RefuseRow, Answer
  <2>4. at' \in Nat BY <1>3 DEF RefuseRow, Answer, TypeOK
  <2> QED BY <1>3, <1>a, <2>3, <2>4 DEF RefuseRow, childVars, TypeOK
<1>4. ASSUME NEW r \in Rows, SpawnChild(r) PROVE TypeOK'
  BY <1>4, <1>b, SliceType DEF SpawnChild, TypeOK
<1>5. ASSUME NEW r \in Rows, SpawnFails(r) PROVE TypeOK'
  <2>0. Slice(r) \in Int BY <1>b, SliceType
  <2>1. /\ "reader-missing" \in Failures /\ "reader-failed" \in Failures
        /\ "ENOENT" \in Codes /\ "errno" \in Codes
    BY DEF Failures, Codes
  <2>2. Outcome("reader-missing", "ENOENT", Slice(r), TRUE, 0, FALSE) \in OutcomeType
    BY <1>b, <2>0, <2>1, OutcomeIsTyped
  <2>3. Outcome("reader-failed", "errno", Slice(r), TRUE, 0, FALSE) \in OutcomeType
    BY <1>b, <2>0, <2>1, OutcomeIsTyped
  <2>4. outcomes' \in Seq(OutcomeType) BY <1>0, <1>5, <2>2, <2>3, AppendedIsTyped DEF SpawnFails, Answer
  <2>5. at' = at + 1 /\ at \in Nat BY <1>5, Zenon DEF SpawnFails, Answer, TypeOK
  <2> QED BY <1>5, <1>a, <2>4, <2>5 DEF SpawnFails, childVars, TypeOK
<1>6. CASE Output
  <2>1. received' \in 0..(MaxOutput + 1) /\ killed' \in {"no", "output-too-large"}
    <3>1. CASE received + 1 > MaxOutput BY <1>6, <3>1 DEF Output, KillFor, Cut, TypeOK
    <3>2. CASE ~(received + 1 > MaxOutput) BY <1>6, <3>2 DEF Output, Cut, TypeOK
    <3> QED BY <3>1, <3>2
  <2> QED BY <1>6, <2>1 DEF Output, TypeOK
<1>7. CASE ChildEnds BY <1>7 DEF ChildEnds, TypeOK
<1>8. CASE StoreTimer BY <1>8 DEF StoreTimer, KillFor, TypeOK
<1>9. CASE CloseEvent
  <2> PICK certs \in Parsed :
        Answer([Outcome(CloseFailure(certs), CloseCode, budget, TRUE, Wall - startedAt, CloseFailure(certs) = "none")
                EXCEPT !.at = began])
    BY <1>9 DEF CloseEvent
  <2> DEFINE o == [Outcome(CloseFailure(certs), CloseCode, budget, TRUE, Wall - startedAt, CloseFailure(certs) = "none")
                   EXCEPT !.at = began]
  <2>1. CloseFailure(certs) \in Failures BY DEF CloseFailure, Failures, TypeOK
  <2>2. CloseCode \in Codes BY DEF CloseCode, Codes, TypeOK
  <2>3. budget \in Int /\ Wall - startedAt \in Int /\ now \in Nat /\ began \in Nat /\ TRUE \in BOOLEAN
    BY TimesAreTyped, Zenon
  <2>4. (CloseFailure(certs) = "none") \in BOOLEAN OBVIOUS
  <2>5. Outcome(CloseFailure(certs), CloseCode, budget, TRUE, Wall - startedAt, CloseFailure(certs) = "none") \in OutcomeType
    BY <2>1, <2>2, <2>3, <2>4, OutcomeIsTyped
  <2>6. o \in OutcomeType BY <2>3, <2>5 DEF OutcomeType
  <2>7. outcomes' \in Seq(OutcomeType) BY <1>0, <2>6, AppendedIsTyped DEF Answer
  <2>8. at' \in Nat BY DEF Answer, TypeOK
  <2> QED BY <1>9, <1>a, <2>7, <2>8 DEF CloseEvent, TypeOK
<1>10. CASE LinuxPath
  <2>1. CASE disk[path] = "absent"
    <3>1. path' \in 0..(Paths + 1) /\ at' = at /\ outcomes' = outcomes BY <1>10, <2>1 DEF LinuxPath, TypeOK
    <3> QED BY <1>10, <3>1 DEF LinuxPath, childVars, TypeOK
  <2>2. CASE disk[path] # "absent"
    <3>1. disk[path] \in {"denied", "huge", "empty", "bundle"} BY <1>10, <2>2 DEF LinuxPath, TypeOK, Files
    <3>2. NoBudget \in Int /\ Wall - entered \in Int /\ now \in Nat /\ TRUE \in BOOLEAN
      BY TimesAreTyped, Zenon
    <3>3. FileFailure(disk[path]) \in Failures BY <3>1 DEF FileFailure, Failures
    <3>4. (IF disk[path] = "denied" THEN "errno" ELSE "none") \in Codes BY DEF Codes
    <3>5. Outcome(FileFailure(disk[path]), IF disk[path] = "denied" THEN "errno" ELSE "none",
                  NoBudget, TRUE, Wall - entered, disk[path] = "bundle") \in OutcomeType
      <4>1. (disk[path] = "bundle") \in BOOLEAN OBVIOUS
      <4> QED BY <3>2, <3>3, <3>4, <4>1, OutcomeIsTyped
    <3>6. outcomes' \in Seq(OutcomeType) BY <1>10, <2>2, <3>5, SingleIsTyped, Zenon DEF LinuxPath
    <3>7. path' = path /\ at' = 2 BY <1>10, <2>2, Zenon DEF LinuxPath
    <3>8. UNCHANGED <<now, aborted, skew, disk, entered, childVars>> BY <1>10 DEF LinuxPath
    <3> QED BY <1>a, <3>6, <3>7, <3>8 DEF childVars, TypeOK
  <2> QED BY <2>1, <2>2
<1>11. CASE LinuxNone
  <2>1. NoBudget \in Int /\ Wall - entered \in Int /\ now \in Nat /\ TRUE \in BOOLEAN
    BY TimesAreTyped, Zenon
  <2>2. Outcome("reader-missing", "ENOENT", NoBudget, TRUE, Wall - entered, FALSE) \in OutcomeType
    <3>1. "reader-missing" \in Failures /\ "ENOENT" \in Codes BY DEF Failures, Codes
    <3> QED BY <1>b, <2>1, <3>1, OutcomeIsTyped
  <2>3. outcomes' \in Seq(OutcomeType) BY <1>11, <2>2, SingleIsTyped, Zenon DEF LinuxNone
  <2> QED BY <1>11, <1>a, <2>3 DEF LinuxNone, childVars, TypeOK
<1>12. CASE RunAbort BY <1>12 DEF RunAbort, KillFor, TypeOK
<1>13. CASE Tick
  <2>1. now' \in Nat BY <1>13, <1>b DEF Tick
  <2>2. UNCHANGED <<aborted, skew, at, path, disk, entered, childVars, outcomes>> BY <1>13 DEF Tick
  <2> QED BY <2>1, <2>2 DEF childVars, TypeOK
<1>16. CASE ClockStep
  <2>1. skew' \in Skews \cup {0} BY <1>16 DEF ClockStep
  <2>2. UNCHANGED <<now, aborted, at, path, disk, entered, childVars, outcomes>> BY <1>16 DEF ClockStep
  <2> QED BY <2>1, <2>2 DEF childVars, TypeOK
<1>15. CASE PipeIsClosed BY <1>15 DEF PipeIsClosed, TypeOK
<1>14. CASE UNCHANGED vars BY <1>14 DEF vars, childVars, TypeOK
<1> QED BY <1>1, <1>2, <1>3, <1>4, <1>5, <1>6, <1>7, <1>8, <1>9, <1>10, <1>11, <1>12, <1>13, <1>14, <1>15,
           <1>16
        DEF Next, Loop, Linux

\* Every variable keeps its type: no child is ever given a negative slice, and
\* every outcome carries a failure and a code the probe knows.
THEOREM TypeCorrect == Spec => []TypeOK
<1>1. ASSUME Init PROVE TypeOK
  <2>1. disk \in [1..Paths -> Files] BY <1>1 DEF Init, Files
  <2>2. path \in 0..(Paths + 1) BY <1>1, TableAssumption DEF Init
  <2>3. aborted \in BOOLEAN /\ held \in BOOLEAN BY <1>1, Zenon DEF Init
  <2> QED BY <1>1, <2>1, <2>2, <2>3, TableAssumption DEF Init, TypeOK
<1>2. Init => Cut BY TableAssumption DEF Init, Cut
<1>3. TypeOK /\ Cut /\ [Next]_vars => Cut' BY CutStep
<1> QED BY <1>1, <1>2, <1>3, TypeStep, PTL DEF Spec
-----------------------------------------------------------------------------
(***************************************************************************)
(* The child.  Its slice was cut when it was started so as to leave the    *)
(* reserve, the clock cannot pass the end of the slice before the timer    *)
(* has fired, and so the abort of the run always finds the child killed,   *)
(* but for what the machine's clock was set back by.                       *)
(***************************************************************************)
Work ==
  child # "none" =>
    /\ at \in Rows /\ path = 0
    /\ budget = Smaller(Ceiling[at], Deadline - startedAt - Reserve) /\ began <= now
    /\ startedAt = began \/ startedAt = began + skew
    /\ killed = "no" => now <= began + budget
    /\ killed = "timeout" => began + budget <= now
    /\ killed = "aborted" => Reserve <= Back

LEMMA WorkStep == TypeOK /\ Work /\ [Next]_vars => Work'
<1> SUFFICES ASSUME TypeOK, Work, [Next]_vars PROVE Work' OBVIOUS
<1> USE TableAssumption DEF Work
<1>0. /\ began \in Nat /\ budget \in Nat /\ now \in Nat /\ (at \in Rows => Ceiling[at] \in Nat)
      /\ skew \in Int /\ startedAt \in Int
  BY DEF TypeOK
<1>1. CASE CallRead
  <2>1. at = 0 /\ UNCHANGED childVars BY <1>1 DEF CallRead
  <2>2. child = "none" BY <2>1 DEF Rows
  <2> QED BY <2>1, <2>2 DEF childVars
<1>2. CASE Loop
  <2> PICK r \in Rows : SkipRow(r) \/ RefuseRow(r) \/ SpawnChild(r) \/ SpawnFails(r) BY <1>2 DEF Loop
  <2>1. child = "none" BY DEF SkipRow, RefuseRow, SpawnChild, SpawnFails, InHand
  <2>2. CASE SpawnChild(r)
    <3>1. /\ at = r /\ at' = r /\ path' = 0 /\ killed' = "no" /\ began' = now /\ now' = now
          /\ startedAt' = now + skew /\ skew' = skew /\ budget' = Slice(r) /\ Slice(r) >= MinBudget
      BY <2>2 DEF SpawnChild, InHand, Wall
    <3>2. Slice(r) \in Nat /\ Slice(r) = Smaller(Ceiling[r], Left) BY <3>1, <1>0, SliceType
    <3> QED BY <3>1, <3>2, <1>0 DEF Left, Wall
  <2>3. CASE ~SpawnChild(r)
    <3>1. UNCHANGED childVars BY <2>3 DEF SkipRow, RefuseRow, SpawnFails
    <3> QED BY <2>1, <3>1 DEF childVars
  <2> QED BY <2>2, <2>3
<1>3. CASE Output \/ ChildEnds \/ PipeIsClosed BY <1>3 DEF Output, ChildEnds, PipeIsClosed, KillFor, Back
<1>4. CASE StoreTimer BY <1>4 DEF StoreTimer, KillFor, Back
<1>5. CASE CloseEvent BY <1>5 DEF CloseEvent
<1>6. CASE Linux
  <2>1. path # 0
    <3>1. CASE LinuxPath BY <3>1 DEF LinuxPath
    <3>2. CASE LinuxNone BY <3>2 DEF LinuxNone
    <3> QED BY <1>6, <3>1, <3>2 DEF Linux
  <2>2. UNCHANGED childVars BY <1>6, Zenon DEF Linux, LinuxPath, LinuxNone
  <2> QED BY <2>1, <2>2 DEF childVars
<1>7. CASE RunAbort
  <2>1. ASSUME child # "none", killed = "no" PROVE Reserve <= Back
    <3>1. now <= began + budget /\ budget <= Deadline - startedAt - Reserve BY <1>0, <2>1 DEF Smaller
    <3>2. began <= startedAt + Back BY <1>0, <2>1 DEF Back
    <3> QED BY <1>0, <1>7, <3>1, <3>2 DEF RunAbort, Back
  <2>2. UNCHANGED <<now, skew, at, path, child, began, startedAt, budget>> /\ Back' = Back
    BY <1>7 DEF RunAbort, Back
  <2>3. killed' = IF child # "none" /\ killed = "no" THEN "aborted" ELSE killed
    BY <1>7 DEF RunAbort, KillFor
  <2> QED BY <2>1, <2>2, <2>3
<1>8. CASE Tick
  <2>1. /\ now' = now + 1 /\ UNCHANGED <<skew, at, path, child, killed, began, startedAt, budget>> /\ Back' = Back
        /\ child # "none" /\ killed = "no" => now < began + budget
    BY <1>0, <1>8 DEF Tick, Overdue, childVars, Back
  <2> QED BY <1>0, <2>1
<1>c. CASE ClockStep
  <2>1. skew = 0 /\ UNCHANGED <<now, at, path, child, killed, began, startedAt, budget>>
    BY <1>c DEF ClockStep, childVars
  <2>2. startedAt = began + skew => startedAt = began BY <1>0, <2>1
  <2>3. Back = 0 /\ ~(Reserve <= 0) BY <2>1 DEF Back
  <2> QED BY <2>1, <2>2, <2>3
<1>9. CASE UNCHANGED vars BY <1>9 DEF vars, childVars, Back
<1> QED BY <1>1, <1>2, <1>3, <1>4, <1>5, <1>6, <1>7, <1>8, <1>c, <1>9 DEF Next

\* A living child is always that of the row in hand, with the slice it was cut.
THEOREM WorkHolds == Spec => []Work
<1>1. Init => Work BY DEF Init, Work
<1> QED BY <1>1, WorkStep, TypeCorrect, PTL DEF Spec

\* A child that nothing has killed leaves the run its reserve, whatever the
\* stores read before it have cost, less what the clock was set back by.
THEOREM ReserveKeptHolds == Spec => []ReserveKept
<1>1. TypeOK /\ Work => ReserveKept
  <2> SUFFICES ASSUME TypeOK, Work, child # "none", killed = "no" PROVE now + Reserve <= Deadline + Back
    BY DEF ReserveKept
  <2>1. /\ now \in Nat /\ began \in Nat /\ budget \in Nat /\ startedAt \in Int /\ skew \in Int
        /\ at \in Rows /\ Ceiling[at] \in Nat
    BY TableAssumption DEF TypeOK, Work
  <2>2. now <= began + budget /\ budget <= Deadline - startedAt - Reserve
    BY <2>1, TableAssumption DEF Work, Smaller
  <2>3. began <= startedAt + Back BY <2>1 DEF Work, Back
  <2> QED BY <2>1, <2>2, <2>3, TableAssumption DEF Back
<1> QED BY <1>1, WorkHolds, TypeCorrect, PTL

-----------------------------------------------------------------------------
(***************************************************************************)
(* The outcomes: one for each row done with, in the table's order, and     *)
(* each true of the slice its row was given.                               *)
(***************************************************************************)
FairWithin(i, o, back, ahead) ==
  /\ o.failure = "aborted" => (~o.read /\ o.budget = 0) \/ back >= Reserve
  /\ o.read => IF o.failure = "timeout" THEN o.readMs + back >= o.budget
               ELSE o.failure \in {"output-too-large", "aborted"} \/ o.readMs <= o.budget + ahead
  /\ o.failure = "timeout" => IF Advice(i, o) = "row" THEN o.at + Ceiling[i] + Reserve <= Deadline + back
                              ELSE o.at + Ceiling[i] + Reserve > Deadline - ahead
Fair(i, o) == FairWithin(i, o, Back, Ahead)

\* What the clock was set by is a length of time, either way.
LEMMA SetBackIsNat ==
  ASSUME NEW s \in Int
  PROVE  (IF s < 0 THEN -s ELSE 0) \in Nat /\ (IF s > 0 THEN s ELSE 0) \in Nat
OBVIOUS

\* What is fair by a clock that was never set is fair by one that was.
LEMMA FairStays ==
  ASSUME NEW i, NEW o, Ceiling[i] \in Nat, NEW back \in Nat, NEW ahead \in Nat,
         o.budget \in Int, o.readMs \in Int, o.at \in Nat, FairWithin(i, o, 0, 0)
  PROVE  FairWithin(i, o, back, ahead)
<1>0. Reserve \in Nat \ {0} /\ Deadline \in Nat BY TableAssumption
<1>1. o.failure = "aborted" => (~o.read /\ o.budget = 0) \/ back >= Reserve BY <1>0 DEF FairWithin
<1>2. o.readMs + 0 >= o.budget => o.readMs + back >= o.budget OBVIOUS
<1>3. o.readMs <= o.budget + 0 => o.readMs <= o.budget + ahead OBVIOUS
<1>4. o.read => IF o.failure = "timeout" THEN o.readMs + back >= o.budget
                ELSE o.failure \in {"output-too-large", "aborted"} \/ o.readMs <= o.budget + ahead
  BY <1>2, <1>3 DEF FairWithin
<1> DEFINE needed == o.at + Ceiling[i] + Reserve
<1>5. needed \in Int BY <1>0
<1>6. o.failure = "timeout" => IF Advice(i, o) = "row" THEN needed <= Deadline + 0 ELSE needed > Deadline - 0
  BY DEF FairWithin
<1> HIDE DEF needed
<1>7. needed <= Deadline + 0 => needed <= Deadline + back BY <1>0, <1>5
<1>8. needed > Deadline - 0 => needed > Deadline - ahead BY <1>0, <1>5
<1>9. o.failure = "timeout" => IF Advice(i, o) = "row" THEN needed <= Deadline + back ELSE needed > Deadline - ahead
  BY <1>6, <1>7, <1>8
<1> QED BY <1>1, <1>4, <1>9 DEF FairWithin, needed

Told ==
  /\ path = 0 => /\ at <= N + 1
                 /\ Len(outcomes) = IF at = 0 THEN 0 ELSE at - 1
                 /\ \A i \in 1..Len(outcomes) : Fair(i, outcomes[i])
  /\ path # 0 => \A i \in 1..Len(outcomes) : outcomes[i].failure # "aborted"

LEMMA AnswerIsTold ==
  ASSUME TypeOK, Told, path = 0, path' = 0, at \in Rows, NEW o, Answer(o), Fair(at, o), skew' = skew
  PROVE  Told'
<1>1. Len(outcomes) = at - 1 /\ at \in Nat /\ at >= 1 /\ Len(outcomes) \in Nat
  BY TableAssumption DEF Told, Rows, TypeOK
<1>2. outcomes' = Append(outcomes, o) /\ at' = at + 1 BY DEF Answer
<1>3. outcomes \in Seq([failure : Failures, code : Codes, budget : Int, read : BOOLEAN, readMs : Int, certs : BOOLEAN, at : Nat])
  BY DEF TypeOK
<1>4. Len(outcomes') = Len(outcomes) + 1 BY <1>2, <1>3
<1>6. Back' = Back /\ Ahead' = Ahead BY DEF Back, Ahead
<1>5. ASSUME NEW i \in 1..Len(outcomes') PROVE Fair(i, outcomes'[i])
  <2>1. CASE i = at
    <3>1. outcomes'[i] = o BY <1>1, <1>2, <1>3, <2>1
    <3> QED BY <2>1, <3>1
  <2>2. CASE i # at
    <3>1. i \in 1..Len(outcomes) /\ outcomes'[i] = outcomes[i] BY <1>1, <1>2, <1>3, <1>4, <2>2
    <3> QED BY <3>1 DEF Told
  <2> QED BY <2>1, <2>2
<1>7. at' <= N + 1 /\ (at' = 0 => FALSE) /\ Len(outcomes') = at' - 1
  BY <1>1, <1>2, <1>4, TableAssumption DEF Rows
<1>8. ASSUME NEW i \in 1..Len(outcomes') PROVE FairWithin(i, outcomes'[i], Back', Ahead')
  BY <1>5, <1>6, <1>8 DEF Fair
<1> QED BY <1>7, <1>8 DEF Told, Fair

\* The two rows that never had a child of their own.
LEMMA UnreadIsFair ==
  ASSUME TypeOK, NEW r \in Rows
  PROVE  /\ Slice(r) < MinBudget => Fair(r, Unread("timeout", "budget-exhausted"))
         /\ Fair(r, Unread("aborted", "run-signal"))
<1> USE TableAssumption
<1>1. now \in Nat /\ Ceiling[r] \in Nat /\ Ceiling[r] >= MinBudget /\ skew \in Int BY DEF TypeOK
<1>2. ASSUME Slice(r) < MinBudget PROVE now + Ceiling[r] + Reserve > Deadline - Ahead
  BY <1>1, <1>2 DEF Slice, Smaller, Left, Wall, Ahead
<1> QED BY <1>1, <1>2 DEF Fair, FairWithin, Unread, Outcome, Advice

LEMMA SpawnFailsIsFair ==
  ASSUME TypeOK, NEW r \in Rows
  PROVE  /\ Fair(r, Outcome("reader-missing", "ENOENT", Slice(r), TRUE, 0, FALSE))
         /\ Fair(r, Outcome("reader-failed", "errno", Slice(r), TRUE, 0, FALSE))
<1>1. skew \in Int BY TableAssumption DEF TypeOK
<1>2. Slice(r) \in Nat BY <1>1, SliceType DEF TypeOK
<1>3. Ahead \in Nat BY <1>1 DEF Ahead
<1> QED BY <1>2, <1>3 DEF Fair, FairWithin, Outcome

LEMMA CloseIsFair ==
  ASSUME TypeOK, Work, child # "none", NEW certs, NEW o,
         o = [Outcome(CloseFailure(certs), CloseCode, budget, TRUE, Wall - startedAt, CloseFailure(certs) = "none")
              EXCEPT !.at = began]
  PROVE  Fair(at, o)
<1> USE TableAssumption
<1>1. /\ began \in Nat /\ budget \in Nat /\ now \in Nat /\ at \in Rows /\ Ceiling[at] \in Nat
      /\ startedAt \in Int /\ skew \in Int
      /\ began <= now /\ budget = Smaller(Ceiling[at], Deadline - startedAt - Reserve)
  BY DEF TypeOK, Work
<1>2. /\ o.failure = CloseFailure(certs) /\ o.code = CloseCode /\ o.budget = budget
      /\ o.read = TRUE /\ o.readMs = Wall - startedAt /\ o.at = began
  BY DEF Outcome
<1>3. /\ began <= startedAt + Back /\ startedAt <= began + Ahead
      /\ Wall - startedAt <= now - began + Ahead /\ now - began <= Wall - startedAt + Back
      /\ Back \in Nat /\ Ahead \in Nat
  BY <1>1 DEF Work, Back, Ahead, Wall
<1>w. Wall \in Int BY <1>1 DEF Wall
<1>4. CASE killed = "no"
  <2>1. CloseFailure(certs) \in {"reader-failed", "none", "no-certificates"} BY <1>4 DEF CloseFailure
  <2>2. now - began <= budget BY <1>1, <1>4 DEF Work
  <2>3. Wall - startedAt <= budget + Ahead BY <1>1, <1>3, <1>w, <2>2
  <2> QED BY <1>2, <2>1, <2>3 DEF Fair, FairWithin
<1>5. CASE killed = "timeout"
  <2>1. CloseFailure(certs) = "timeout" /\ CloseCode = "signal:SIGKILL" BY <1>5 DEF CloseFailure, CloseCode
  <2>2. now - began >= budget BY <1>1, <1>5 DEF Work
  <2>3. Wall - startedAt + Back >= budget BY <1>1, <1>3, <1>w, <2>2
  <2>4. budget >= Ceiling[at] <=> startedAt + Ceiling[at] + Reserve <= Deadline BY <1>1 DEF Smaller
  <2>5. Advice(at, o) = "row" <=> startedAt + Ceiling[at] + Reserve <= Deadline BY <1>2, <2>1, <2>4 DEF Advice
  <2>6. startedAt + Ceiling[at] + Reserve <= Deadline => began + Ceiling[at] + Reserve <= Deadline + Back
    BY <1>1, <1>3
  <2>7. ~(startedAt + Ceiling[at] + Reserve <= Deadline) => began + Ceiling[at] + Reserve > Deadline - Ahead
    BY <1>1, <1>3
  <2> QED BY <1>2, <2>1, <2>3, <2>5, <2>6, <2>7 DEF Fair, FairWithin
<1>6. CASE killed = "output-too-large"
  <2>1. CloseFailure(certs) = "output-too-large" BY <1>6 DEF CloseFailure
  <2> QED BY <1>2, <2>1 DEF Fair, FairWithin
<1>7. CASE killed = "aborted"
  <2>1. CloseFailure(certs) = "aborted" /\ Reserve <= Back BY <1>7 DEF CloseFailure, Work
  <2> QED BY <1>2, <1>3, <2>1 DEF Fair, FairWithin
<1> QED BY <1>4, <1>5, <1>6, <1>7 DEF TypeOK

LEMMA ToldStep == TypeOK /\ Work /\ Told /\ [Next]_vars => Told'
<1> SUFFICES ASSUME TypeOK, Work, Told, [Next]_vars PROVE Told' OBVIOUS
<1>0. ASSUME UNCHANGED <<at, path, outcomes, skew>> PROVE Told' BY <1>0 DEF Told, Fair, FairWithin, Back, Ahead
<1>1. CASE CallRead
  <2>1. at = 0 /\ at' = 1 /\ path' = path /\ outcomes' = outcomes /\ skew' = skew BY <1>1 DEF CallRead
  <2>2. at' <= N + 1 BY <2>1, TableAssumption
  <2> QED BY <2>1, <2>2 DEF Told, Fair, FairWithin, Back, Ahead
<1>2. CASE Loop
  <2> PICK r \in Rows : SkipRow(r) \/ RefuseRow(r) \/ SpawnChild(r) \/ SpawnFails(r) BY <1>2 DEF Loop
  <2>1. at = r /\ path = 0 /\ path' = 0 /\ skew' = skew
    BY DEF SkipRow, RefuseRow, SpawnChild, SpawnFails, InHand
  <2>2. CASE SkipRow(r)
    <3>1. Slice(r) < MinBudget /\ Answer(Unread("timeout", "budget-exhausted"))
      BY <2>2 DEF SkipRow
    <3>2. Fair(r, Unread("timeout", "budget-exhausted")) BY <3>1, UnreadIsFair
    <3> QED BY <2>1, <3>1, <3>2, AnswerIsTold
  <2>3. CASE RefuseRow(r)
    <3>1. Answer(Unread("aborted", "run-signal")) BY <2>3 DEF RefuseRow
    <3>2. Fair(r, Unread("aborted", "run-signal")) BY UnreadIsFair
    <3> QED BY <2>1, <3>1, <3>2, AnswerIsTold
  <2>4. CASE SpawnChild(r) BY <1>0, <2>4 DEF SpawnChild
  <2>5. CASE SpawnFails(r)
    <3>1. PICK o \in {Outcome("reader-missing", "ENOENT", Slice(r), TRUE, 0, FALSE),
                      Outcome("reader-failed", "errno", Slice(r), TRUE, 0, FALSE)} : Answer(o)
      BY <2>5 DEF SpawnFails
    <3>2. Fair(r, o) BY SpawnFailsIsFair
    <3> QED BY <2>1, <3>1, <3>2, AnswerIsTold
  <2> QED BY <2>2, <2>3, <2>4, <2>5
<1>3. CASE Output BY <1>0, <1>3 DEF Output
<1>4. CASE ChildEnds \/ PipeIsClosed BY <1>0, <1>4 DEF ChildEnds, PipeIsClosed
<1>5. CASE StoreTimer BY <1>0, <1>5 DEF StoreTimer
<1>6. CASE CloseEvent
  <2>1. child # "none" /\ path' = path /\ skew' = skew BY <1>6 DEF CloseEvent
  <2>2. at \in Rows /\ path = 0 BY <2>1 DEF Work
  <2>3. PICK certs \in Parsed :
          Answer([Outcome(CloseFailure(certs), CloseCode, budget, TRUE, Wall - startedAt, CloseFailure(certs) = "none")
                  EXCEPT !.at = began])
    BY <1>6 DEF CloseEvent
  <2> QED BY <2>1, <2>2, <2>3, CloseIsFair, AnswerIsTold
<1>7. CASE LinuxPath
  <2>1. path # 0 /\ path' # 0
    <3>1. path \in 1..Paths /\ (path' = path + 1 \/ path' = path) BY <1>7 DEF LinuxPath
    <3> QED BY <3>1, TableAssumption
  <2>2. CASE outcomes' = outcomes BY <2>1, <2>2 DEF Told
  <2>3. CASE outcomes' # outcomes
    <3>1. PICK c, k : /\ disk[path] # "absent"
                      /\ outcomes' = <<Outcome(FileFailure(disk[path]), c, NoBudget, TRUE, Wall - entered, k)>>
      BY <1>7, <2>3 DEF LinuxPath
    <3>2. FileFailure(disk[path]) # "aborted" BY <1>7, <3>1 DEF FileFailure, TypeOK, Files, LinuxPath
    <3> QED BY <2>1, <3>1, <3>2 DEF Told, Outcome
  <2> QED BY <2>2, <2>3
<1>8. CASE LinuxNone
  <2>1. path # 0 /\ path' # 0 BY <1>8, TableAssumption DEF LinuxNone, TypeOK
  <2>2. outcomes' = <<Outcome("reader-missing", "ENOENT", NoBudget, TRUE, Wall - entered, FALSE)>>
    BY <1>8 DEF LinuxNone
  <2> QED BY <2>1, <2>2 DEF Told, Outcome
<1>9. CASE RunAbort BY <1>0, <1>9 DEF RunAbort
<1>10. CASE Tick BY <1>0, <1>10 DEF Tick
<1>12. CASE ClockStep
  <2>1. skew = 0 /\ skew' \in Int /\ UNCHANGED <<at, path, outcomes>> BY <1>12, TableAssumption DEF ClockStep
  <2>2. Back = 0 /\ Ahead = 0 /\ Back' \in Nat /\ Ahead' \in Nat
    <3>1. Back = 0 /\ Ahead = 0 BY <2>1 DEF Back, Ahead
    <3>2. (IF skew' < 0 THEN -(skew') ELSE 0) \in Nat /\ (IF skew' > 0 THEN skew' ELSE 0) \in Nat
      BY <2>1, SetBackIsNat
    <3>3. Back' \in Nat BY <3>2 DEF Back
    <3>4. Ahead' \in Nat BY <3>2 DEF Ahead
    <3> QED BY <3>1, <3>3, <3>4
  <2>3. ASSUME path = 0, NEW i \in 1..Len(outcomes) PROVE Fair(i, outcomes[i])'
    <3> DEFINE o == outcomes[i]
    <3>1. Fair(i, o) BY <2>3 DEF Told
    <3>2. o \in OutcomeType
      <4>1. outcomes \in Seq(OutcomeType) BY DEF TypeOK, OutcomeType
      <4> QED BY <2>3, <4>1
    <3>3. o.budget \in Int /\ o.readMs \in Int /\ o.at \in Nat BY <3>2 DEF OutcomeType
    <3>4. i \in Rows /\ Ceiling[i] \in Nat
      <4>1. Len(outcomes) = (IF at = 0 THEN 0 ELSE at - 1) /\ at <= N + 1 /\ at \in Nat BY <2>3 DEF Told, TypeOK
      <4> QED BY <2>3, <4>1, TableAssumption DEF Rows
    <3>5. FairWithin(i, o, 0, 0) BY <2>2, <3>1 DEF Fair
    <3>6. FairWithin(i, o, Back', Ahead') BY <2>2, <3>3, <3>4, <3>5, FairStays
    <3> QED BY <2>1, <3>6 DEF Fair
  <2> QED BY <2>1, <2>3 DEF Told
<1>11. CASE UNCHANGED vars BY <1>0, <1>11 DEF vars
<1> QED BY <1>1, <1>2, <1>3, <1>4, <1>5, <1>6, <1>7, <1>8, <1>9, <1>10, <1>11, <1>12 DEF Next, Linux

\* The outcomes are the table's rows so far, each of them fair to its row.
THEOREM ToldHolds == Spec => []Told
<1>1. Init => Told BY TableAssumption DEF Init, Told
<1> QED BY <1>1, ToldStep, WorkHolds, TypeCorrect, PTL DEF Spec

\* A store reported as taken away by the end of the run was never being read.
THEOREM AbortedMeansUnreadHolds == Spec => []AbortedMeansUnread
<1>1. Told => AbortedMeansUnread BY DEF Told, Fair, FairWithin, AbortedMeansUnread
<1> QED BY <1>1, ToldHolds, PTL

\* A store is only judged on what its child said within the slice, and only
\* timed out after the whole of it.
THEOREM VerdictsAreInTimeHolds == Spec => []VerdictsAreInTime
<1>1. Told => VerdictsAreInTime BY DEF Told, Fair, FairWithin, VerdictsAreInTime
<1> QED BY <1>1, ToldHolds, PTL

\* "Raise the deadline" and "look at the row's ceiling" are each said exactly
\* when they would help, for any ceilings, reserve and deadline.
THEOREM AdviceIsRightHolds == Spec => []AdviceIsRight
<1>1. Told => AdviceIsRight BY DEF Told, Fair, FairWithin, AdviceIsRight
<1> QED BY <1>1, ToldHolds, PTL
-----------------------------------------------------------------------------
(***************************************************************************)
(* The rows, as calls in turn.                                             *)
(***************************************************************************)
Counted == IF N = 0 THEN 1 ELSE N
Log == [r \in 1..Counted |-> IF r <= Len(outcomes) THEN outcomes[r].failure ELSE "open"]
Awaited == IF child # "none" \/ (path > 0 /\ at = 1) THEN {at} ELSE {}

\* A file is the one call of its platform, and only the run's signal takes a row
\* away.
OneFile ==
  /\ path # 0 => at \in 0..2 /\ Len(outcomes) = IF at = 2 THEN 1 ELSE 0
  /\ child # "none" /\ killed = "aborted" => aborted

LEMMA OneFileStep == TypeOK /\ Work /\ OneFile /\ [Next]_vars => OneFile'
<1> SUFFICES ASSUME TypeOK, Work, OneFile, [Next]_vars PROVE OneFile' OBVIOUS
<1>1. ASSUME path = 0, path' = 0, child' = "none" \/ (killed' = "aborted" => aborted') PROVE OneFile'
  BY <1>1 DEF OneFile
<1>2. ASSUME UNCHANGED <<at, path, outcomes, child, killed, aborted>> PROVE OneFile'
  BY <1>2 DEF OneFile
<1>3. CASE CallRead
  <2>1. at = 0 /\ at' = 1 /\ UNCHANGED <<path, outcomes, child, killed, aborted>>
    BY <1>3 DEF CallRead, childVars
  <2> QED BY <2>1 DEF OneFile
<1>4. CASE Loop
  <2> PICK r \in Rows : SkipRow(r) \/ RefuseRow(r) \/ SpawnChild(r) \/ SpawnFails(r) BY <1>4 DEF Loop
  <2>1. path = 0 /\ path' = 0 /\ (child' = "none" \/ killed' = "no")
    BY DEF SkipRow, RefuseRow, SpawnChild, SpawnFails, InHand, childVars
  <2> QED BY <1>1, <2>1
<1>5. CASE Output \/ StoreTimer
  <2>1. /\ child # "none" /\ killed = "no" /\ killed' \in {"no", "timeout", "output-too-large"}
        /\ UNCHANGED <<path, child>>
    BY <1>5 DEF Output, StoreTimer, KillFor
  <2> QED BY <1>1, <2>1 DEF Work
<1>6. CASE ChildEnds \/ CloseEvent
  <2>1. child # "none" /\ UNCHANGED <<path, killed, aborted>>
    BY <1>6 DEF ChildEnds, CloseEvent
  <2> QED BY <1>1, <2>1 DEF Work, OneFile
<1>7. CASE RunAbort
  <2>1. aborted' /\ UNCHANGED <<at, path, outcomes, child>>
    BY <1>7 DEF RunAbort
  <2> QED BY <2>1 DEF OneFile
<1>8. CASE LinuxPath
  <2>1. path # 0 /\ at = 1 /\ UNCHANGED <<child, killed, aborted>>
    BY <1>8 DEF LinuxPath, childVars
  <2>2. child = "none" BY <2>1 DEF Work
  <2>3. \/ at' = 1 /\ outcomes' = outcomes
        \/ at' = 2 /\ Len(outcomes') = 1
    BY <1>8, <2>1 DEF LinuxPath
  <2> QED BY <2>1, <2>2, <2>3 DEF OneFile
<1>9. CASE LinuxNone
  <2>1. path # 0 /\ at' = 2 /\ Len(outcomes') = 1 /\ UNCHANGED child
    BY <1>9, TableAssumption DEF LinuxNone, childVars
  <2>2. child = "none" BY <2>1 DEF Work
  <2> QED BY <2>1, <2>2 DEF OneFile
<1>10. CASE PipeIsClosed \/ ClockStep \/ Tick \/ UNCHANGED vars
  BY <1>2, <1>10 DEF PipeIsClosed, ClockStep, Tick, vars, childVars
<1> QED BY <1>3, <1>4, <1>5, <1>6, <1>7, <1>8, <1>9, <1>10 DEF Next, Linux

LEMMA OneFileHolds == Spec => []OneFile
<1>1. Init => OneFile BY DEF Init, OneFile
<1> QED BY <1>1, OneFileStep, WorkHolds, TypeCorrect, PTL DEF Spec

\* An outcome more is an answer more, that of the row in hand.
LEMMA LogGrows ==
  ASSUME TypeOK, NEW o, outcomes' = Append(outcomes, o)
  PROVE  Log' = [Log EXCEPT ![Len(outcomes) + 1] = o.failure]
<1>1. Len(outcomes) \in Nat /\ Len(outcomes') = Len(outcomes) + 1 /\ Counted \in Nat
  BY TableAssumption DEF TypeOK, Counted
<1>2. \A r \in 1..Len(outcomes) : outcomes'[r] = outcomes[r]
  BY DEF TypeOK
<1>3. outcomes'[Len(outcomes) + 1] = o
  BY DEF TypeOK
<1>4. \A r \in 1..Counted : Log'[r] = IF r = Len(outcomes) + 1 THEN o.failure ELSE Log[r]
  BY <1>1, <1>2, <1>3 DEF Log
<1> QED BY <1>4 DEF Log

LEMMA TurnOfRow ==
  ASSUME TypeOK, Told, path = 0, child = "none", NEW r \in Rows, at = r
  PROVE  /\ InTurn!Turn(r) /\ r \in InTurn!Call
         /\ at = Len(outcomes) + 1 /\ Awaited = {}
<1>1. at = Len(outcomes) + 1 /\ at \in 1..N /\ Counted = N /\ Len(outcomes) \in Nat /\ Awaited = {}
  BY TableAssumption DEF Told, Rows, TypeOK, Counted, Awaited
<1>2. Log[at] = "open" BY <1>1 DEF Log
<1>3. ASSUME NEW d \in 1..Counted, d < at PROVE Log[d] # "open"
  <2>1. d \in 1..Len(outcomes) BY <1>1, <1>3
  <2>2. outcomes \in Seq(OutcomeType) BY DEF TypeOK, OutcomeType
  <2>3. outcomes[d] \in OutcomeType BY <2>1, <2>2
  <2>4. outcomes[d].failure \in Failures BY <2>3 DEF OutcomeType
  <2> QED BY <1>1, <2>1, <2>4 DEF Log, Failures
<1> QED BY <1>1, <1>2, <1>3 DEF InTurn!Turn, InTurn!Call, Log, Awaited, Counted

\* What settles a row that is out, or whose turn it is, settles its call.
LEMMA RowSettles ==
  ASSUME TypeOK, NEW r \in InTurn!Call, at = r, at = Len(outcomes) + 1,
         NEW o, outcomes' = Append(outcomes, o), o.failure \in Failures,
         Awaited' = {}, (aborted /\ path = 0)' = (aborted /\ path = 0),
         at \in Awaited \/ InTurn!Turn(r),
         o.failure = "aborted" => aborted /\ path = 0,
         o.failure # "aborted" => at \in Awaited \/ ~(aborted /\ path = 0)
  PROVE  [InTurn!Next]_(InTurn!vars)
<1>1. Log' = [Log EXCEPT ![r] = o.failure] BY LogGrows
<1>2. CASE o.failure = "aborted"
  <2>1. InTurn!TakeAway(r)
    BY <1>1, <1>2 DEF InTurn!TakeAway, InTurn!Tell, Log, Awaited, Counted
  <2> QED BY <2>1 DEF InTurn!Next
<1>3. CASE o.failure # "aborted"
  <2>1. InTurn!Settle(r)
    BY <1>1, <1>3 DEF InTurn!Settle, InTurn!Tell, Log, Awaited, Counted
  <2> QED BY <2>1 DEF InTurn!Next
<1> QED BY <1>2, <1>3

LEMMA TurnsStep ==
  ASSUME TypeOK, Work, Told, OneFile, [Next]_vars
  PROVE  [InTurn!Next]_(InTurn!vars)
<1> DEFINE Step == [InTurn!Next]_(InTurn!vars)
<1>0. /\ N \in Nat /\ at \in Nat /\ path \in Nat /\ Len(outcomes) \in Nat /\ aborted \in BOOLEAN
      /\ 1 \in InTurn!Call /\ Rows \subseteq InTurn!Call
  BY TableAssumption DEF TypeOK, Rows, InTurn!Call
<1>1. ASSUME outcomes' = outcomes, Awaited' = Awaited, (aborted /\ path = 0)' = (aborted /\ path = 0) PROVE Step
  BY <1>1 DEF InTurn!vars, Awaited
<1>2. CASE CallRead
  <2>1. at = 0 /\ at' = 1 /\ UNCHANGED <<path, outcomes, child, aborted>>
    BY <1>2 DEF CallRead, childVars
  <2>2. child = "none" BY <2>1 DEF Work, Rows
  <2>3. CASE path = 0
    BY <1>1, <2>1, <2>2, <2>3 DEF Awaited
  <2>4. CASE path # 0
    <3>1. Awaited = {} /\ Awaited' = {1} /\ Len(outcomes) = 0
      BY <1>0, <2>1, <2>2, <2>4 DEF Awaited, OneFile
    <3>2. Log[1] = "open" BY <1>0, <3>1 DEF Log, Counted
    <3>3. InTurn!Turn(1)
      BY <1>0, <3>1, <3>2 DEF InTurn!Turn, InTurn!Call, Log, Awaited, Counted
    <3>4. InTurn!Make(1)
      BY <2>1, <2>4, <3>1, <3>3 DEF InTurn!Make, Awaited
    <3> QED BY <1>0, <3>4 DEF InTurn!Next
  <2> QED BY <2>3, <2>4
<1>3. CASE Loop
  <2> PICK r \in Rows : SkipRow(r) \/ RefuseRow(r) \/ SpawnChild(r) \/ SpawnFails(r) BY <1>3 DEF Loop
  <2>1. /\ at = r /\ path = 0 /\ path' = 0 /\ child = "none" /\ aborted' = aborted
        /\ InTurn!Turn(r) /\ r \in InTurn!Call /\ r = Len(outcomes) + 1
    BY TurnOfRow DEF SkipRow, RefuseRow, SpawnChild, SpawnFails, InHand
  <2>2. CASE SpawnChild(r)
    <3>1. ~aborted /\ outcomes' = outcomes /\ Awaited' = {r}
      BY <2>1, <2>2 DEF SpawnChild, Awaited
    <3>2. InTurn!Make(r)
      BY <2>1, <3>1 DEF InTurn!Make, Awaited
    <3> QED BY <2>1, <3>2 DEF InTurn!Next
  <2>3. CASE ~SpawnChild(r)
    <3>0. child' = "none"
      BY <2>1, <2>3 DEF SkipRow, RefuseRow, SpawnFails, childVars
    <3>1. Awaited' = {}
      BY <2>1, <3>0 DEF Awaited
    <3>2. CASE SkipRow(r)
      <4>1. ~aborted /\ outcomes' = Append(outcomes, Unread("timeout", "budget-exhausted"))
        BY <3>2 DEF SkipRow, Answer
      <4> QED BY <2>1, <3>1, <4>1, RowSettles DEF Unread, Outcome, Failures
    <3>3. CASE RefuseRow(r)
      <4>1. aborted /\ outcomes' = Append(outcomes, Unread("aborted", "run-signal"))
        BY <3>3 DEF RefuseRow, Answer
      <4> QED BY <2>1, <3>1, <4>1, RowSettles DEF Unread, Outcome, Failures
    <3>4. CASE SpawnFails(r)
      <4>1. PICK o : /\ o.failure \in {"reader-missing", "reader-failed"}
                     /\ ~aborted /\ outcomes' = Append(outcomes, o)
        BY <3>4 DEF SpawnFails, Answer, Outcome
      <4> QED BY <2>1, <3>1, <4>1, RowSettles DEF Failures
    <3> QED BY <2>3, <3>2, <3>3, <3>4
  <2> QED BY <2>2, <2>3
<1>4. CASE Output \/ ChildEnds \/ PipeIsClosed \/ StoreTimer
  <2>1. UNCHANGED <<at, path, outcomes, aborted>> /\ (child' = "none" <=> child = "none")
    BY <1>4 DEF Output, ChildEnds, PipeIsClosed, StoreTimer
  <2> QED BY <1>1, <2>1 DEF Awaited
<1>5. CASE CloseEvent
  <2>1. PICK certs \in Parsed : outcomes' = Append(outcomes,
          [Outcome(CloseFailure(certs), CloseCode, budget, TRUE, Wall - startedAt, CloseFailure(certs) = "none")
             EXCEPT !.at = began])
    BY <1>5 DEF CloseEvent, Answer
  <2> DEFINE o == [Outcome(CloseFailure(certs), CloseCode, budget, TRUE, Wall - startedAt, CloseFailure(certs) = "none")
                     EXCEPT !.at = began]
  <2>2. o.failure = CloseFailure(certs) BY DEF Outcome
  <2>3. child # "none" /\ at \in Rows /\ path = 0 /\ UNCHANGED <<path, aborted>> /\ child' = "none"
    BY <1>5 DEF CloseEvent, Work
  <2>4. at = Len(outcomes) + 1 BY <1>0, <2>3 DEF Told, Rows
  <2>5. at \in Awaited /\ Awaited' = {} BY <2>3 DEF Awaited
  <2>6. CloseFailure(certs) \in Failures /\ (CloseFailure(certs) = "aborted" => aborted)
    BY <2>3 DEF CloseFailure, Failures, OneFile, TypeOK
  <2> HIDE DEF o
  <2>7. PICK r \in Rows : at = r BY <2>3
  <2> QED BY <1>0, <2>1, <2>2, <2>3, <2>4, <2>5, <2>6, <2>7, RowSettles DEF o
<1>6. CASE Linux
  <2>1. at = 1 /\ path # 0 /\ child = "none" /\ UNCHANGED <<child, aborted>> /\ Len(outcomes) = 0
    <3>1. at = 1 /\ path # 0
      <4>1. LinuxPath => at = 1 /\ path \in 1..Paths BY DEF LinuxPath
      <4>2. LinuxNone => at = 1 /\ path = Paths + 1 BY DEF LinuxNone
      <4> QED BY <1>6, <4>1, <4>2, TableAssumption DEF Linux
    <3>2. UNCHANGED <<child, aborted>>
      BY <1>6, Zenon DEF Linux, LinuxPath, LinuxNone, childVars
    <3> QED BY <3>1, <3>2 DEF Work, OneFile
  <2>2. outcomes = <<>> BY <2>1 DEF TypeOK
  <2>3. ASSUME NEW o, outcomes' = <<o>>, o.failure \in Failures \ {"aborted"}, at' = 2, path' = path PROVE Step
    <3>1. outcomes' = Append(outcomes, o) BY <2>2, <2>3
    <3>2. at \in Awaited /\ Awaited' = {} BY <1>0, <2>1, <2>3 DEF Awaited
    <3> QED BY <1>0, <2>1, <2>3, <3>1, <3>2, RowSettles
  <2>4. CASE LinuxPath /\ disk[path] = "absent"
    <3>1. path' = path + 1 /\ UNCHANGED <<at, outcomes>> BY <2>4 DEF LinuxPath
    <3> QED BY <1>0, <1>1, <2>1, <3>1 DEF Awaited
  <2>5. CASE LinuxPath /\ disk[path] # "absent"
    <3>1. disk[path] \in Files \ {"absent"} BY <2>5 DEF LinuxPath, TypeOK
    <3>2. FileFailure(disk[path]) \in Failures \ {"aborted"} BY <3>1 DEF FileFailure, Files, Failures
    <3> QED BY <2>3, <2>5, <3>2 DEF LinuxPath, Outcome
  <2>6. CASE LinuxNone
    BY <2>3, <2>6 DEF LinuxNone, Outcome, Failures
  <2> QED BY <1>6, <2>4, <2>5, <2>6 DEF Linux
<1>7. CASE RunAbort
  <2>1. ~aborted /\ aborted' = TRUE /\ UNCHANGED <<at, path, outcomes, child>>
    BY <1>7 DEF RunAbort
  <2>2. CASE path = 0
    BY <2>1, <2>2 DEF InTurn!Next, InTurn!End
  <2>3. CASE path # 0
    BY <1>1, <2>1, <2>3 DEF Awaited
  <2> QED BY <2>2, <2>3
<1>8. CASE ClockStep \/ Tick \/ UNCHANGED vars
  <2>1. UNCHANGED <<at, path, outcomes, child, aborted>>
    BY <1>8 DEF ClockStep, Tick, vars, childVars
  <2> QED BY <1>1, <2>1 DEF Awaited
<1> QED BY <1>2, <1>3, <1>4, <1>5, <1>6, <1>7, <1>8 DEF Next

\* For any table, deadline and clock: an outcome belongs to the row whose child
\* it came from, every row has one, and after the signal no child is started.
THEOREM RowsInTurnHolds == Spec => RowsInTurn
<1>1. Init => InTurn!Init
  BY TableAssumption DEF Init, InTurn!Init, InTurn!Call
<1> QED BY <1>1, TurnsStep, TypeCorrect, WorkHolds, ToldHolds, OneFileHolds, PTL DEF Spec, RowsInTurn, InTurn!Spec
=============================================================================
