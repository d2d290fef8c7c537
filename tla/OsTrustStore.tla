---------------------------- MODULE OsTrustStore ----------------------------
(***************************************************************************)
(* Reading this machine's trust store: net/os-truststore.ts, and what the  *)
(* truststore probe tells an operator about a read that ran out of time.   *)
(*                                                                         *)
(* On macOS and Windows each row of the command table is a child process,  *)
(* one after the other, with a slice of what the run has left.  A child's  *)
(* exit, its last output, the slice's timer and the abort of the run race. *)
(* On Linux the first bundle that is there is read as a file.  Time is in  *)
(* ticks, and a timer that is due fires before the clock moves.            *)
(*                                                                         *)
(* Timers and the abort of the run count time as it passes; the deadline,  *)
(* and what is left of it, are read off the machine's clock, which may be  *)
(* set once while the run lasts.                                           *)
(***************************************************************************)
EXTENDS Integers, Sequences

CONSTANTS
  N,         \* how many rows of COMMAND_TABLE are this platform's; 0 elsewhere
  Ceiling,   \* the timeoutMs of each row
  Reserve,   \* STORE_BUDGET_RESERVE_MS
  MinBudget, \* MIN_STORE_BUDGET_MS
  Deadline,  \* the run's deadline
  Paths,     \* how many LINUX_PATHS there are
  Skews,     \* by how much the machine's clock may be set
  MaxOutput, \* MAX_STORE_OUTPUT_BYTES, in chunks
  MaxTime    \* bound on the clock, for model checking

VARIABLES
  now, aborted, \* the time that has passed, and the run's signal
  skew,     \* what the machine's clock is ahead of it
  at,       \* the row in hand: 0 before read() is called, past the last once it has returned
  path,     \* the Linux path in hand, and 0 on other platforms
  disk,     \* what each Linux path holds; nothing on other platforms
  entered,  \* when read() was called, by the machine's clock
  child,    \* "none", "live", or "dead" with its close event still to come
  held,     \* whether a process the child left behind has its output open
  fate,     \* how the child ended: "exit0", "exitN" or "signal"
  killed,   \* why it was killed, or "no"
  received, \* chunks of its output
  began, startedAt, budget, \* when the child was started, by either clock, and its slice
  outcomes  \* what read() will return

vars == <<now, aborted, skew, at, path, disk, entered, child, held, fate, killed, received,
          began, startedAt, budget, outcomes>>
childVars == <<child, held, fate, killed, received, began, startedAt, budget>>

Rows == 1..N
ASSUME TableAssumption ==
  /\ N \in Nat /\ Ceiling \in [Rows -> Nat] /\ \A r \in Rows : Ceiling[r] >= MinBudget
  /\ Reserve \in Nat \ {0} /\ MinBudget \in Nat \ {0}
  /\ Deadline \in Nat /\ Paths \in Nat \ {0} /\ Skews \subseteq Int /\ MaxOutput \in Nat /\ MaxTime \in Nat
-----------------------------------------------------------------------------
Files == {"absent", "denied", "huge", "empty", "bundle"}
\* An outcome, with the moment its row was taken up.
Outcome(failure, code, b, read, took, certs) ==
  [failure |-> failure, code |-> code, budget |-> b, read |-> read, readMs |-> took, certs |-> certs, at |-> now]
\* What no child was started for has no budget, and no duration.
Unread(failure, code) == Outcome(failure, code, 0, FALSE, 0, FALSE)
NoBudget == -1 \* the null of a file

Smaller(m, n) == IF m <= n THEN m ELSE n
Wall == now + skew \* Date.now()
Left == Deadline - Wall - Reserve
\* Slip: nothing held back from the run.
SliceUnreserved(r) == IF Deadline - Wall <= 0 THEN 0 ELSE Smaller(Ceiling[r], Deadline - Wall)
\* Slip: every row a slice of what there was when the first was read.
SliceOfTheWhole(r) == Smaller(Ceiling[r], IF Deadline - entered <= Reserve THEN 0
                                          ELSE Deadline - entered - Reserve)
\* storeBudgetMs
Slice(r) == IF Left <= 0 THEN 0 ELSE Smaller(Ceiling[r], Left)

Init ==
  /\ now = 0 /\ aborted = FALSE /\ skew = 0
  /\ at = 0 /\ entered = 0
  /\ path \in {0, 1} /\ disk \in [1..Paths -> IF path = 0 THEN {"absent"} ELSE Files]
  /\ child = "none" /\ held = FALSE /\ fate = "exit0" /\ killed = "no" /\ received = 0
  /\ began = 0 /\ startedAt = 0 /\ budget = 0
  /\ outcomes = <<>>

\* truststore is the last probe: its turn may come at any time.
CallRead ==
  /\ at = 0
  /\ at' = 1 /\ entered' = Wall
  /\ UNCHANGED <<now, aborted, skew, path, disk, childVars, outcomes>>

\* Slip: nothing is answered for once the run is over.
InHandOfLiveRun(r) == at = r /\ path = 0 /\ child = "none" /\ ~aborted
\* Slip: the next row taken up while the child is still at work.
InHandUnawaited(r) == at = r /\ path = 0
InHand(r) == at = r /\ path = 0 /\ child = "none"
\* The loop runs on to its next await before any timer is looked at.
Busy == \E r \in Rows : InHand(r)
Answer(o) == outcomes' = Append(outcomes, o) /\ at' = at + 1

\* Too little is left for a child to be worth starting.
SkipRow(r) ==
  /\ InHand(r) /\ ~aborted /\ Slice(r) < MinBudget
  /\ Answer(Unread("timeout", "budget-exhausted"))
  /\ UNCHANGED <<now, aborted, skew, path, disk, entered, childVars>>

RefuseRow(r) ==
  /\ InHand(r) /\ aborted
  /\ Answer(Unread("aborted", "run-signal"))
  /\ UNCHANGED <<now, aborted, skew, path, disk, entered, childVars>>

SpawnChild(r) ==
  /\ InHand(r) /\ ~aborted /\ Slice(r) >= MinBudget
  /\ child' = "live" /\ killed' = "no" /\ received' = 0
  /\ began' = now /\ startedAt' = Wall /\ budget' = Slice(r)
  /\ UNCHANGED <<now, aborted, skew, at, path, disk, entered, held, fate, outcomes>>

\* The error event of a child that never started comes before any other.
SpawnFails(r) ==
  /\ InHand(r) /\ ~aborted /\ Slice(r) >= MinBudget
  /\ \/ Answer(Outcome("reader-missing", "ENOENT", Slice(r), TRUE, 0, FALSE))
     \/ Answer(Outcome("reader-failed", "errno", Slice(r), TRUE, 0, FALSE))
  /\ UNCHANGED <<now, aborted, skew, path, disk, entered, childVars>>

\* kill(): the first reason is the reason.
KillFor(reason) == killed' = IF killed = "no" THEN reason ELSE killed

Output ==
  /\ child # "none" /\ killed = "no"
  /\ received' = received + 1
  /\ IF received' > MaxOutput THEN KillFor("output-too-large") ELSE UNCHANGED killed
  /\ UNCHANGED <<now, aborted, skew, at, path, disk, entered, child, held, fate, began, startedAt, budget, outcomes>>

\* A killed child dies of it; any other ends as it likes.  What it started and
\* did not wait for lives on, and may hold its output open.
ChildEnds ==
  /\ child = "live"
  /\ child' = "dead" /\ held' \in BOOLEAN
  /\ fate' \in (IF killed = "no" THEN {"exit0", "exitN", "signal"} ELSE {"signal"})
  /\ UNCHANGED <<now, aborted, skew, at, path, disk, entered, killed, received, began, startedAt, budget, outcomes>>

StoreTimer ==
  /\ child # "none" /\ began + budget <= now
  /\ killed = "no" /\ KillFor("timeout")
  /\ UNCHANGED <<now, aborted, skew, at, path, disk, entered, child, held, fate, received, began, startedAt, budget, outcomes>>

PipeIsClosed ==
  /\ held /\ held' = FALSE
  /\ UNCHANGED <<now, aborted, skew, at, path, disk, entered, child, fate, killed, received, began, startedAt, budget, outcomes>>

\* Whether the output of a child that ended well holds a certificate: none if
\* there was none at all.
Parsed == IF received = 0 THEN {FALSE} ELSE BOOLEAN
CloseCode == IF killed = "aborted" THEN "run-signal"
             ELSE IF killed # "no" THEN "signal:SIGKILL"
             ELSE CASE fate = "signal" -> "signal"
                    [] fate = "exitN"  -> "exit"
                    [] fate = "exit0"  -> "none"
\* Slip: the exit status looked at before the kill.
CloseFailureByStatus(certs) == IF fate = "exit0" THEN IF certs THEN "none" ELSE "no-certificates"
                               ELSE IF killed # "no" THEN killed ELSE "reader-failed"
CloseFailure(certs) == IF killed # "no" THEN killed
                       ELSE IF fate # "exit0" THEN "reader-failed"
                       ELSE IF certs THEN "none" ELSE "no-certificates"

\* The close event waits for the output as well as for the child.
CloseEvent ==
  /\ child = "dead" /\ ~held
  /\ \E certs \in Parsed :
       LET failure == CloseFailure(certs) IN
       Answer([Outcome(failure, CloseCode, budget, TRUE, Wall - startedAt, failure = "none") EXCEPT !.at = began])
  /\ child' = "none"
  /\ UNCHANGED <<now, aborted, skew, path, disk, entered, held, fate, killed, received, began, startedAt, budget>>

FileFailure(file) == CASE file = "denied" -> "reader-failed"
                       [] file = "huge"   -> "output-too-large"
                       [] file = "empty"  -> "no-certificates"
                       [] file = "bundle" -> "none"
\* readLinuxCaBundle, one path per step; the last path is followed by none.
LinuxPath ==
  /\ at = 1 /\ path \in 1..Paths
  /\ \/ /\ disk[path] = "absent"
        /\ path' = path + 1
        /\ UNCHANGED <<at, outcomes>>
     \/ /\ disk[path] # "absent"
        /\ at' = 2
        /\ outcomes' = <<Outcome(FileFailure(disk[path]), IF disk[path] = "denied" THEN "errno" ELSE "none",
                                 NoBudget, TRUE, Wall - entered, disk[path] = "bundle")>>
        /\ UNCHANGED path
  /\ UNCHANGED <<now, aborted, skew, disk, entered, childVars>>

LinuxNone ==
  /\ at = 1 /\ path = Paths + 1
  /\ at' = 2
  /\ outcomes' = <<Outcome("reader-missing", "ENOENT", NoBudget, TRUE, Wall - entered, FALSE)>>
  /\ UNCHANGED <<now, aborted, skew, path, disk, entered, childVars>>

RunAbort ==
  /\ Deadline <= now /\ ~aborted /\ ~Busy
  /\ aborted' = TRUE
  /\ IF child # "none" THEN KillFor("aborted") ELSE UNCHANGED killed
  /\ UNCHANGED <<now, skew, at, path, disk, entered, child, held, fate, received, began, startedAt, budget, outcomes>>

\* Somebody, or the network's time, sets the machine's clock.
ClockStep ==
  /\ skew = 0 /\ skew' \in Skews
  /\ UNCHANGED <<now, aborted, at, path, disk, entered, childVars, outcomes>>

Overdue == (Deadline <= now /\ ~aborted) \/ (child # "none" /\ killed = "no" /\ began + budget <= now)
Tick ==
  /\ now < MaxTime /\ ~Overdue /\ ~Busy
  /\ now' = now + 1
  /\ UNCHANGED <<aborted, skew, at, path, disk, entered, childVars, outcomes>>

Loop == \E r \in Rows : SkipRow(r) \/ RefuseRow(r) \/ SpawnChild(r) \/ SpawnFails(r)
Linux == LinuxPath \/ LinuxNone
Next == CallRead \/ Loop \/ Linux \/ Output \/ ChildEnds \/ PipeIsClosed \/ StoreTimer \/ CloseEvent
        \/ RunAbort \/ ClockStep \/ Tick
Spec == Init /\ [][Next]_vars

\* The loop runs, the clock moves and timers fire, and the system ends a child
\* that was killed and says so.  Nothing is asked of a child that was not.
LiveSpec == /\ Spec
            /\ WF_vars(Loop) /\ WF_vars(Linux) /\ WF_vars(Tick) /\ WF_vars(StoreTimer) /\ WF_vars(RunAbort)
            /\ WF_vars(killed # "no" /\ ChildEnds) /\ WF_vars(CloseEvent)
-----------------------------------------------------------------------------
(***************************************************************************)
(* What the probe makes of a timeout: readTimeoutRemediation.              *)
(***************************************************************************)
\* Slip: any slice that was cut blames the row.
AdviceAlwaysRow(r, o) == IF o.code = "budget-exhausted" THEN "raise" ELSE "row"
Advice(r, o) == IF o.code # "budget-exhausted" /\ o.budget >= Ceiling[r] THEN "row" ELSE "raise"

Failures == {"none", "timeout", "aborted", "output-too-large", "reader-missing", "reader-failed", "no-certificates"}
Codes == {"none", "errno", "ENOENT", "exit", "signal", "signal:SIGKILL", "run-signal", "budget-exhausted"}
TypeOK ==
  /\ now \in Nat /\ aborted \in BOOLEAN /\ skew \in Skews \cup {0}
  /\ at \in Nat /\ path \in 0..(Paths + 1) /\ disk \in [1..Paths -> Files] /\ entered \in Int
  /\ child \in {"none", "live", "dead"} /\ held \in BOOLEAN /\ fate \in {"exit0", "exitN", "signal"}
  /\ killed \in {"no", "timeout", "aborted", "output-too-large"}
  /\ received \in 0..(MaxOutput + 1) /\ began \in Nat /\ startedAt \in Int /\ budget \in Nat
  /\ outcomes \in Seq([failure : Failures, code : Codes, budget : Int, read : BOOLEAN, readMs : Int,
                       certs : BOOLEAN, at : Nat])
-----------------------------------------------------------------------------
(***************************************************************************)
(* Properties.                                                             *)
(***************************************************************************)
\* How far back, and how far ahead, the machine's clock was set.
Back == IF skew < 0 THEN -skew ELSE 0
Ahead == IF skew > 0 THEN skew ELSE 0

\* A child still at work leaves the run its reserve, whenever it was started and
\* whatever the rows before it cost; a clock that is set back costs the run no
\* more than what it is set back by.
ReserveKept == child # "none" /\ killed = "no" => now + Reserve <= Deadline + Back

\* "The read simply never happened" is what an operator is told of a store that
\* the run's end took away, so no child was ever started for it: the slice's own
\* timer always comes first, but for a clock set back by the reserve or more.
AbortedMeansUnread == \A i \in 1..Len(outcomes) :
  outcomes[i].failure = "aborted" => (~outcomes[i].read /\ outcomes[i].budget = 0) \/ Back >= Reserve

\* A verdict about the store is only given on a child that ended in its slice,
\* and a timeout only for one that was given all of it; the durations reported
\* are off by no more than the clock.
VerdictsAreInTime == path = 0 => \A i \in 1..Len(outcomes) : LET o == outcomes[i] IN
  o.read => IF o.failure = "timeout" THEN o.readMs + Back >= o.budget
            ELSE o.failure \in {"output-too-large", "aborted"} \/ o.readMs <= o.budget + Ahead

\* The two answers are opposites: the row's ceiling is blamed exactly when more
\* time for the run would not have given the read any more, as far as the clock
\* can be trusted.
AdviceIsRight == path = 0 => \A i \in 1..Len(outcomes) : LET o == outcomes[i] IN
  o.failure = "timeout" => IF Advice(i, o) = "row" THEN o.at + Ceiling[i] + Reserve <= Deadline + Back
                           ELSE o.at + Ceiling[i] + Reserve > Deadline - Ahead

\* A file is read whatever the signal says, a table row by row.
InTurn == INSTANCE SerialCalls WITH
  Count <- IF N = 0 THEN 1 ELSE N, Answers <- Failures \ {"aborted"}, Cut <- "aborted", Open <- "open",
  told <- [r \in 1..(IF N = 0 THEN 1 ELSE N) |-> IF r <= Len(outcomes) THEN outcomes[r].failure ELSE "open"],
  out <- IF child # "none" \/ (path > 0 /\ at = 1) THEN {at} ELSE {},
  over <- aborted /\ path = 0

\* To read(), rows are calls in turn: the late output, exit or close event of one
\* child is never put down to the next row, a row's failure is settled once, and
\* no child is started once the run's signal has fired.
RowsInTurn == InTurn!Spec

\* read() answers for every row, though no child ever ends by itself, unless a
\* process that a child left behind never closes its output: no timer helps then.
ReadReturns == []<>~held => (at = 1 ~> at > IF path = 0 THEN N ELSE 1)
=============================================================================
