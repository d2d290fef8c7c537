----------------------------- MODULE RunContract -----------------------------
(***************************************************************************)
(* What a run of `portcall check` promises to whoever reads its report, or *)
(* only its exit code.  The probes are reported one after the other, each  *)
(* of them whole: with what every one of its checks came to, or as one     *)
(* error that names the probe.  A check comes to one result, not before it *)
(* is the turn of its probe, and what it comes to after its probe has been *)
(* reported is in no report.  The exit code is told once.  It is the worst *)
(* of the report, or 3 where there is none to be had.                      *)
(*                                                                         *)
(* One thing it does not promise: that it gets there.  Once the deadline   *)
(* has passed a probe may set a lookup adrift, and while one is adrift the *)
(* process may die of it, with exit code 1, before the report is told or   *)
(* after.  A run within its deadline never does, and truststore, which is  *)
(* the last of the probes and asks the network nothing, sets none adrift.  *)
(*                                                                         *)
(* Timers, captures and observed anchors are the engine's own affair.      *)
(***************************************************************************)
EXTENDS Naturals

CONSTANTS
  Count,    \* how many probes are registered
  Name,     \* the name of each, in their order
  Part,     \* the checks of each
  Verdict,  \* the severities
  Open,     \* no result yet
  Untold    \* no exit code yet

VARIABLES
  result,  \* what each check has come to
  entered, \* how many probes have been reported
  report,  \* the findings, as a set of records
  exit,    \* the exit code
  overdue, \* has the deadline passed
  adrift,  \* is a lookup out that nobody waits for
  gone     \* has the process died

vars == <<result, entered, report, exit, overdue, adrift, gone>>
Checked == UNION {Part[i] : i \in 1..Count}

Init == /\ result = [c \in Checked |-> Open]
        /\ entered = 0 /\ report = {} /\ exit = Untold
        /\ overdue = FALSE /\ adrift = FALSE /\ gone = FALSE

\* Any number of checks at once: the deadline cuts all that are out.  It passes once, and
\* only past it may a probe, other than the last, set a lookup adrift.
Come ==
  /\ DOMAIN result' = Checked
  /\ \A c \in Checked : result'[c] # result[c] =>
       /\ result[c] = Open /\ result'[c] \in Verdict \cup {"threw"}
       /\ \E i \in 1..Count : i <= entered + 1 /\ c \in Part[i]
  /\ overdue => overdue'
  /\ ~adrift /\ adrift' => overdue /\ entered + 1 < Count /\ exit = Untold
  /\ UNCHANGED <<entered, report, exit, gone>>

Enter(found) ==
  /\ exit = Untold
  /\ entered' = entered + 1
  /\ report' = report \cup found
  /\ UNCHANGED <<result, exit, overdue, adrift, gone>>

Whole == /\ entered < Count
         /\ \A c \in Part[entered + 1] : result[c] \in Verdict
         /\ Enter({[from |-> c, severity |-> result[c]] : c \in Part[entered + 1]})
Error == /\ entered < Count
         /\ \E c \in Part[entered + 1] : result[c] = "threw"
         /\ Enter({[from |-> Name[entered + 1], severity |-> "unknown"]})

Reported(severities) == \E f \in report : f.severity \in severities
Code == IF Reported({"blocker"}) THEN 2
        ELSE IF Reported({"degraded", "unknown"}) THEN 1 ELSE 0

Tell == /\ exit = Untold /\ entered = Count
        /\ exit' = Code
        /\ UNCHANGED <<result, entered, report, overdue, adrift, gone>>

\* Before a check was made, or for want of a report that can be written.
GiveUp == /\ exit = Untold
          /\ entered = Count \/ \A c \in Checked : result[c] = Open
          /\ exit' = 3
          /\ UNCHANGED <<result, entered, report, overdue, adrift, gone>>

Die == /\ adrift
       /\ gone' = TRUE /\ exit' = 1 /\ adrift' = FALSE
       /\ UNCHANGED <<result, entered, report, overdue>>

Next == ~gone /\ (Come \/ Whole \/ Error \/ Tell \/ GiveUp \/ Die)

Spec == Init /\ [][Next]_vars
=============================================================================
