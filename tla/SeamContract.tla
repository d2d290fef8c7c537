---------------------------- MODULE SeamContract ----------------------------
(***************************************************************************)
(* What every network seam of portcall promises its caller, whichever of   *)
(* the files under src/net it lives in: a call settles once, with one      *)
(* cause, and a cancelled run leaves no call pending.  The TypeScript      *)
(* types state the shape of an outcome; this module states its history.    *)
(***************************************************************************)
CONSTANT Calls      \* the seam calls a run makes

VARIABLES call,     \* [Calls -> CallState]
          cancelled \* has the run signal fired

vars == <<call, cancelled>>

\* "answered" and "refused" are the network's word, "timedOut" is the phase
\* timer's, "cut" is the run's, "denied" is the network policy's.
CallState == {"idle", "pending", "answered", "refused", "timedOut", "cut", "denied"}

Init == /\ call = [c \in Calls |-> "idle"]
        /\ cancelled = FALSE

\* Calls that go out in one turn: promises that are made together.  On a
\* cancelled run they are cut before anything is waited for.
Begin(together) ==
  /\ call' = [c \in Calls |-> IF c \notin together THEN call[c]
                             ELSE IF cancelled THEN "cut" ELSE "pending"]
  /\ UNCHANGED cancelled

\* A call that is decided by its arguments alone: the policy refuses the
\* host, or the address does not parse.
Reject(c) == /\ call[c] = "idle"
             /\ \E s \in {"refused", "denied"} : call' = [call EXCEPT ![c] = s]
             /\ UNCHANGED cancelled

Hear(c) == /\ call[c] = "pending"
           /\ \E s \in {"answered", "refused"} : call' = [call EXCEPT ![c] = s]
           /\ UNCHANGED cancelled

TimeOut(c) == /\ call[c] = "pending"
              /\ ~cancelled
              /\ call' = [call EXCEPT ![c] = "timedOut"]
              /\ UNCHANGED cancelled

\* The abort event reaches every pending call before anything else runs.
Cancel == /\ ~cancelled
          /\ cancelled' = TRUE
          /\ call' = [c \in Calls |-> IF call[c] = "pending" THEN "cut" ELSE call[c]]

Next == \/ Cancel
        \/ \E together \in SUBSET {c \in Calls : call[c] = "idle"} : Begin(together)
        \/ \E c \in Calls : Reject(c) \/ Hear(c) \/ TimeOut(c)

Spec == Init /\ [][Next]_vars
=============================================================================
