----------------------------- MODULE SerialCalls -----------------------------
(***************************************************************************)
(* What a loop that awaits its calls one by one may rely on: the rows of   *)
(* the trust store's table, the evaluations of a PAC script.  Calls are    *)
(* answered in their order, each once and for good, and at most one is     *)
(* out.  A signal that the loop heeds keeps the calls that are left from   *)
(* being made: they are answered as cut, where they stand.                 *)
(*                                                                         *)
(* What answers a call is an event of something that may outlive it, a     *)
(* child process or a thread; that it never answers the next one is for    *)
(* the module that has these events.                                       *)
(***************************************************************************)
EXTENDS Naturals

CONSTANTS
  Count,   \* how many calls there are
  Answers, \* what the thing that is called may come to
  Cut,     \* the answer of a call that the signal took
  Open     \* no answer yet

VARIABLES
  told, \* for each call, its answer
  out,  \* the calls that are awaited
  over  \* has the signal fired

vars == <<told, out, over>>
Call == 1..Count

Init == /\ told = [c \in Call |-> Open]
        /\ out = {}
        /\ over = FALSE

Turn(c) == /\ out = {} /\ told[c] = Open
           /\ \A d \in Call : d < c => told[d] # Open

Make(c) == /\ Turn(c) /\ ~over
           /\ out' = {c}
           /\ UNCHANGED <<told, over>>

Tell(c, answer) == /\ told' = [told EXCEPT ![c] = answer]
                   /\ out' = {}
                   /\ UNCHANGED over

\* A call that was made, or that came to nothing before it was.
Settle(c) == /\ c \in out \/ (Turn(c) /\ ~over)
             /\ \E answer \in Answers : Tell(c, answer)
TakeAway(c) == /\ over /\ (c \in out \/ Turn(c))
               /\ Tell(c, Cut)

End == /\ ~over /\ over' = TRUE
       /\ UNCHANGED <<told, out>>

Next == End \/ \E c \in Call : Make(c) \/ Settle(c) \/ TakeAway(c)

Spec == Init /\ [][Next]_vars
=============================================================================
