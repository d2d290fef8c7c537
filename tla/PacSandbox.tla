---------------------------- MODULE PacSandbox ----------------------------
(***************************************************************************)
(* probes/proxy/pac-sandbox.ts and pac-worker.ts: each evaluation of a PAC *)
(* script runs on a thread of its own, which the caller can terminate.     *)
(* What the thread says, that it breaks or exits, and a watchdog race to   *)
(* answer the call.                                                        *)
(*                                                                         *)
(* The probe makes the calls one after the other, but the thread of a call *)
(* that has been answered may live on into the next one.  What a thread    *)
(* sends is delivered in order and before its exit, which Node sees to.    *)
(*                                                                         *)
(* The run's signal reaches the lookup that precedes a call (resolveForPac *)
(* of proxy/index.ts), and not the call: a run that is cut makes the calls *)
(* that are left, only faster.                                             *)
(***************************************************************************)
EXTENDS Integers, Sequences

CONSTANTS
  Calls,     \* how many evaluations there are
  TimeoutMs, \* the budget of a script
  GraceMs,   \* WATCHDOG_GRACE_MS
  MaxTime    \* bound on the clock, for model checking

VARIABLES
  now,
  answer, \* what evaluate() resolved with
  began,  \* when it was called
  due,    \* when the watchdog fires
  thread, \* the worker thread
  mail,   \* its events that are still to be handled, in order
  kills,  \* how often worker.terminate() was called
  cut     \* the run's signal: when it came, and how many calls were answered

perCall == <<answer, began, due, thread, mail, kills>>
vars == <<now, perCall, cut>>

ASSUME SandboxAssumption ==
  /\ Calls \in Nat /\ TimeoutMs \in Nat \ {0} /\ GraceMs \in Nat \ {0} /\ MaxTime \in Nat
-----------------------------------------------------------------------------
Call == 1..Calls
Off == 0 \* a watchdog that is not set
Alive == {"loading", "running"}
Replied == <<"message", "exit0">>
Broken  == <<"error", "exit1">>
Mails == {<<>>, Replied, <<"exit0">>, Broken, <<"exit1">>}

Init ==
  /\ now = 0
  /\ answer = [c \in Call |-> "none"]
  /\ began = [c \in Call |-> 0]
  /\ due = [c \in Call |-> Off]
  /\ thread = [c \in Call |-> "none"]
  /\ mail = [c \in Call |-> <<>>]
  /\ kills = [c \in Call |-> 0]
  /\ cut = [on |-> FALSE, at |-> 0, done |-> 0]

Pending(c) == thread[c] # "none" /\ answer[c] = "none"
Turn(c) == thread[c] = "none" /\ answer[c] = "none" /\ \A d \in Call : d < c => answer[d] # "none"

\* Slip: no grace for the thread to load and to be heard.
WatchdogUngraced == now + TimeoutMs
Watchdog == now + TimeoutMs + GraceMs

\* Bound: the clock is not stopped while a call is out.
RoomOnClock == now + TimeoutMs + GraceMs <= MaxTime

Evaluate(c) ==
  /\ Turn(c) /\ RoomOnClock
  /\ began' = [began EXCEPT ![c] = now]
  /\ due' = [due EXCEPT ![c] = Watchdog]
  /\ thread' = [thread EXCEPT ![c] = "loading"]
  /\ UNCHANGED <<now, answer, mail, kills, cut>>

\* new Worker() throws: there is nothing to terminate.
SpawnThrows(c) ==
  /\ Turn(c)
  /\ answer' = [answer EXCEPT ![c] = "error"]
  /\ UNCHANGED <<now, began, due, thread, mail, kills, cut>>
-----------------------------------------------------------------------------
\* The worker module is loaded and takes up the request.
Loads(c) ==
  /\ thread[c] = "loading"
  /\ thread' = [thread EXCEPT ![c] = "running"]
  /\ UNCHANGED <<now, answer, began, due, mail, kills, cut>>

\* evaluatePac has returned a verdict: it is posted, and the worker exits
\* before anything the script left behind can run.  A script may as well never
\* come to this.
Posts(c) ==
  /\ thread[c] = "running"
  /\ thread' = [thread EXCEPT ![c] = "dead"]
  /\ mail' = [mail EXCEPT ![c] = Replied]
  /\ UNCHANGED <<now, answer, began, due, kills, cut>>

\* It cannot be loaded, throws or runs out of memory; or dies without a word.
Breaks(c) ==
  /\ thread[c] \in Alive
  /\ thread' = [thread EXCEPT ![c] = "dead"]
  /\ \E m \in {Broken, <<"exit1">>} : mail' = [mail EXCEPT ![c] = m]
  /\ UNCHANGED <<now, answer, began, due, kills, cut>>

\* terminate() takes effect, whatever the thread is doing.
Killed(c) ==
  /\ thread[c] \in Alive /\ kills[c] > 0
  /\ thread' = [thread EXCEPT ![c] = "dead"]
  /\ mail' = [mail EXCEPT ![c] = <<"exit1">>]
  /\ UNCHANGED <<now, answer, began, due, kills, cut>>
-----------------------------------------------------------------------------
\* Slip: the thread terminated only when it was heard from.
FinishHeard(c, verdict) ==
  IF answer[c] = "none"
  THEN /\ answer' = [answer EXCEPT ![c] = verdict]
       /\ due' = [due EXCEPT ![c] = Off]
       /\ kills' = [kills EXCEPT ![c] = IF mail[c] = <<>> THEN 0 ELSE 1]
  ELSE UNCHANGED <<answer, due, kills>>

\* Slip: every event answers.
FinishAnyway(c, verdict) ==
  /\ answer' = [answer EXCEPT ![c] = verdict]
  /\ due' = [due EXCEPT ![c] = Off]
  /\ kills' = [kills EXCEPT ![c] = 1]

\* finish: the first event answers, every later one finds the call settled.
Finish(c, verdict) ==
  IF answer[c] = "none"
  THEN /\ answer' = [answer EXCEPT ![c] = verdict]
       /\ due' = [due EXCEPT ![c] = Off]
       /\ kills' = [kills EXCEPT ![c] = @ + 1]
  ELSE UNCHANGED <<answer, due, kills>>

\* The listeners of the caller.  An exit with 0 is no answer: the message came
\* before it.
Deliver(c) ==
  /\ mail[c] # <<>>
  /\ mail' = [mail EXCEPT ![c] = Tail(mail[c])]
  /\ IF Head(mail[c]) = "message" THEN Finish(c, "script")
     ELSE IF Head(mail[c]) \in {"error", "exit1"} THEN Finish(c, "error")
     ELSE UNCHANGED <<answer, due, kills>>
  /\ UNCHANGED <<now, began, thread, cut>>

Fires(c) == due[c] # Off /\ due[c] <= now

WatchdogFires(c) ==
  /\ Fires(c)
  /\ Finish(c, "error")
  /\ UNCHANGED <<now, began, thread, mail, cut>>

\* The deadline.  Those of the calls that are answered are the first ones.
RunCut ==
  /\ ~cut.on
  /\ \E n \in 0..Calls : /\ \A c \in Call : answer[c] # "none" <=> c <= n
                         /\ cut' = [on |-> TRUE, at |-> now, done |-> n]
  /\ UNCHANGED <<now, perCall>>

\* Slip: the lookups run their course after the deadline.
WaitingAnyway == TRUE
\* Between two calls there is a lookup, which takes no time once it is cut.
Waiting == cut.on => \A c \in Call : ~Turn(c)
Tick ==
  /\ now < MaxTime /\ \A c \in Call : ~Fires(c)
  /\ Waiting
  /\ now' = now + 1
  /\ UNCHANGED <<perCall, cut>>

Next == \/ Tick \/ RunCut
        \/ \E c \in Call : \/ Evaluate(c) \/ SpawnThrows(c) \/ Loads(c) \/ Posts(c) \/ Breaks(c)
                           \/ Killed(c) \/ Deliver(c) \/ WatchdogFires(c)

\* The clock moves, what is due or has been sent is handled and a thread that
\* is told to terminate does; nothing is asked of a script.
Fairness ==
  /\ WF_vars(Tick)
  /\ \A c \in Call : WF_vars(Deliver(c)) /\ WF_vars(WatchdogFires(c)) /\ WF_vars(Killed(c))

Spec == Init /\ [][Next]_vars /\ Fairness
-----------------------------------------------------------------------------
TypeOK ==
  /\ now \in Nat
  /\ answer \in [Call -> {"none", "script", "error"}]
  /\ began \in [Call -> Nat]
  /\ due \in [Call -> Nat]
  /\ thread \in [Call -> {"none", "dead"} \cup Alive]
  /\ mail \in [Call -> Mails]
  /\ kills \in [Call -> {0, 1}]
  /\ cut \in [on : BOOLEAN, at : Nat, done : 0..Calls]

\* A call is not out for longer than the script's budget and the grace, even
\* when the script never gives the thread up.
AnswerInTime == \A c \in Call : Pending(c) => now <= began[c] + TimeoutMs + GraceMs

\* A run that is cut is over after a time that is known, although nothing cuts
\* the calls: each that was left takes at most the budget and the grace.
OverrunBounded ==
  cut.on => \A c \in Call : Pending(c) => now <= cut.at + (c - cut.done) * (TimeoutMs + GraceMs)

\* worker.terminate() runs exactly once for a call that had a worker, and only
\* when the call is answered (the comment on finish).
TerminatedOnce ==
  \A c \in Call : kills[c] = IF thread[c] # "none" /\ answer[c] # "none" THEN 1 ELSE 0

\* A thread runs on behalf of the call that is out, or has been told to stop:
\* none is forgotten, however many evaluations there were.
NoThreadForgotten ==
  \A c \in Call : thread[c] \in Alive =>
    kills[c] = 1 \/ (Pending(c) /\ \A d \in Call : thread[d] \in Alive /\ kills[d] = 0 => d = c)

\* A verdict that was posted is the answer: the exit that follows it does not
\* turn it into an error, only a watchdog that is due does.
ScriptIsHeard ==
  [][\A c \in Call : answer[c] = "none" /\ answer'[c] = "error" /\ mail[c] = Replied =>
       now >= began[c] + TimeoutMs + GraceMs]_vars

InTurn == INSTANCE SerialCalls WITH
  Count <- Calls, Answers <- {"script", "error"}, Cut <- "cut", Open <- "none",
  told <- answer, out <- {c \in Call : Pending(c)}, over <- FALSE

\* To the probe that awaits them, evaluations are calls in turn: what an earlier
\* thread still sends answers no later call and no call twice.  No signal is
\* heeded: evaluate() takes none.
AnswersInTurn == InTurn!Spec

\* Every call is answered and its thread ends, whatever the script does: no
\* thread keeps the process from exiting.
EveryThreadEnds ==
  \A c \in Call : thread[c] \in Alive ~> thread[c] = "dead" /\ answer[c] # "none"
=============================================================================
