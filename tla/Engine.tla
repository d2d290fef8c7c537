------------------------------- MODULE Engine -------------------------------
(***************************************************************************)
(* One run of `portcall check`: cli/main.ts, engine/index.ts and, of each  *)
(* probe, what the engine depends on - which checks it runs at once, what  *)
(* an abort does to them, and how a throw ends it.                         *)
(*                                                                         *)
(* The probes run one after the other.  dns, egress and tls fan out over a *)
(* Promise.all, so a check that throws ends its probe while its siblings   *)
(* are still running; the siblings' results go nowhere, but a tls sibling  *)
(* still pushes into the array of observed anchors that truststore reads.  *)
(*                                                                         *)
(* A check that begins when the run is over is cut, but not before it has  *)
(* started a lookup whose promise nobody handles: raceAbort throws before  *)
(* it looks at the promise it was given.  When such a lookup fails, the    *)
(* rejection is unhandled and ends the process with exit code 1, whatever  *)
(* it was at.                                                              *)
(***************************************************************************)
EXTENDS Integers, Sequences, FiniteSets

CONSTANTS
  Hosts,     \* what the dns probe checks: distinct hosts and DoH resolvers
  Endpoints, \* what egress checks
  Targets,   \* what tls checks: distinct hosts on port 443
  Verdicts   \* the severities that each check may come to

VARIABLES
  stage,    \* "loading", "probing", "writing", "done" or "died"
  cur,      \* index in Probes of the probe that is running or comes next
  begun,    \* has probe.run been called for it
  armed, aborted, \* the run's timer and its signal
  work,     \* what became of each check
  proxied,  \* does the environment name a proxy for the tls captures
  leg,      \* the two captures of each tls target
  anchors,  \* observedAnchors, as a set of <<target, path>>
  reading,  \* which stores truststore is at: "none", "os", "runtime", "all", or
            \* "held": the child that reads the OS store left its output pipe to another
  seen,     \* the anchors the cross-check read
  findings, \* the engine's array, as a set of records
  exit,     \* the exit code, or NoExit
  loose     \* is a lookup out whose promise nobody handles

vars == <<stage, cur, begun, armed, aborted, work, proxied, leg, anchors, reading, seen,
          findings, exit, loose>>
runVars == <<stage, cur, begun, armed, aborted, findings, exit, loose>>
-----------------------------------------------------------------------------
\* Slip: truststore registered before tls.
TrustStoreEarly == <<"dns", "egress", "proxy", "truststore", "tls">>
Probes == <<"dns", "egress", "proxy", "tls", "truststore">>

Checks == Hosts \cup Endpoints \cup Targets \cup {"proxy", "truststore"}
ChecksOf(p) == CASE p = "dns"        -> Hosts
                 [] p = "egress"     -> Endpoints
                 [] p = "tls"        -> Targets
                 [] p = "proxy"      -> {"proxy"}
                 [] p = "truststore" -> {"truststore"}
NoExit == -1 \* the program is still running
Names == {"dns", "egress", "proxy", "tls", "truststore"}

ASSUME ChecksAssumption ==
  /\ Hosts \cap Endpoints = {} /\ Hosts \cap Targets = {} /\ Endpoints \cap Targets = {}
  /\ Names \cap (Hosts \cup Endpoints \cup Targets) = {}

Severity == {"blocker", "degraded", "unknown", "ok"}
ASSUME VerdictsAssumption ==
  \A c \in Checks : Verdicts[c] \subseteq Severity /\ "unknown" \in Verdicts[c]

Paths == {"direct", "proxy"}
\* `captureFailed`, `aborted` of dns and of egress: what was cut is `unknown`.
CutSeverity == "unknown"

Alive == stage # "died"
Running(c) == work[c] = "running"
\* Slip: a capture that was cut answers all the same.
LegOut(t, p) == leg[t][p] \in {"pending", "cut"}
LegPending(t, p) == leg[t][p] = "pending"
Current == Probes[cur]
Probing == stage = "probing" /\ cur <= Len(Probes) /\ begun
\* Checks of a probe that has not been waited for to the end.
Stragglers == {c \in Checks : Alive /\ Running(c) /\ ~(Probing /\ c \in ChecksOf(Current))}

Init ==
  /\ stage = "loading" /\ cur = 1 /\ begun = FALSE
  /\ armed = FALSE /\ aborted = FALSE
  /\ work = [c \in Checks |-> "idle"]
  /\ proxied \in BOOLEAN
  /\ leg = [t \in Targets |-> [p \in Paths |-> "idle"]]
  /\ anchors = {} /\ reading = "none" /\ seen = {}
  /\ findings = {} /\ exit = NoExit /\ loose = FALSE

\* loadProfile, and the first lines of run(): the timer starts with the probes.
LoadProfile ==
  /\ stage = "loading"
  /\ \/ stage' = "probing" /\ armed' = TRUE /\ UNCHANGED exit
     \/ stage' = "done" /\ exit' = 3 /\ UNCHANGED armed
  /\ UNCHANGED <<cur, begun, aborted, work, proxied, leg, anchors, reading, seen, findings, loose>>

\* A check of a network probe on a run that is over is cut in its first phase.
Entering(p) == IF aborted /\ p \in {"dns", "egress"} THEN CutSeverity ELSE "running"
\* Slip: the captures of a run that is over wait for the network all the same.
LegEnteringAnyway(path) == IF path = "proxy" /\ ~proxied THEN "absent" ELSE "pending"
LegEntering(path) == IF path = "proxy" /\ ~proxied THEN "absent"
                     ELSE IF aborted THEN "cut" ELSE "pending"

\* Slip: the race leaves every lookup without a handler, not only that of a run that is over.
StrandsEveryLookup(p, refused) == p \in {"dns", "egress", "tls"} /\ ChecksOf(p) # refused
\* The lookup of that first phase has been started all the same, and nobody handles it.
StrandsLookup(p, refused) == aborted /\ p \in {"dns", "egress", "tls"} /\ ChecksOf(p) # refused

\* A check whose host the guard refuses throws before it looks at the signal or looks up.
BeginProbe ==
  /\ stage = "probing" /\ cur <= Len(Probes) /\ ~begun
  /\ begun' = TRUE
  /\ \E refused \in SUBSET (ChecksOf(Current) \ {"proxy", "truststore"}) :
       /\ work' = [c \in Checks |-> IF c \in refused THEN "threw"
                                    ELSE IF c \in ChecksOf(Current) THEN Entering(Current)
                                    ELSE work[c]]
       /\ leg' = IF Current # "tls" THEN leg
                 ELSE [t \in Targets |-> [p \in Paths |->
                        IF t \in refused /\ LegEntering(p) # "absent" THEN "threw" ELSE LegEntering(p)]]
       /\ loose' = (loose \/ StrandsLookup(Current, refused))
  /\ reading' = IF Current = "truststore" THEN "os" ELSE reading
  /\ UNCHANGED <<stage, cur, armed, aborted, proxied, anchors, seen, findings, exit>>

\* A check of dns, egress or proxy comes to its finding, or throws.
Answer(c) ==
  /\ c \in Hosts \cup Endpoints \cup {"proxy"}
  /\ Alive /\ Running(c)
  /\ \E r \in Verdicts[c] \cup {"threw"} : work' = [work EXCEPT ![c] = r]
  /\ UNCHANGED <<runVars, proxied, leg, anchors, reading, seen>>

\* The proxy probe goes on when the run is over, to a script, a name or a tunnel: each
\* begins with a lookup that nobody handles.
ProxyGoesOn ==
  /\ Alive /\ Running("proxy") /\ aborted
  /\ loose' = TRUE
  /\ UNCHANGED <<stage, cur, begun, armed, aborted, work, proxied, leg, anchors, reading, seen, findings, exit>>

\* Such a lookup answers, the last of them, or it fails.  The process lives on for it
\* after main has returned, and dies of it even then.
LooseAnswers ==
  /\ Alive /\ loose
  /\ loose' = FALSE
  /\ UNCHANGED <<stage, cur, begun, armed, aborted, work, proxied, leg, anchors, reading, seen, findings, exit>>

LooseFails ==
  /\ Alive /\ loose
  /\ stage' = "died" /\ exit' = 1 /\ loose' = FALSE
  /\ UNCHANGED <<cur, begun, armed, aborted, work, proxied, leg, anchors, reading, seen, findings>>

\* One capture of a tls target settles; a chain to a private or an indeterminate
\* root is an anchor to observe, a public one and a failure are not.
LegAnswers(t, p) ==
  /\ Alive /\ LegPending(t, p)
  /\ \E o \in {"anchor", "other"} : leg' = [leg EXCEPT ![t][p] = o]
  /\ UNCHANGED <<runVars, work, proxied, anchors, reading, seen>>

LegThrows(t, p) ==
  /\ Alive /\ LegPending(t, p)
  /\ leg' = [leg EXCEPT ![t][p] = "threw"]
  /\ work' = [work EXCEPT ![t] = "threw"]
  /\ UNCHANGED <<runVars, proxied, anchors, reading, seen>>

\* Slip: checkTarget waits for a proxied capture that was never made.
LegsInForever(t) == \A p \in Paths : leg[t][p] \in {"anchor", "other", "cut"}
LegsIn(t) == \A p \in Paths : leg[t][p] \in {"anchor", "other", "cut", "absent"}
AnchorsOf(t) == {<<t, p>> : p \in {q \in Paths : leg[t][q] = "anchor"}}

\* checkTarget after its Promise.all: the paths are judged in order, each
\* pushing its anchor before the next is looked at.
CheckTarget(t) ==
  /\ Alive /\ Running(t) /\ LegsIn(t)
  /\ \/ /\ anchors' = anchors \cup AnchorsOf(t)
        /\ \E s \in Verdicts[t] :
             /\ (\E p \in Paths : leg[t][p] = "cut") => s # "ok"
             /\ work' = [work EXCEPT ![t] = s]
     \/ /\ anchors' \in {anchors, anchors \cup (AnchorsOf(t) \ {<<t, "proxy">>})}
        /\ work' = [work EXCEPT ![t] = "threw"]
  /\ UNCHANGED <<runVars, proxied, leg, reading, seen>>

\* runTruststore: the two readers one after the other, then the cross-check.
ReadsFrom(store) ==
  /\ Alive /\ Running("truststore") /\ reading = store
  /\ \/ reading' = (IF store = "runtime" THEN "all" ELSE "runtime") /\ UNCHANGED work
     \/ work' = [work EXCEPT !["truststore"] = "threw"] /\ UNCHANGED reading
  /\ UNCHANGED <<runVars, proxied, leg, anchors, seen>>
ReadStores == ReadsFrom("os") \/ ReadsFrom("runtime")

\* The OS reader waits for `close`, which does not come while a descendant of its child
\* holds the output: no timer and no signal ends that wait.  On a run that is over no
\* child is started.
PipeHeld ==
  /\ Alive /\ Running("truststore") /\ reading = "os" /\ ~aborted
  /\ reading' = "held"
  /\ UNCHANGED <<runVars, work, proxied, leg, anchors, seen>>
PipeReleased == ReadsFrom("held")

CrossCheck ==
  /\ Alive /\ Running("truststore") /\ reading = "all"
  /\ seen' = anchors
  /\ \E r \in Verdicts["truststore"] \cup {"threw"} : work' = [work EXCEPT !["truststore"] = r]
  /\ UNCHANGED <<runVars, proxied, leg, anchors, reading>>

\* The run's timer.  Every capture, attempt and lookup that is out is cut at
\* once; the proxy and truststore probes go on to their own next step.
Expire ==
  /\ Alive /\ armed /\ ~aborted
  /\ aborted' = TRUE
  /\ work' = [c \in Checks |-> IF c \in Hosts \cup Endpoints /\ Running(c) THEN CutSeverity ELSE work[c]]
  /\ leg' = [t \in Targets |-> [p \in Paths |-> IF LegPending(t, p) THEN "cut" ELSE leg[t][p]]]
  /\ UNCHANGED <<stage, cur, begun, armed, proxied, anchors, reading, seen, findings, exit, loose>>

Finding(c, s) == [from |-> c, severity |-> s]

\* Slip: the fan-out settles with the first of its checks.
FirstIn(p) == (\E c \in ChecksOf(p) : work[c] \in Severity) \/ ChecksOf(p) = {}
AllIn(p) == \A c \in ChecksOf(p) : work[c] \in Severity

ProbeReturns ==
  /\ Probing /\ AllIn(Current)
  /\ findings' = findings \cup {Finding(c, work[c]) : c \in ChecksOf(Current)}
  /\ cur' = cur + 1 /\ begun' = FALSE
  /\ UNCHANGED <<stage, armed, aborted, work, proxied, leg, anchors, reading, seen, exit, loose>>

\* The catch of runProbe: one `unknown` finding stands for the whole probe.
ProbeThrows ==
  /\ Probing /\ \E c \in ChecksOf(Current) : work[c] = "threw"
  /\ findings' = findings \cup {Finding(Current, "unknown")}
  /\ cur' = cur + 1 /\ begun' = FALSE
  /\ UNCHANGED <<stage, armed, aborted, work, proxied, leg, anchors, reading, seen, exit, loose>>

\* clearTimeout, then assertRemediable over every finding, which may throw out of
\* run() and end the program, then the sort and the summary.
FinishProbes ==
  /\ stage = "probing" /\ cur > Len(Probes)
  /\ armed' = FALSE
  /\ \/ stage' = "writing" /\ UNCHANGED exit
     \/ stage' = "done" /\ exit' = 3
  /\ UNCHANGED <<cur, begun, aborted, work, proxied, leg, anchors, reading, seen, findings, loose>>

Said(s) == \E f \in findings : f.severity = s
RollUp == IF Said("blocker") THEN "blocker"
          ELSE IF Said("degraded") THEN "degraded"
          ELSE IF Said("unknown") THEN "unknown" ELSE "ok"

\* Slip: what could not be decided passes.
ExitCodeLenient(s) == CASE s = "blocker" -> 2 [] s = "degraded" -> 1 [] OTHER -> 0
ExitCodeFor(s) == CASE s = "blocker" -> 2
                    [] s \in {"degraded", "unknown"} -> 1
                    [] s = "ok" -> 0

\* The report goes to stdout or to a file, which may refuse it.
WriteReport ==
  /\ stage = "writing"
  /\ stage' = "done"
  /\ exit' \in {ExitCodeFor(RollUp), 3}
  /\ UNCHANGED <<cur, begun, armed, aborted, work, proxied, leg, anchors, reading, seen, findings, loose>>

RunStep == LoadProfile \/ BeginProbe \/ ProbeReturns \/ ProbeThrows \/ FinishProbes \/ WriteReport
CheckStep == \/ \E c \in Checks : Answer(c)
             \/ \E t \in Targets : CheckTarget(t) \/ \E p \in Paths : LegAnswers(t, p) \/ LegThrows(t, p)
             \/ ReadStores \/ PipeHeld \/ PipeReleased \/ CrossCheck
LooseStep == ProxyGoesOn \/ LooseAnswers \/ LooseFails

Next == RunStep \/ CheckStep \/ Expire \/ LooseStep
Spec == Init /\ [][Next]_vars

\* Every call of a seam settles (NetSeam), the readers come back unless the pipe of one is
\* held (OsTrustStore), and what is ready to run is run.  The deadline is not relied on,
\* nor that a held pipe is let go, nor that a loose lookup answers or fails.
LiveSpec == /\ Spec
            /\ WF_vars(RunStep)
            /\ \A c \in Checks : WF_vars(Answer(c))
            /\ \A t \in Targets :
                 /\ WF_vars(CheckTarget(t))
                 /\ \A p \in Paths : WF_vars(LegAnswers(t, p) \/ LegThrows(t, p))
            /\ WF_vars(ReadStores) /\ WF_vars(CrossCheck)
-----------------------------------------------------------------------------
LegStates == {"idle", "absent", "pending", "anchor", "other", "cut", "threw"}
TypeOK ==
  /\ stage \in {"loading", "probing", "writing", "done", "died"}
  /\ cur \in 1..6 /\ begun \in BOOLEAN /\ armed \in BOOLEAN /\ aborted \in BOOLEAN
  /\ proxied \in BOOLEAN
  /\ work \in [Checks -> Severity \cup {"idle", "running", "threw"}]
  /\ leg \in [Targets -> [Paths -> LegStates]]
  /\ anchors \subseteq Targets \X Paths /\ seen \subseteq Targets \X Paths
  /\ reading \in {"none", "os", "held", "runtime", "all"}
  /\ findings \subseteq [from : Checks \cup Names, severity : Severity]
  /\ exit \in {NoExit, 0, 1, 2, 3} /\ loose \in BOOLEAN

-----------------------------------------------------------------------------
(***************************************************************************)
(* Properties.                                                             *)
(***************************************************************************)
Errored(p) == Finding(p, "unknown") \in findings /\ \E c \in ChecksOf(p) : work[c] = "threw"

SaidOf(p) == {f \in findings : f.from \in ChecksOf(p) \cup {p}}
Accounted(p) == \/ SaidOf(p) = {Finding(c, work[c]) : c \in ChecksOf(p)} /\ AllIn(p)
                \/ SaidOf(p) = {Finding(p, "unknown")} /\ \E c \in ChecksOf(p) : work[c] = "threw"

\* Every check the profile asks for is accounted for in a report: it is there
\* with the very result it came to, or its whole probe is there as an error and
\* none of that probe's partial results are.
ReportIsComplete == stage \in {"writing", "done"} /\ exit # 3 => \A p \in Names : Accounted(p)

\* Exit 0 says that every check ran to an `ok`: none threw, none was cut by the
\* deadline, not even in one of its two captures.
ExitCodeHonest == exit = 0 =>
  /\ \A c \in Checks : work[c] = "ok"
  /\ \A t \in Targets, p \in Paths : leg[t][p] \notin {"cut", "threw"}

\* What the cross-check reads is what tls saw, all of it, unless tls failed, and
\* nothing is pushed after it has been read.
AnchorsComplete == reading = "all" /\ ~Running("truststore") /\ ~Errored("tls") =>
  seen = anchors /\ anchors = UNION {AnchorsOf(t) : t \in Targets}

\* A run that is over waits for no network: no lookup, attempt or capture is out that a
\* check waits for, and none that a failed probe left behind either.  (What is out that
\* nobody waits for is `loose`.)
NothingOutlivesTheDeadline == aborted =>
  /\ \A c \in Hosts \cup Endpoints : ~Running(c)
  /\ \A t \in Targets, p \in Paths : ~LegPending(t, p)

\* Nothing that was found out is taken back: a check and a capture keep what they came to,
\* whatever the deadline, a sibling that throws or an answer that is late does; no probe
\* runs twice or out of its turn; findings and anchors are only added; the exit code stands,
\* unless the process dies of a loose lookup after it was set.
NothingTakenBack ==
  [][/\ \A c \in Checks : work[c] \notin {"idle", "running"} => work'[c] = work[c]
     /\ \A t \in Targets, p \in Paths : leg[t][p] \notin {"idle", "pending"} => leg'[t][p] = leg[t][p]
     /\ cur <= cur' /\ (cur' = cur /\ begun => begun')
     /\ findings \subseteq findings' /\ anchors \subseteq anchors'
     /\ aborted => aborted'
     /\ exit # NoExit => exit' = exit \/ (loose /\ stage' = "died")]_vars

\* A check that runs can come to something: a capture of it is out or they are all in, the
\* stores are being read (or the output of a reader is held: RunEnds tells that case apart).
Awaited(c) == /\ Running(c)
              /\ c \in Targets => LegsIn(c) \/ \E p \in Paths : LegPending(c, p)
              /\ c = "truststore" => reading # "none"

\* A probe that has begun waits for nothing that cannot come.
NeverStuck == Probing =>
  \A c \in ChecksOf(Current) : work[c] \in Severity \cup {"threw"} \/ Awaited(c)

\* The run as its report and its exit code tell it: what a check has come to stands only
\* from its result on, and a probe is in the report from the moment the next one is up.
Contract == INSTANCE RunContract WITH
  Count <- Len(Probes), Name <- Probes,
  Part <- [i \in 1..Len(Probes) |-> ChecksOf(Probes[i])],
  Verdict <- Severity, Open <- "open", Untold <- NoExit,
  result <- [c \in Checks |-> IF work[c] \in {"idle", "running"} THEN "open" ELSE work[c]],
  entered <- cur - 1, report <- findings, overdue <- aborted, adrift <- loose,
  gone <- stage = "died"

\* Every step of the engine, of a check, of the deadline and of a lookup that nobody handles
\* keeps what a run promises: the probes are reported in order and whole, no result changes,
\* none is early, none that is late is in the report, and the exit code is the worst of the
\* report or says there is none - or the process has died, with 1, of a lookup that a network
\* probe began after the deadline, and at no other time and of nothing else.
KeepsContract == Contract!Spec

\* What still runs when its probe is over belongs to a probe that failed.
StragglersBelongToErrors == \A c \in Stragglers : \E p \in Names : c \in ChecksOf(p) /\ Errored(p)

\* The run ends with an exit code, whoever throws and whenever, unless the output of the
\* child that reads the OS store is held for good: then nothing ends it, not the deadline.
RunEnds == <>(stage \in {"done", "died"} /\ exit # NoExit) \/ <>[](reading = "held")
=============================================================================
