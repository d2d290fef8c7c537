---------------------------- MODULE Reachability ----------------------------
(***************************************************************************)
(* Does every host resolve, and can every endpoint be reached:             *)
(* probes/dns/index.ts and probes/egress/index.ts, the first two of the    *)
(* registry.  Each asks about everything at once; one runs after the       *)
(* other.                                                                  *)
(*                                                                         *)
(* All of their lookups are getaddrinfo calls, which a pool of few threads *)
(* serves.  A lookup that was given up holds its thread until the resolver *)
(* answers, and one that finds no thread free waits while its timer runs.  *)
(* The threads are Node's: they take what waits, in any order.             *)
(*                                                                         *)
(* What names and endpoints are like does not change during the run.  The  *)
(* sockets of an attempt are NetSeam's subject; here it has phases, each   *)
(* with a timer.                                                           *)
(***************************************************************************)
EXTENDS Integers, Sequences, FiniteSets

CONSTANTS
  Declared,      \* the endpoints of the profile, in order
  Resolvers,     \* doh_resolvers, in order
  Workers,       \* how many lookups the pool serves at once
  ConnectBudget, \* DNS_TIMEOUT_MS and the connectTimeoutMs of both probes
  TlsBudget, HttpBudget,
  SlowAfter,     \* SLOW_RESOLUTION_MS
  Worlds,        \* the networks
  MaxTime        \* bound on the clock, for model checking

VARIABLES
  world,   \* what the network is like
  now, aborted, \* the clock, and the run's signal
  stage,   \* the probe that runs
  started, \* when each probe was started
  lookup,  \* for each call, its lookup in the pool
  until,   \* when the resolver answers it
  phase,   \* how far the call has come
  since,   \* when that phase began
  result   \* what it came to

poolVars == <<lookup, until>>
callVars == <<phase, since, result>>
vars == <<world, now, aborted, stage, started, poolVars, callVars>>
-----------------------------------------------------------------------------
\* distinctHosts: one lookup for a host, however many endpoints it has.
Lookups   == {[kind |-> "resolve", host |-> Declared[i].host, at |-> 0] : i \in DOMAIN Declared}
DohChecks == {[kind |-> "doh", host |-> Resolvers[i], at |-> i] : i \in DOMAIN Resolvers}
Reaches   == {[kind |-> "egress", host |-> Declared[i].host, at |-> i] : i \in DOMAIN Declared}
Attempts == DohChecks \cup Reaches
Call == Lookups \cup Attempts

Probes == {"dns", "egress"}
ProbeOf(c) == IF c.kind = "egress" THEN "egress" ELSE "dns"

\* required of a host: any endpoint on it.
Required(c) ==
  IF c.kind = "egress" THEN Declared[c.at].required
  ELSE c.kind = "resolve" /\ \E i \in DOMAIN Declared : Declared[i].host = c.host /\ Declared[i].required

UsesTls(c)  == c.kind = "doh" \/ (c.kind = "egress" /\ Declared[c.at].port = 443)
UsesHttp(c) == UsesTls(c) \/ (c.kind = "egress" /\ Declared[c.at].port = 80)
InFlight == {"dns", "connect", "tls", "http"}
\* What follows a phase that went well.
After(c, p) ==
  IF p = "dns" /\ c.kind # "resolve" THEN "connect"
  ELSE IF p = "connect" /\ UsesTls(c) THEN "tls"
  ELSE IF p \in {"connect", "tls"} /\ UsesHttp(c) THEN "http" ELSE "ok"

\* Classes of codes: EAI_AGAIN and ETIMEOUT are "again", SERVFAIL and REFUSED
\* "servfail", and "null" is a failure without one.
NameCodes == {"notFound", "noRecord", "again", "timedOut", "servfail", "other", "null"}
PathCodes == {"refused", "unreachable", "timedOut", "reset", "cert", "protocol", "other", "null"}
Answer == [code : NameCodes \cup {"ok"}, takes : Nat,
           addresses : SUBSET {"public", "private", "sinkhole", "malformed"}]
\* The phase an attempt ends in, and how; a phase may as well never answer.
\* "intermediary" is an answer with a status no origin gives.
Way == [phase : {"connect", "tls", "http"}, sign : PathCodes \cup {"silent"}]
       \cup [phase : {"ok"}, sign : {"null", "intermediary"}]
World == [name : [{c.host : c \in Call} -> Answer], path : [Attempts -> Way]]

CanReach(c, p) ==
  p \in {"connect", "ok"} \/ (p = "tls" /\ UsesTls(c)) \/ (p = "http" /\ UsesHttp(c))

ASSUME ReachabilityAssumption ==
  /\ Declared \in Seq([host : STRING, port : Nat, required : BOOLEAN])
  /\ Resolvers \in Seq(STRING)
  /\ Workers \in Nat \ {0} /\ MaxTime \in Nat
  /\ {ConnectBudget, TlsBudget, HttpBudget, SlowAfter} \subseteq Nat \ {0}
  /\ Worlds \subseteq World /\ \A w \in Worlds, c \in Attempts : CanReach(c, w.path[c].phase)

Name(c) == world.name[c.host]
\* The dns phase of an attempt borrows the connect budget.
Budget(p) == IF p = "tls" THEN TlsBudget ELSE IF p = "http" THEN HttpBudget ELSE ConnectBudget

Result(p, code, by, waited) == [phase |-> p, code |-> code, by |-> by, waited |-> waited]
Unasked == Result("none", "null", "none", 0)
-----------------------------------------------------------------------------
Init ==
  /\ world \in Worlds
  /\ now = 0 /\ aborted = FALSE
  /\ stage = "start" /\ started = [p \in Probes |-> 0]
  /\ lookup = [c \in Call |-> "none"] /\ until = [c \in Call |-> 0]
  /\ phase = [c \in Call |-> "none"] /\ since = [c \in Call |-> 0]
  /\ result = [c \in Call |-> Unasked]

Idle == \A c \in Call : phase[c] \notin InFlight
Turn(p) == IF p = "dns" THEN stage = "start" ELSE stage = "dns" /\ Idle

\* Every call of the probe up to its first await.  On a run that is over the
\* lookup is started all the same, and the call is cut there and then.
Begin(p) ==
  /\ Turn(p)
  /\ stage' = p /\ started' = [started EXCEPT ![p] = now]
  /\ lookup' = [c \in Call |-> IF ProbeOf(c) = p THEN "queued" ELSE lookup[c]]
  /\ phase'  = [c \in Call |-> IF ProbeOf(c) # p THEN phase[c] ELSE IF aborted THEN "over" ELSE "dns"]
  /\ since'  = [c \in Call |-> IF ProbeOf(c) = p THEN now ELSE since[c]]
  /\ result' = [c \in Call |-> IF ProbeOf(c) = p /\ aborted
                               THEN Result("dns", "null", "run-signal", 0) ELSE result[c]]
  /\ UNCHANGED <<world, now, aborted, until>>

\* A thread takes a lookup, whether or not anyone still waits for it.
Asked == {c \in Call : lookup[c] = "asked"}
CanTake(c) == lookup[c] = "queued" /\ Cardinality(Asked) < Workers
TakeUp(c) ==
  /\ CanTake(c)
  /\ lookup' = [lookup EXCEPT ![c] = "asked"]
  /\ until' = [until EXCEPT ![c] = now + Name(c).takes]
  /\ UNCHANGED <<world, now, aborted, stage, started, callVars>>

Settle(c, p, code, by) ==
  /\ phase' = [phase EXCEPT ![c] = "over"]
  /\ result' = [result EXCEPT ![c] = Result(p, code, by, now - since[c])]
  /\ UNCHANGED since
GoOn(c, p) ==
  /\ phase' = [phase EXCEPT ![c] = p]
  /\ since' = [since EXCEPT ![c] = now]
  /\ UNCHANGED result

\* What the answer is to the call that waits for it.
Resolved(c) ==
  IF Name(c).code # "ok" THEN Settle(c, "dns", Name(c).code, "none")
  ELSE IF c.kind = "resolve" THEN Settle(c, "ok", "null", "none")
  ELSE IF Name(c).addresses = {} THEN Settle(c, "dns", "noRecord", "none")
  ELSE GoOn(c, "connect")

\* The resolver answers, and the thread is free.
Answerable(c) == lookup[c] = "asked" /\ until[c] <= now
Answers(c) ==
  /\ Answerable(c)
  /\ lookup' = [lookup EXCEPT ![c] = "answered"]
  /\ IF phase[c] = "dns" THEN Resolved(c) ELSE UNCHANGED callVars
  /\ UNCHANGED <<world, now, aborted, stage, started, until>>

\* The network answers the phase the attempt is in, sooner or later.
Travels(c) ==
  /\ c \in Attempts /\ phase[c] \in {"connect", "tls", "http"}
  /\ LET way == world.path[c] IN
     IF way.phase = phase[c] THEN way.sign # "silent" /\ Settle(c, phase[c], way.sign, "none")
     ELSE IF After(c, phase[c]) # "ok" THEN GoOn(c, After(c, phase[c]))
     ELSE Settle(c, "ok", IF way.sign = "intermediary" THEN way.sign ELSE "null", "none")
  /\ UNCHANGED <<world, now, aborted, stage, started, poolVars>>

\* Slip: only the phases of a socket have a timer.
TimerDueOnSockets(c) == phase[c] \in InFlight \ {"dns"} /\ since[c] + Budget(phase[c]) <= now
\* Slip: the timers of a probe count from the start of the run.
TimerDueEarly(c) == phase[c] \in InFlight /\ since[c] - started[ProbeOf(c)] + Budget(phase[c]) <= now
TimerDue(c) == phase[c] \in InFlight /\ since[c] + Budget(phase[c]) <= now
PhaseTimeout(c) ==
  /\ TimerDue(c)
  /\ Settle(c, phase[c], "null", "phase-timeout")
  /\ UNCHANGED <<world, now, aborted, stage, started, poolVars>>

\* Slip: a lookup that nobody races with the run signal.
RunAbortOnSockets ==
  /\ ~aborted /\ aborted' = TRUE
  /\ phase' = [c \in Call |-> IF phase[c] \in InFlight \ {"dns"} THEN "over" ELSE phase[c]]
  /\ result' = [c \in Call |-> IF phase[c] \in InFlight \ {"dns"}
                               THEN Result(phase[c], "null", "run-signal", now - since[c]) ELSE result[c]]
  /\ UNCHANGED <<world, now, stage, started, poolVars, since>>
\* The deadline cuts what is out, in whatever phase.
RunAbort ==
  /\ ~aborted /\ aborted' = TRUE
  /\ phase' = [c \in Call |-> IF phase[c] \in InFlight THEN "over" ELSE phase[c]]
  /\ result' = [c \in Call |-> IF phase[c] \in InFlight
                               THEN Result(phase[c], "null", "run-signal", now - since[c]) ELSE result[c]]
  /\ UNCHANGED <<world, now, stage, started, poolVars, since>>

End ==
  /\ stage = "egress" /\ Idle
  /\ stage' = "done"
  /\ UNCHANGED <<world, now, aborted, started, poolVars, callVars>>

\* Timers, threads and probes whose turn it is do not wait.
Tick ==
  /\ now < MaxTime /\ stage \in Probes /\ ~Idle
  /\ \A c \in Call : ~TimerDue(c) /\ ~CanTake(c) /\ ~Answerable(c)
  /\ now' = now + 1
  /\ UNCHANGED <<world, aborted, stage, started, poolVars, callVars>>

Next ==
  \/ \E p \in Probes : Begin(p)
  \/ \E c \in Call : TakeUp(c) \/ Answers(c) \/ Travels(c) \/ PhaseTimeout(c)
  \/ RunAbort \/ End \/ Tick

\* The clock moves, timers fire, threads take and deliver what they can; nothing
\* is asked of the network.
Fairness ==
  /\ WF_vars(Tick) /\ WF_vars(End) /\ \A p \in Probes : WF_vars(Begin(p))
  /\ \A c \in Call : WF_vars(TakeUp(c)) /\ WF_vars(Answers(c)) /\ WF_vars(PhaseTimeout(c))
Spec == Init /\ [][Next]_vars /\ Fairness
-----------------------------------------------------------------------------
(* The findings. *)

Finding(id, severity, why) == [id |-> id, severity |-> severity, why |-> why]
\* cap: an optional endpoint is never a blocker; what is unknown stays unknown.
Cap(severity, required) == IF severity = "blocker" /\ ~required THEN "degraded" ELSE severity
Blocker(c, id, why) == Finding(id, Cap("blocker", Required(c)), why)

\* classifyResolveFailure
ResolveFailure(r) ==
  IF r.code = "notFound" THEN "name-not-found" ELSE IF r.code = "noRecord" THEN "no-address-records"
  ELSE IF r.code \in {"again", "timedOut"} THEN "resolver-timeout"
  ELSE IF r.code = "servfail" THEN "resolver-refused"
  ELSE IF r.by = "phase-timeout" THEN "resolver-timeout" ELSE "unclassified"

\* verdict of probes/dns: a block address counts before an internal one.
ResolveVerdict(c) ==
  LET r == result[c] addresses == Name(c).addresses IN
  IF r.by = "run-signal" THEN Finding("dns.aborted", "unknown", "")
  ELSE IF r.phase # "ok" THEN Blocker(c, "dns.resolve-failed", ResolveFailure(r))
  ELSE IF addresses = {} THEN Blocker(c, "dns.resolve-failed", "no-address-records")
  ELSE IF "sinkhole" \in addresses THEN Blocker(c, "dns.sinkholed", "")
  ELSE IF "private" \in addresses THEN Finding("dns.split-horizon", "degraded", "")
  ELSE Finding("dns.resolved", "ok", "")

IsSlow(r) == r.phase = "ok" /\ r.waited >= SlowAfter
SlowResolution(c) ==
  IF IsSlow(result[c]) THEN {Finding("dns.slow-resolution", "degraded", "")} ELSE {}

\* Slip: a check that was cut read as a resolver that is blocked.
EvaluateDohUnchecked(r) ==
  IF r.phase \in {"ok", "http"} THEN "reachable"
  ELSE IF r.phase = "tls" THEN "blocked-tls-failed"
  ELSE IF r.by = "phase-timeout" THEN "blocked-timeout" ELSE "blocked-failed"
\* evaluateDoh: what follows the handshake is another question.
EvaluateDoh(r) ==
  IF r.phase = "ok" THEN "reachable"
  ELSE IF r.by = "run-signal" THEN "indeterminate-deadline"
  ELSE IF r.phase = "http" THEN "reachable" ELSE IF r.phase = "tls" THEN "blocked-tls-failed"
  ELSE IF r.by = "phase-timeout" THEN "blocked-timeout" ELSE "blocked-failed"
DohVerdict(c) ==
  LET outcome == EvaluateDoh(result[c]) IN
  IF outcome = "reachable" THEN Finding("dns.doh-reachable", "ok", "")
  ELSE IF outcome = "indeterminate-deadline" THEN Finding("dns.doh-indeterminate", "unknown", "")
  ELSE Finding("dns.doh-blocked", "degraded", IF outcome = "blocked-timeout" THEN result[c].phase ELSE "")

\* Slip: any failure of the dns phase a name that does not resolve.
IsDnsFailureByPhase(r) == r.phase = "dns"
IsDnsFailure(r) == r.phase = "dns" /\ r.code \in {"notFound", "noRecord", "again", "servfail"}
\* classifyAttempt and classifyStatus
EgressClass(r) ==
  IF r.phase = "ok" THEN IF r.code = "intermediary" THEN "http" ELSE "ok"
  ELSE IF IsDnsFailure(r) THEN "dns"
  ELSE IF r.code \in {"refused", "unreachable"} THEN r.code
  ELSE IF r.by = "phase-timeout" \/ r.code = "timedOut" THEN "timeout"
  ELSE IF r.phase \in {"connect", "http"} /\ r.code = "reset" THEN "reset"
  ELSE IF r.phase = "tls" /\ r.code \in {"reset", "cert"} THEN "tls"
  ELSE IF r.phase = "http" /\ r.code = "protocol" THEN "http"
  ELSE "unclassified"

FailureId(class) ==
  CASE class = "dns" -> "egress.dns-failure" [] class = "refused" -> "egress.connect-refused"
    [] class = "unreachable" -> "egress.connect-unreachable" [] class = "timeout" -> "egress.connect-timeout"
    [] class = "reset" -> "egress.connection-reset" [] class = "tls" -> "egress.tls-failure"
    [] class = "http" -> "egress.http-error"
\* judge: a cut attempt is no observation; a timeout says in which phase.
Judge(c) ==
  LET class == EgressClass(result[c]) IN
  IF class = "ok" THEN Finding("egress.reachable", "ok", "")
  ELSE IF result[c].by = "run-signal" THEN Finding("egress.aborted", "unknown", "")
  ELSE IF class = "unclassified" THEN Finding("egress.unclassified", "unknown", "")
  ELSE Blocker(c, FailureId(class), IF class = "timeout" THEN result[c].phase ELSE "")

\* What the report says of a call that has returned.
About(c) ==
  IF c.kind = "resolve" THEN {ResolveVerdict(c)} \cup SlowResolution(c)
  ELSE IF c.kind = "doh" THEN {DohVerdict(c)} ELSE {Judge(c)}
-----------------------------------------------------------------------------
Over(c) == phase[c] = "over"
Results == [phase : InFlight \cup {"ok", "none"}, code : NameCodes \cup PathCodes \cup {"intermediary"},
            by : {"none", "phase-timeout", "run-signal"}, waited : Int]
\* The types of what a run holds; a call is past its lookup when the lookup was
\* answered, and an attempt that is out belongs to the probe that runs.
TypeOK ==
  /\ world \in Worlds /\ now \in Nat /\ aborted \in BOOLEAN
  /\ stage \in {"start", "dns", "egress", "done"} /\ started \in [Probes -> Nat]
  /\ lookup \in [Call -> {"none", "queued", "asked", "answered"}] /\ until \in [Call -> Nat]
  /\ phase \in [Call -> {"none", "over"} \cup InFlight] /\ since \in [Call -> Nat]
  /\ result \in [Call -> Results]
  /\ \A c \in Call :
       /\ phase[c] \in {"connect", "tls", "http"} => c \in Attempts /\ lookup[c] = "answered"
       /\ phase[c] = "none" => lookup[c] = "none"
       /\ phase[c] \in InFlight => ProbeOf(c) = stage /\ ~aborted

\* The resolver is blamed for the time a lookup took.
BlamesResolver(f) ==
  \/ f.id = "dns.resolve-failed" /\ f.why = "resolver-timeout"
  \/ f.id = "dns.slow-resolution"
  \/ f.id \in {"dns.doh-blocked", "egress.connect-timeout"} /\ f.why = "dns"
Healthy(c) == Name(c).code = "ok" /\ Name(c).takes = 0
\* Lookups of names that do not answer at once, on a thread now or before.
Slow == {c \in Call : Name(c).takes > 0 /\ lookup[c] \in {"asked", "answered"}}

\* A name the resolver answers at once is said to be slow, or not to be answered,
\* only if other lookups held all the threads there are, those that an earlier
\* probe gave up among them: it takes as many slow ones as there are threads.
BystandersAreSpared ==
  \A c \in Call : Over(c) /\ Healthy(c) /\ (\E f \in About(c) : BlamesResolver(f))
    => Cardinality(Slow) >= Workers

\* The network is such that the call must come out well.
Good(c) ==
  /\ Name(c).code = "ok" /\ Name(c).addresses # {}
  /\ IF c.kind = "resolve" THEN Name(c).addresses \cap {"private", "sinkhole"} = {}
     ELSE IF c.kind = "doh" THEN world.path[c].phase \in {"http", "ok"}
     ELSE world.path[c].phase = "ok" /\ world.path[c].sign # "intermediary"

\* What is said of a call is true of the network: a call that is reported ok was
\* one that comes out well; one that is reported otherwise was not, or ran out of
\* a time of its own; a call that was cut proves nothing; and only what is
\* required stops a pipeline.
VerdictsAreEarned ==
  \A c \in Call : Over(c) => \A f \in About(c) :
    /\ f.severity = "ok" => Good(c)
    /\ f.severity \in {"degraded", "blocker"} =>
         /\ result[c].by # "run-signal"
         /\ Good(c) => result[c].by = "phase-timeout" \/ IsSlow(result[c])
    /\ f.severity = "blocker" => Required(c)

Says(c, id) == \E f \in About(c) : f.id = id
\* The two probes do not send an operator to different teams about one name: a
\* name egress calls unresolvable did not resolve for dns, and a name dns calls
\* absent or empty is not one egress got an answer from.
NamesAgree ==
  \A c \in Lookups, d \in Reaches : c.host = d.host /\ Over(d) =>
    /\ Says(d, "egress.dns-failure") => Says(c, "dns.resolve-failed")
    /\ (\E f \in About(c) : f.id = "dns.resolve-failed" /\ f.why \in {"name-not-found", "no-address-records"})
         => \E f \in About(d) : \/ f.id \in {"egress.dns-failure", "egress.aborted"}
                                \/ f.id = "egress.connect-timeout" /\ f.why = "dns"

Longest(c) == IF c.kind = "resolve" THEN ConnectBudget ELSE 2 * ConnectBudget + TlsBudget + HttpBudget
\* No call is out for longer than its phases may take together, even when the
\* resolver never answers: one silent name does not use up the run.
TimeIsShared ==
  \A c \in Call : phase[c] \in InFlight => now - started[ProbeOf(c)] <= Longest(c)

\* What a probe makes of a call.
Standing(c) ==
  IF phase[c] = "none" THEN "idle" ELSE IF ~Over(c) THEN "pending"
  ELSE IF result[c].by = "run-signal" THEN "cut"
  ELSE IF result[c].by = "phase-timeout" THEN "timedOut"
  ELSE IF result[c].phase = "ok" THEN "answered" ELSE "refused"
Contract == INSTANCE SeamContract WITH
  Calls <- Call, call <- [c \in Call |-> Standing(c)], cancelled <- aborted

\* The calls of the two probes are calls of seams, though here they have neither
\* sockets nor guards: one outcome each, decided once, nothing out after the
\* signal.  It is the contract that NetSeam keeps with its sockets.
KeepsContract == Contract!Spec

\* Both probes return, whatever resolver and network do.
ProbesReturn == <>(stage = "done")
=============================================================================
