---------------------------- MODULE ProxyProbe ----------------------------
(***************************************************************************)
(* The proxy probe, probes/proxy/index.ts: which proxy, if any, each       *)
(* declared endpoint is expected to go through, and whether that proxy     *)
(* tunnels to it.  A configured PAC script beats the environment, which    *)
(* beats a script found by WPAD.  The probe is one thread of control that  *)
(* awaits one call at a time; the run may be cut at any of them, and every *)
(* later call is then cut too, but not the evaluation of a script.         *)
(*                                                                         *)
(* A call that is awaited settles with anything its seam can answer        *)
(* (NetSeam, PacSandbox).  The findings are the value of Report once the   *)
(* probe is done; nobody sees them before.                                 *)
(***************************************************************************)
EXTENDS Naturals, Sequences

CONSTANTS
  Declared, \* the endpoints of the profile, in order
  Proxies,  \* the proxies a script or the environment may name
  Schemes,  \* what classifyAuthScheme may make of a Proxy-Authenticate header
  Settings  \* the configurations and environments the probe may find

VARIABLES
  setting, \* the one it finds
  aborted, \* context.signal.aborted
  pc,      \* the call that is awaited
  fetched, \* what the PAC fetch came to
  cache,   \* resolvedCache
  via,     \* for each endpoint, what discovery said of it
  attempt  \* for each endpoint, what the CONNECT of its route came to

vars == <<setting, aborted, pc, fetched, cache, via, attempt>>
-----------------------------------------------------------------------------
Idx == DOMAIN Declared
Target(i) == [host |-> Declared[i].host, port |-> Declared[i].port]
Hosts == {Declared[i].host : i \in Idx}
Targets == {Target(i) : i \in Idx}

\* A variable of the environment is unset, names a proxy or does not parse.
EnvValues == {"unset", "junk"} \cup Proxies
ScriptVerdicts == {"direct", "unresolved", "error"} \cup Proxies
Fates == {"none", "bypassed", "dropped"} \cup ScriptVerdicts

ASSUME SettingAssumption ==
  /\ Declared \in Seq([host : STRING, port : Nat, required : BOOLEAN])
  /\ Proxies \cap {"none", "bypassed", "dropped", "unset", "junk",
                   "direct", "unresolved", "error"} = {}
  /\ Settings \subseteq [pacUrl : BOOLEAN, httpsProxy : EnvValues, httpProxy : EnvValues,
                         bypass : SUBSET Targets, badEntry : BOOLEAN]

\* What a CONNECT can come to.  `code` is a class of errno, an HTTP status or
\* nothing, `by` the signal that ended the attempt.
Attempt(phase, code, by, scheme) ==
  [phase |-> phase, code |-> code, by |-> by, scheme |-> scheme]
NotTried    == Attempt("none", "none", "none", "none")
Established == Attempt("ok", "none", "none", "none")
Errnos == {"dns", "refused", "unreachable", "timedOut", "reset", "other"}
Phases == {"dns", "connect", "tunnel"}
Attempts ==
  {Established}
  \cup {Attempt("dns", c, "none", "none") : c \in {"dns", "other"}}
  \cup {Attempt("connect", c, "none", "none") : c \in Errnos \ {"dns"}}
  \cup {Attempt("tunnel", c, "none", "none") : c \in {"timedOut", "reset", "other"}}
  \cup {Attempt("tunnel", "HTTP_407", "none", s) : s \in Schemes}
  \cup {Attempt("tunnel", c, "none", "none") : c \in {"HTTP_other", "none"}}
  \cup {Attempt(p, "none", by, "none") : p \in Phases, by \in {"phase-timeout", "run-signal"}}

Fetches == {"none", "script", "noName", "lateName", "cutName", "unusable"}
-----------------------------------------------------------------------------
Init ==
  /\ setting \in Settings
  /\ aborted = FALSE
  /\ pc = "start"
  /\ fetched = "none"
  /\ cache = [h \in Hosts |-> "none"]
  /\ via = [i \in Idx |-> "none"]
  /\ attempt = [i \in Idx |-> NotTried]

EnvConfigured == setting.httpsProxy # "unset" \/ setting.httpProxy # "unset"
Leg == IF setting.pacUrl THEN "pac" ELSE IF EnvConfigured THEN "env" ELSE "wpad"

\* The variable of the endpoint's scheme, or else the other one.
EnvProxyFor(i) ==
  LET primary  == IF Declared[i].port = 443 THEN setting.httpsProxy ELSE setting.httpProxy
      fallback == IF Declared[i].port = 443 THEN setting.httpProxy ELSE setting.httpsProxy
      raw == IF primary # "unset" THEN primary ELSE fallback IN
  IF raw = "junk" THEN "dropped" ELSE raw

Bypassed(i) == Target(i) \in setting.bypass

\* routedEndpoints: the others are still to be routed.
Filtered == [i \in Idx |-> IF Bypassed(i) THEN "bypassed" ELSE "none"]
EnvRoutes == [i \in Idx |-> IF Bypassed(i) THEN "bypassed" ELSE EnvProxyFor(i)]

\* One route per proxy and target, however many endpoints ask for it.
SameRoute(i, j) == via[i] = via[j] /\ Target(i) = Target(j)
Routed(i) == via[i] \in Proxies
\* Slip: a route awaited where there is none.
AwaitRoutesAlways(v) == "connecting"
AwaitRoutes(v) == IF \E i \in Idx : v[i] \in Proxies THEN "connecting" ELSE "done"

\* Slip: a lookup that came to nothing taken for one that was never made.
CachedTruthy(c, h) == c[h] = "addresses"
Cached(c, h) == c[h] # "none"

\* The loop over the endpoints goes to the next one it has not asked about.
First(v, i) == v[i] = "none" /\ \A j \in Idx : v[j] = "none" => i <= j
AwaitScript(v, c) ==
  IF \A i \in Idx : v[i] # "none" THEN AwaitRoutes(v)
  ELSE IF \E i \in Idx : First(v, i) /\ Cached(c, Declared[i].host) THEN "evaluating"
  ELSE "resolving"

\* Up to the first await.
Start ==
  /\ pc = "start"
  /\ IF Idx = {}
     THEN pc' = "done" /\ UNCHANGED via
     ELSE IF Leg = "env"
     THEN via' = EnvRoutes /\ pc' = AwaitRoutes(via')
     ELSE pc' = "fetching" /\ UNCHANGED via
  /\ UNCHANGED <<setting, aborted, fetched, cache, attempt>>

\* A call on the run signal answers before the abort and is cut after it.
Answers == ~aborted

\* A PAC URL that does not parse is refused before anything is awaited.
PacUrlRefused ==
  /\ pc = "fetching" /\ Leg = "pac"
  /\ fetched' = "unusable" /\ pc' = "done"
  /\ UNCHANGED <<setting, aborted, cache, via, attempt>>

\* fetched tells a name that is not there ("noName") from a lookup that was
\* timed out ("lateName") or cut with the run ("cutName"); the probe does not.
FetchReturns ==
  /\ pc = "fetching"
  /\ fetched' \in IF Answers THEN {"script", "noName", "lateName", "unusable"}
                             ELSE {"cutName", "unusable"}
  /\ IF fetched' = "script"
     THEN via' = Filtered /\ pc' = AwaitScript(via', cache)
     ELSE pc' = "done" /\ UNCHANGED via
  /\ UNCHANGED <<setting, aborted, cache, attempt>>

\* resolveForPac: a lookup that fails, is empty, late or cut is a null.
ResolveReturns ==
  /\ pc = "resolving"
  /\ \E i \in Idx, answer \in IF Answers THEN {"addresses", "null"} ELSE {"null"} :
       /\ First(via, i)
       /\ cache' = [cache EXCEPT ![Declared[i].host] = answer]
  /\ pc' = "evaluating"
  /\ UNCHANGED <<setting, aborted, fetched, via, attempt>>

\* sandbox.evaluate takes no signal: it answers whether or not the run is cut.
Evaluated ==
  /\ pc = "evaluating"
  /\ \E i \in Idx, verdict \in ScriptVerdicts :
       /\ First(via, i)
       /\ via' = [via EXCEPT ![i] = verdict]
  /\ pc' = AwaitScript(via', cache)
  /\ UNCHANGED <<setting, aborted, fetched, cache, attempt>>

Untried(i) == Routed(i) /\ attempt[i] = NotTried

\* The routes are tried in the order in which they were added.
ConnectReturns ==
  /\ pc = "connecting"
  /\ \E i \in Idx, a \in Attempts :
       /\ Untried(i) /\ \A j \in Idx : Untried(j) => i <= j
       /\ IF Answers THEN a.by # "run-signal" ELSE a.by = "run-signal"
       /\ attempt' = [j \in Idx |-> IF SameRoute(i, j) THEN a ELSE attempt[j]]
  /\ pc' = IF \E j \in Idx : Routed(j) /\ attempt'[j] = NotTried THEN "connecting" ELSE "done"
  /\ UNCHANGED <<setting, aborted, fetched, cache, via>>

RunAbort ==
  /\ ~aborted /\ aborted' = TRUE
  /\ UNCHANGED <<setting, pc, fetched, cache, via, attempt>>

Next == \/ Start \/ PacUrlRefused \/ FetchReturns \/ ResolveReturns \/ Evaluated
        \/ ConnectReturns \/ RunAbort

\* Calls settle and evaluations answer, whatever the network does.
Fairness == /\ WF_vars(Start) /\ WF_vars(FetchReturns) /\ WF_vars(ResolveReturns)
            /\ WF_vars(Evaluated) /\ WF_vars(ConnectReturns)

Spec == Init /\ [][Next]_vars /\ Fairness
-----------------------------------------------------------------------------
\* classifyAttempt, for the phases before the tunnel.
ClassifyAttempt(a) ==
  IF a.phase = "dns" /\ a.code = "dns" THEN "dns"
  ELSE IF a.code \in {"refused", "unreachable"} THEN a.code
  ELSE IF a.by = "phase-timeout" \/ a.code = "timedOut" THEN "timeout"
  ELSE IF a.phase = "connect" /\ a.code = "reset" THEN "reset"
  ELSE "unclassified"

ClassifyConnect(a) ==
  IF a.phase = "ok" THEN "established"
  ELSE IF a.phase = "tunnel" THEN IF a.code = "HTTP_407" THEN "auth-required" ELSE "rejected"
  ELSE ClassifyAttempt(a)

\* probeRoute: a cut attempt is no observation.
Verdict(a) == IF a.by = "run-signal" THEN "aborted" ELSE ClassifyConnect(a)

Hard == {"rejected", "dns", "refused", "unreachable", "timeout", "reset"}

\* A finding says its severity and what it is about.
Finding(id, severity, about) == [id |-> id, severity |-> severity, about |-> about]
\* Evidence of a host says no port where the probe leaves it out.
HostOnly(i) == [host |-> Declared[i].host, port |-> 0]

\* cap: an optional endpoint is never a blocker; what is unknown stays unknown.
Cap(severity, required) ==
  IF ~required /\ severity = "blocker" THEN "degraded" ELSE severity
Severity(verdict, required) ==
  IF verdict = "established" THEN "ok"
  ELSE IF verdict = "auth-required" THEN Cap("degraded", required)
  ELSE IF verdict \in Hard THEN Cap("blocker", required)
  ELSE "unknown"

\* Slip: clusters keyed by proxy and verdict alone.
SameClusterByVerdict(i, j) == via[i] = via[j] /\ Verdict(attempt[i]) = Verdict(attempt[j])

\* The key of a cluster: proxy, verdict, code and scheme.  A cut attempt has
\* neither code nor scheme, and a verdict other than auth-required no scheme.
SameCluster(i, j) ==
  /\ via[i] = via[j]
  /\ Verdict(attempt[i]) = Verdict(attempt[j])
  /\ attempt[i].code = attempt[j].code
  /\ attempt[i].scheme = attempt[j].scheme
Cluster(i) == {j \in Idx : Routed(j) /\ SameCluster(i, j)}

\* Slip: a cluster as important as the first route in it.
ClusterRequiredFirst(i) ==
  \E j \in Cluster(i) : Declared[j].required /\ \A k \in Cluster(i) : j <= k
\* required of a route, then of a cluster: any endpoint that asks for it.
ClusterRequired(i) == \E j \in Cluster(i) : Declared[j].required

ConnectFinding(i) ==
  [id |-> Verdict(attempt[i]),
   severity |-> Severity(Verdict(attempt[i]), ClusterRequired(i)),
   about |-> {Target(j) : j \in Cluster(i)},
   proxy |-> via[i], code |-> attempt[i].code, scheme |-> attempt[i].scheme]

SyntaxFindings == IF setting.badEntry THEN {Finding("no-proxy-syntax", "degraded", {})} ELSE {}
BypassFindings == {Finding("no-proxy-bypass", "ok", {Target(i)}) : i \in {j \in Idx : Bypassed(j)}}
\* Slip: an answer the probe cannot act on left out of the report.
ScriptFindingsOfErrors ==
  {Finding("pac-direct", "ok", {HostOnly(i)}) : i \in {j \in Idx : via[j] = "direct"}}
  \cup {Finding("pac-inconclusive", "unknown", {HostOnly(i)}) : i \in {j \in Idx : via[j] = "error"}}
ScriptFindings ==
  {Finding("pac-direct", "ok", {HostOnly(i)}) : i \in {j \in Idx : via[j] = "direct"}}
  \cup {Finding("pac-inconclusive", "unknown", {HostOnly(i)}) :
          i \in {j \in Idx : via[j] \in {"unresolved", "error"}}}
ConnectFindings == {ConnectFinding(i) : i \in {j \in Idx : Routed(j)}}

\* Slip: every WPAD fetch that fails read as no proxy at all.
DiscoveryFindingsLenient ==
  IF Leg = "pac" THEN {Finding("pac-fetch-failed", "degraded", {})}
  ELSE {Finding("none-configured", "ok", {})}
\* Discovery that found no script.
DiscoveryFindings ==
  IF Leg = "pac" THEN {Finding("pac-fetch-failed", "degraded", {})}
  ELSE IF fetched \in {"noName", "lateName", "cutName"}
  THEN {Finding("none-configured", "ok", {})}
  ELSE {Finding("wpad-unusable", "unknown", {})}

Discovered == Leg = "env" \/ fetched = "script"
Report ==
  IF Idx = {} THEN {}
  ELSE SyntaxFindings \cup
       IF Discovered THEN BypassFindings \cup ScriptFindings \cup ConnectFindings
       ELSE DiscoveryFindings
-----------------------------------------------------------------------------
TypeOK ==
  /\ setting \in Settings
  /\ aborted \in BOOLEAN
  /\ pc \in {"start", "fetching", "resolving", "evaluating", "connecting", "done"}
  /\ fetched \in Fetches
  /\ cache \in [Hosts -> {"none", "addresses", "null"}]
  /\ via \in [Idx -> Fates]
  /\ attempt \in [Idx -> Attempts \cup {NotTried}]

Names(f, i) == Target(i) \in f.about \/ HostOnly(i) \in f.about

\* Once discovery has found out how endpoints are routed, every endpoint of
\* the profile is named by a finding: it is bypassed, goes direct, could not be
\* decided, or its tunnel was tried.  The one exception is an endpoint whose
\* environment variable does not parse, of which the probe says nothing.
EveryEndpointReported ==
  pc = "done" /\ Discovered =>
    \A i \in Idx : via[i] = "dropped" \/ \E f \in Report : Names(f, i)

\* A finding about a proxy is true of every destination it names: each one was
\* tried through that proxy and came to that verdict, code and scheme (the
\* comment on cluster).
ClustersAreTrue ==
  pc = "done" => \A f \in ConnectFindings : \A t \in f.about :
    \E i \in Idx : /\ Target(i) = t /\ via[i] = f.proxy /\ attempt[i] # NotTried
                   /\ Verdict(attempt[i]) = f.id
                   /\ attempt[i].code = f.code /\ attempt[i].scheme = f.scheme

\* The probe stops a pipeline for a required endpoint and for nothing else: a
\* required endpoint whose tunnel failed is in a blocker, and a blocker has a
\* required endpoint in it whose tunnel failed.
RequiredIsLoud ==
  pc = "done" =>
    /\ \A i \in Idx : Routed(i) /\ Declared[i].required /\ Verdict(attempt[i]) \in Hard =>
         \E f \in Report : f.severity = "blocker" /\ Target(i) \in f.about
    /\ \A f \in Report : f.severity = "blocker" =>
         \E i \in Idx : /\ Routed(i) /\ Declared[i].required /\ Target(i) \in f.about
                        /\ Verdict(attempt[i]) \in Hard

\* A report that is all ok was earned: every endpoint is bypassed, goes direct
\* by its script or was tunnelled to, unless no WPAD name was found at all or
\* the variable that names its proxy does not parse.
AllClearIsEarned ==
  pc = "done" /\ (\A f \in Report : f.severity = "ok") =>
    \/ fetched \in {"noName", "lateName", "cutName"}
    \/ \A i \in Idx : \/ via[i] \in {"bypassed", "direct", "dropped"}
                      \/ attempt[i] = Established

\* A run that was cut says nothing of a proxy: a tunnel that was cut is in no
\* finding that gives a verdict.
CutProvesNothing ==
  \A i \in Idx : attempt[i].by = "run-signal" =>
    \A f \in ConnectFindings : Target(i) \in f.about /\ f.proxy = via[i] => f.severity = "unknown"

\* A script is told the same of a host each time it is asked: what a lookup
\* came to is not looked up again, a failure least of all.
OneAnswerPerHost ==
  [][\A h \in Hosts : cache[h] # "none" => cache'[h] = cache[h]]_vars

\* How far the probe has come.
Stage(at) == IF at = "start" THEN 1 ELSE IF at = "fetching" THEN 2
             ELSE IF at \in {"resolving", "evaluating"} THEN 3
             ELSE IF at = "connecting" THEN 4 ELSE 5
\* Nothing is done twice: what a lookup, an evaluation or a tunnel came to stays, the probe
\* goes from one call to a later one, and every step has something to show for it.  A probe
\* thus ends after no more steps than it has hosts, endpoints and routes, and a few.
EachOnce ==
  [][/\ Stage(pc) <= Stage(pc')
     /\ \A h \in Hosts : cache[h] # "none" => cache'[h] = cache[h]
     /\ \A i \in Idx : via[i] # "none" => via'[i] = via[i]
     /\ \A i \in Idx : attempt[i] # NotTried => attempt'[i] = attempt[i]
     /\ \/ Stage(pc) # Stage(pc')
        \/ <<aborted, cache, via, attempt>>' # <<aborted, cache, via, attempt>>]_vars

\* Nor is anything awaited that cannot come: while it asks there is an endpoint to ask
\* about, with its host looked up, and while it connects a route that was not tried.
NeverStuck ==
  /\ pc = "resolving" => \E i \in Idx : First(via, i)
  /\ pc = "evaluating" => \E i \in Idx : First(via, i) /\ Cached(cache, Declared[i].host)
  /\ pc = "connecting" => \E i \in Idx : Untried(i) /\ \A j \in Idx : Untried(j) => i <= j

\* The probe returns, cut or not.
ProbeReturns == <>(pc = "done")

\* What the comment in runProxy says of its silence: "No `wpad` name on this
\* network at all".
NoneMeansNoName ==
  pc = "done" /\ (\E f \in Report : f.id = "none-configured") => fetched = "noName"

\* What the text of connect-rejected says: "The proxy answered the CONNECT
\* request itself rather than tunnelling it".
RejectedMeansAnswered ==
  pc = "done" => \A f \in ConnectFindings :
    f.id = "rejected" => \A i \in Idx : Target(i) \in f.about /\ via[i] = f.proxy =>
      attempt[i].by # "phase-timeout"
=============================================================================
