-------------------------- MODULE ProxyProbeProofs --------------------------
(***************************************************************************)
(* Theorems about ProxyProbe, for every profile, every configuration and   *)
(* every set of proxies.                                                   *)
(***************************************************************************)
EXTENDS ProxyProbe, SequenceTheorems, WellFoundedInduction, TLAPS

USE SettingAssumption

\* The domain of a sequence, in the form in which the provers use it.
LEMMA Indices == /\ Idx \subseteq Nat
                 /\ \A i \in Idx : Declared[i] \in [host : STRING, port : Nat, required : BOOLEAN]
                 /\ \A i \in Idx : Target(i) \in Targets /\ Declared[i].host \in Hosts
  <1>1. DOMAIN Declared = 1..Len(Declared) /\ Len(Declared) \in Nat
    OBVIOUS
  <1>2. \A i \in 1..Len(Declared) : Declared[i] \in [host : STRING, port : Nat, required : BOOLEAN]
    BY ElementOfSeq
  <1> QED BY <1>1, <1>2 DEF Idx, Targets, Hosts

\* What the environment says of an endpoint is a fate, or that nothing is set.
LEMMA EnvFate == ASSUME setting \in Settings, EnvConfigured, NEW i \in Idx
                 PROVE  EnvProxyFor(i) \in Fates \ {"none", "bypassed", "direct"}
  <1>1. /\ setting.httpsProxy \in {"unset", "junk"} \cup Proxies
        /\ setting.httpProxy \in {"unset", "junk"} \cup Proxies
    BY DEF EnvValues
  <1>2. "none" \notin Proxies /\ "bypassed" \notin Proxies /\ "direct" \notin Proxies
        /\ "unset" \notin Proxies /\ "junk" \notin Proxies
    OBVIOUS
  <1> QED BY <1>1, <1>2 DEF EnvProxyFor, EnvConfigured, Fates, ScriptVerdicts

\* The state keeps its type: no endpoint gets a fate or an attempt the probe
\* has no finding for.
THEOREM TypeCorrect == Spec => []TypeOK
<1>1. Init => TypeOK
  BY DEF Init, TypeOK, Fetches, Fates
<1>2. TypeOK /\ [Next]_vars => TypeOK'
  <2> SUFFICES ASSUME TypeOK, [Next]_vars PROVE TypeOK'
    OBVIOUS
  <2>1. CASE Start
    <3>1. ASSUME Idx # {}, Leg = "env" PROVE via' \in [Idx -> Fates]
      <4>1. EnvConfigured
        BY <3>1 DEF Leg
      <4>2. \A i \in Idx : EnvProxyFor(i) \in Fates
        BY <4>1, EnvFate DEF TypeOK
      <4> QED BY <2>1, <3>1, <4>2 DEF Start, EnvRoutes, Fates
    <3>2. via' \in [Idx -> Fates]
      BY <2>1, <3>1 DEF Start, TypeOK
    <3>3. pc' \in {"start", "fetching", "resolving", "evaluating", "connecting", "done"}
      BY <2>1 DEF Start, TypeOK, AwaitRoutes
    <3> QED BY <2>1, <3>2, <3>3 DEF Start, TypeOK
  <2>2. CASE PacUrlRefused
    BY <2>2 DEF PacUrlRefused, TypeOK, Fetches
  <2>3. CASE FetchReturns
    <3>1. via' \in [Idx -> Fates]
      BY <2>3 DEF FetchReturns, TypeOK, Filtered, Fates
    <3>2. pc' \in {"start", "fetching", "resolving", "evaluating", "connecting", "done"}
      BY <2>3 DEF FetchReturns, TypeOK, AwaitRoutes, AwaitScript
    <3>3. fetched' \in Fetches
      BY <2>3 DEF FetchReturns, Fetches, Answers
    <3> QED BY <2>3, <3>1, <3>2, <3>3 DEF FetchReturns, TypeOK
  <2>4. CASE ResolveReturns
    <3>1. cache' \in [Hosts -> {"none", "addresses", "null"}]
      BY <2>4 DEF ResolveReturns, TypeOK, Answers
    <3> QED BY <2>4, <3>1 DEF ResolveReturns, TypeOK
  <2>5. CASE Evaluated
    <3>1. via' \in [Idx -> Fates]
      BY <2>5 DEF Evaluated, TypeOK, Fates
    <3>2. pc' \in {"start", "fetching", "resolving", "evaluating", "connecting", "done"}
      BY <2>5 DEF Evaluated, AwaitRoutes, AwaitScript
    <3> QED BY <2>5, <3>1, <3>2 DEF Evaluated, TypeOK
  <2>6. CASE ConnectReturns
    <3>1. attempt' \in [Idx -> Attempts \cup {NotTried}]
      BY <2>6 DEF ConnectReturns, TypeOK
    <3> QED BY <2>6, <3>1 DEF ConnectReturns, TypeOK
  <2>7. CASE RunAbort
    BY <2>7 DEF RunAbort, TypeOK
  <2>8. CASE UNCHANGED vars
    BY <2>8 DEF vars, TypeOK
  <2> QED BY <2>1, <2>2, <2>3, <2>4, <2>5, <2>6, <2>7, <2>8 DEF Next
<1> QED BY <1>1, <1>2, PTL DEF Spec
-----------------------------------------------------------------------------
(***************************************************************************)
(* Where the probe is and what it has found out by then: before it routes  *)
(* nothing has a fate, while it asks the script nothing is tried, and once *)
(* it is past the loop every endpoint has a fate and every route that is   *)
(* left is tried before it is done.                                        *)
(***************************************************************************)
Asking == pc \in {"resolving", "evaluating"}
Progress ==
  /\ pc \in {"start", "fetching"} => \A i \in Idx : via[i] = "none"
  /\ pc \in {"start", "fetching"} => fetched = "none"
  /\ pc # "connecting" /\ pc # "done" => \A i \in Idx : attempt[i] = NotTried
  /\ pc = "start" \/ pc = "fetching" \/ Asking \/ pc = "connecting" \/ pc = "done"
  /\ Asking => Discovered
  /\ pc = "fetching" => Leg # "env"
  /\ pc = "connecting" \/ (pc = "done" /\ Discovered) => \A i \in Idx : via[i] # "none"
  /\ pc = "connecting" => Discovered
  /\ pc = "done" /\ ~Discovered => \A i \in Idx : via[i] = "none"
  /\ \A i \in Idx : ~Routed(i) => attempt[i] = NotTried
  /\ pc = "done" => \A i \in Idx : Routed(i) => attempt[i] # NotTried
  /\ \A i \in Idx : via[i] = "bypassed" => Bypassed(i)
  /\ \A i \in Idx : Bypassed(i) => via[i] \in {"none", "bypassed"}
  /\ Asking => \A i \in Idx : Bypassed(i) => via[i] = "bypassed"

\* An attempt that was made is not the record that stands for none.
LEMMA Tried == NotTried \notin Attempts
  <1>1. \A a \in Attempts : a.phase # "none"
    BY DEF Attempts, Attempt, Established, Phases
  <1> QED BY <1>1 DEF NotTried, Attempt

\* The loop over the routes starts with one that is left, or not at all.
LEMMA AfterRoutes ==
  ASSUME NEW v
  PROVE  /\ AwaitRoutes(v) \in {"connecting", "done"}
         /\ AwaitRoutes(v) = "done" => \A i \in Idx : v[i] \notin Proxies
BY DEF AwaitRoutes

\* The loop over the endpoints ends when each has a fate.
LEMMA AfterScript ==
  ASSUME NEW v, NEW c
  PROVE  /\ AwaitScript(v, c) \in {"resolving", "evaluating", "connecting", "done"}
         /\ AwaitScript(v, c) \in {"connecting", "done"} => \A i \in Idx : v[i] # "none"
         /\ AwaitScript(v, c) = "done" => \A i \in Idx : v[i] \notin Proxies
BY AfterRoutes DEF AwaitScript

LEMMA ProgressInitially == Init => Progress
  <1> SUFFICES ASSUME Init PROVE Progress
    OBVIOUS
  <1>1. \A i \in Idx : via[i] = "none" /\ attempt[i] = NotTried
    BY DEF Init
  <1>2. "none" \notin Proxies
    OBVIOUS
  <1> QED BY <1>1, <1>2 DEF Init, Progress, Asking, Routed

LEMMA ProgressKept == TypeOK /\ Progress /\ [Next]_vars => Progress'
<1> SUFFICES ASSUME TypeOK, Progress, [Next]_vars PROVE Progress'
  OBVIOUS
<1>0. "none" \notin Proxies /\ "bypassed" \notin Proxies /\ "dropped" \notin Proxies
  OBVIOUS
<1>1. CASE Start
  <2>1. /\ attempt' = attempt /\ fetched' = fetched /\ setting' = setting
        /\ \A i \in Idx : attempt[i] = NotTried
        /\ \A i \in Idx : via[i] = "none"
        /\ fetched = "none"
    BY <1>1 DEF Start, Progress
  <2>2. CASE Idx = {}
    BY <1>1, <2>1, <2>2 DEF Start, Progress, Asking, Discovered, Leg, EnvConfigured
  <2>3. CASE Idx # {} /\ Leg = "env"
    <3>1. EnvConfigured
      BY <2>3 DEF Leg
    <3>2. \A i \in Idx : EnvProxyFor(i) \notin {"none", "bypassed"}
      BY <3>1, EnvFate DEF TypeOK
    <3>3. /\ \A i \in Idx : via'[i] = IF Bypassed(i) THEN "bypassed" ELSE EnvProxyFor(i)
          /\ pc' = AwaitRoutes(via')
      BY <1>1, <2>3 DEF Start, EnvRoutes
    <3>4. /\ pc' \in {"connecting", "done"}
          /\ pc' = "done" => \A i \in Idx : via'[i] \notin Proxies
      BY <3>3, AfterRoutes
    <3>5. \A i \in Idx : via'[i] # "none"
      BY <3>2, <3>3
    <3>6. Discovered' /\ Leg' = Leg
      BY <2>1, <2>3 DEF Discovered, Leg, EnvConfigured
    <3>7. \A i \in Idx : Bypassed(i)' = Bypassed(i)
      BY <2>1 DEF Bypassed
    <3> QED BY <2>1, <3>2, <3>3, <3>4, <3>5, <3>6, <3>7 DEF Progress, Asking, Routed
  <2>4. CASE Idx # {} /\ Leg # "env"
    <3>1. pc' = "fetching" /\ via' = via
      BY <1>1, <2>4 DEF Start
    <3>2. Leg' = Leg
      BY <2>1 DEF Leg, EnvConfigured
    <3> QED BY <1>0, <2>1, <2>4, <3>1, <3>2 DEF Progress, Asking, Routed
  <2> QED BY <2>2, <2>3, <2>4
<1>2. CASE PacUrlRefused
  <2>1. Leg' = Leg /\ Leg # "env"
    BY <1>2 DEF PacUrlRefused, Leg, EnvConfigured
  <2>2. /\ pc = "fetching" /\ pc' = "done" /\ via' = via /\ attempt' = attempt
        /\ fetched' = "unusable" /\ ~Discovered'
    BY <1>2, <2>1 DEF PacUrlRefused, Discovered
  <2> QED BY <1>0, <2>1, <2>2 DEF Progress, Asking, Routed
<1>3. CASE FetchReturns
  <2>1. /\ pc = "fetching" /\ setting' = setting /\ attempt' = attempt
        /\ \A i \in Idx : via[i] = "none" /\ attempt[i] = NotTried
    BY <1>3 DEF FetchReturns, Progress
  <2>2. Leg' = Leg /\ Leg # "env" /\ \A i \in Idx : Bypassed(i)' = Bypassed(i)
    BY <2>1 DEF Progress, Leg, EnvConfigured, Bypassed
  <2>3. CASE fetched' = "script"
    <3>1. /\ \A i \in Idx : via'[i] = IF Bypassed(i) THEN "bypassed" ELSE "none"
          /\ pc' = AwaitScript(via', cache)
      BY <1>3, <2>3 DEF FetchReturns, Filtered
    <3>2. /\ pc' \in {"resolving", "evaluating", "connecting", "done"}
          /\ pc' \in {"connecting", "done"} => \A i \in Idx : via'[i] # "none"
          /\ pc' = "done" => \A i \in Idx : via'[i] \notin Proxies
      BY <3>1, AfterScript
    <3>3. Discovered'
      BY <2>3 DEF Discovered
    <3> QED BY <1>0, <2>1, <2>2, <2>3, <3>1, <3>2, <3>3 DEF Progress, Asking, Routed
  <2>4. CASE fetched' # "script"
    <3>1. pc' = "done" /\ via' = via
      BY <1>3, <2>4 DEF FetchReturns
    <3>2. ~Discovered'
      BY <2>2, <2>4 DEF Discovered
    <3> QED BY <1>0, <2>1, <2>2, <2>4, <3>1, <3>2 DEF Progress, Asking, Routed
  <2> QED BY <2>3, <2>4
<1>4. CASE ResolveReturns
  <2>1. /\ pc = "resolving" /\ pc' = "evaluating"
        /\ setting' = setting /\ attempt' = attempt /\ via' = via /\ fetched' = fetched
    BY <1>4 DEF ResolveReturns
  <2>2. Leg' = Leg /\ (Discovered' <=> Discovered) /\ \A i \in Idx : Bypassed(i)' = Bypassed(i)
    BY <2>1 DEF Discovered, Leg, EnvConfigured, Bypassed
  <2> QED BY <2>1, <2>2 DEF Progress, Asking, Routed
<1>5. CASE Evaluated
  <2>1. PICK i \in Idx, verdict \in ScriptVerdicts : First(via, i) /\ via' = [via EXCEPT ![i] = verdict]
    BY <1>5 DEF Evaluated
  <2>2. /\ pc = "evaluating" /\ pc' = AwaitScript(via', cache)
        /\ setting' = setting /\ attempt' = attempt /\ fetched' = fetched
    BY <1>5 DEF Evaluated
  <2>3. Leg' = Leg /\ (Discovered' <=> Discovered) /\ \A j \in Idx : Bypassed(j)' = Bypassed(j)
    BY <2>2 DEF Discovered, Leg, EnvConfigured, Bypassed
  <2>4. /\ pc' \in {"resolving", "evaluating", "connecting", "done"}
        /\ pc' \in {"connecting", "done"} => \A j \in Idx : via'[j] # "none"
        /\ pc' = "done" => \A j \in Idx : via'[j] \notin Proxies
    BY <2>2, AfterScript
  <2>5. verdict # "bypassed" /\ verdict # "none"
    BY <1>0, <2>1 DEF ScriptVerdicts
  <2>6. via[i] = "none" /\ ~Bypassed(i)
    BY <2>1, <2>2 DEF First, Progress, Asking
  <2>7. \A j \in Idx : via'[j] = IF j = i THEN verdict ELSE via[j]
    BY <2>1 DEF TypeOK
  <2>8. \A j \in Idx : attempt'[j] = NotTried
    BY <2>2 DEF Progress
  <2>9. Discovered /\ pc' # "start" /\ pc' # "fetching"
    BY <2>2, <2>4 DEF Progress, Asking
  <2> QED BY <2>2, <2>3, <2>4, <2>5, <2>6, <2>7, <2>8, <2>9 DEF Progress, Asking, Routed
<1>6. CASE ConnectReturns
  <2>1. PICK i \in Idx, a \in Attempts :
          /\ Untried(i)
          /\ attempt' = [j \in Idx |-> IF SameRoute(i, j) THEN a ELSE attempt[j]]
    BY <1>6 DEF ConnectReturns
  <2>2. /\ pc = "connecting" /\ pc' \in {"connecting", "done"}
        /\ pc' = "done" => \A j \in Idx : Routed(j) => attempt'[j] # NotTried
        /\ setting' = setting /\ via' = via /\ fetched' = fetched
    BY <1>6 DEF ConnectReturns
  <2>3. Leg' = Leg /\ (Discovered' <=> Discovered) /\ \A j \in Idx : Bypassed(j)' = Bypassed(j)
    BY <2>2 DEF Discovered, Leg, EnvConfigured, Bypassed
  <2>4. \A j \in Idx : ~Routed(j) => attempt'[j] = NotTried
    BY <2>1 DEF Untried, Routed, SameRoute, Progress
  <2> QED BY <2>1, <2>2, <2>3, <2>4 DEF Progress, Asking, Routed
<1>7. CASE RunAbort
  BY <1>7 DEF RunAbort, Progress, Asking, Routed, Discovered, Leg, EnvConfigured, Bypassed
<1>8. CASE UNCHANGED vars
  BY <1>8 DEF vars, Progress, Asking, Routed, Discovered, Leg, EnvConfigured, Bypassed
<1> QED BY <1>1, <1>2, <1>3, <1>4, <1>5, <1>6, <1>7, <1>8 DEF Next

\* The invariant of the probe.
LEMMA ProgressHolds == Spec => [](TypeOK /\ Progress)
<1>1. Spec => []Progress
  BY TypeCorrect, ProgressInitially, ProgressKept, PTL DEF Spec
<1> QED BY <1>1, TypeCorrect, PTL
-----------------------------------------------------------------------------
\* An endpoint that goes through a proxy is in the finding it gives rise to.
LEMMA InOwnFinding ==
  ASSUME NEW i \in Idx, Routed(i)
  PROVE  /\ ConnectFinding(i) \in ConnectFindings
         /\ i \in Cluster(i)
         /\ Target(i) \in ConnectFinding(i).about
BY DEF ConnectFindings, Cluster, SameCluster, ConnectFinding

\* Only a tunnel that failed hard makes a blocker, and only a required one.
LEMMA BlockerMeans ==
  ASSUME NEW verdict, NEW required \in BOOLEAN, Severity(verdict, required) = "blocker"
  PROVE  verdict \in Hard /\ required
BY DEF Severity, Cap

\* The rest of the report is no blocker.
LEMMA OthersAreMild ==
  \A f \in SyntaxFindings \cup BypassFindings \cup ScriptFindings \cup DiscoveryFindings :
    f.severity # "blocker"
BY DEF SyntaxFindings, BypassFindings, ScriptFindings, DiscoveryFindings, Finding

\* No endpoint of the profile is left out of a report that knows how endpoints
\* are routed, but for one whose environment variable does not parse.
THEOREM EveryEndpointReportedHolds == Spec => []EveryEndpointReported
<1>1. TypeOK /\ Progress => EveryEndpointReported
  <2> SUFFICES ASSUME TypeOK, Progress, pc = "done", Discovered, NEW i \in Idx, via[i] # "dropped"
               PROVE  \E f \in Report : Names(f, i)
    BY DEF EveryEndpointReported
  <2>1. Idx # {} /\ via[i] # "none" /\ via[i] \in Fates
    BY DEF Progress, TypeOK
  <2>2. BypassFindings \cup ScriptFindings \cup ConnectFindings \subseteq Report
    BY <2>1 DEF Report
  <2>3. CASE via[i] = "bypassed"
    <3>1. Finding("no-proxy-bypass", "ok", {Target(i)}) \in BypassFindings
      BY <2>3 DEF Progress, BypassFindings
    <3> QED BY <2>2, <3>1 DEF Finding, Names
  <2>4. CASE via[i] = "direct"
    <3>1. Finding("pac-direct", "ok", {HostOnly(i)}) \in ScriptFindings
      BY <2>4 DEF ScriptFindings
    <3> QED BY <2>2, <3>1 DEF Finding, Names
  <2>5. CASE via[i] \in {"unresolved", "error"}
    <3>1. Finding("pac-inconclusive", "unknown", {HostOnly(i)}) \in ScriptFindings
      BY <2>5 DEF ScriptFindings
    <3> QED BY <2>2, <3>1 DEF Finding, Names
  <2>6. CASE via[i] \in Proxies
    BY <2>2, <2>6, InOwnFinding DEF Routed, Names
  <2> QED BY <2>1, <2>3, <2>4, <2>5, <2>6 DEF Fates, ScriptVerdicts
<1> QED BY <1>1, ProgressHolds, PTL

\* A finding about a proxy is true of each destination it names.
THEOREM ClustersAreTrueHolds == Spec => []ClustersAreTrue
<1>1. TypeOK /\ Progress => ClustersAreTrue
  <2> SUFFICES ASSUME Progress, pc = "done", NEW f \in ConnectFindings, NEW t \in f.about
               PROVE  \E i \in Idx : /\ Target(i) = t /\ via[i] = f.proxy /\ attempt[i] # NotTried
                                      /\ Verdict(attempt[i]) = f.id
                                      /\ attempt[i].code = f.code /\ attempt[i].scheme = f.scheme
    BY DEF ClustersAreTrue
  <2>1. PICK k \in Idx : Routed(k) /\ f = ConnectFinding(k)
    BY DEF ConnectFindings
  <2>2. PICK j \in Cluster(k) : t = Target(j)
    BY <2>1 DEF ConnectFinding
  <2>3. j \in Idx /\ Routed(j) /\ SameCluster(k, j) /\ attempt[j] # NotTried
    BY <2>2 DEF Cluster, Progress
  <2> QED BY <2>1, <2>2, <2>3 DEF SameCluster, ConnectFinding
<1> QED BY <1>1, ProgressHolds, PTL

\* Required endpoints stop a pipeline, and only they do.
THEOREM RequiredIsLoudHolds == Spec => []RequiredIsLoud
<1>1. TypeOK /\ Progress => RequiredIsLoud
  <2> SUFFICES ASSUME TypeOK, Progress, pc = "done" PROVE RequiredIsLoud
    BY DEF RequiredIsLoud
  <2>1. ASSUME NEW i \in Idx, Routed(i), Declared[i].required, Verdict(attempt[i]) \in Hard
        PROVE  \E f \in Report : f.severity = "blocker" /\ Target(i) \in f.about
    <3>1. via[i] # "none"
      BY <2>1 DEF Routed
    <3>2. ConnectFindings \subseteq Report
      BY <2>1, <3>1 DEF Progress, Report
    <3>3. ClusterRequired(i)
      BY <2>1, InOwnFinding DEF ClusterRequired
    <3>4. ConnectFinding(i).severity = "blocker"
      BY <2>1, <3>3 DEF ConnectFinding, Severity, Cap, Hard
    <3> QED BY <2>1, <3>2, <3>4, InOwnFinding
  <2>2. ASSUME NEW f \in Report, f.severity = "blocker"
        PROVE  \E i \in Idx : /\ Routed(i) /\ Declared[i].required /\ Target(i) \in f.about
                               /\ Verdict(attempt[i]) \in Hard
    <3>1. f \in ConnectFindings
      BY <2>2, OthersAreMild DEF Report
    <3>2. PICK k \in Idx : Routed(k) /\ f = ConnectFinding(k)
      BY <3>1 DEF ConnectFindings
    <3>3. Verdict(attempt[k]) \in Hard /\ ClusterRequired(k)
      <4>1. ClusterRequired(k) \in BOOLEAN
        BY DEF ClusterRequired
      <4>2. Severity(Verdict(attempt[k]), ClusterRequired(k)) = "blocker"
        BY <2>2, <3>2 DEF ConnectFinding
      <4> QED BY <4>1, <4>2, BlockerMeans
    <3>4. PICK j \in Cluster(k) : Declared[j].required
      BY <3>3 DEF ClusterRequired
    <3>5. j \in Idx /\ Routed(j) /\ Verdict(attempt[j]) = Verdict(attempt[k])
      BY <3>4 DEF Cluster, SameCluster
    <3>6. Target(j) \in f.about
      BY <3>2, <3>4 DEF ConnectFinding
    <3> QED BY <3>3, <3>4, <3>5, <3>6
  <2> QED BY <2>1, <2>2 DEF RequiredIsLoud
<1> QED BY <1>1, ProgressHolds, PTL

\* A report that is all ok was earned.
THEOREM AllClearIsEarnedHolds == Spec => []AllClearIsEarned
<1>1. TypeOK /\ Progress => AllClearIsEarned
  <2> SUFFICES ASSUME TypeOK, Progress, pc = "done", \A f \in Report : f.severity = "ok",
                      fetched \notin {"noName", "lateName", "cutName"}, NEW i \in Idx
               PROVE  via[i] \in {"bypassed", "direct", "dropped"} \/ attempt[i] = Established
    BY DEF AllClearIsEarned
  <2>1. Discovered
    <3> SUFFICES ASSUME ~Discovered PROVE \E f \in DiscoveryFindings : f.severity # "ok"
      BY DEF Report
    <3> QED BY DEF DiscoveryFindings, Finding
  <2>2. ScriptFindings \cup ConnectFindings \subseteq Report
    BY <2>1 DEF Report
  <2>3. via[i] # "none" /\ via[i] \in Fates
    BY <2>1 DEF Progress, TypeOK
  <2>4. via[i] \notin {"unresolved", "error"}
    <3> SUFFICES ASSUME via[i] \in {"unresolved", "error"} PROVE FALSE
      OBVIOUS
    <3>1. Finding("pac-inconclusive", "unknown", {HostOnly(i)}) \in ScriptFindings
      BY DEF ScriptFindings
    <3> QED BY <2>2, <3>1 DEF Finding
  <2>5. ASSUME via[i] \in Proxies PROVE attempt[i] = Established
    <3>1. Routed(i) /\ attempt[i] # NotTried /\ attempt[i] \in Attempts
      BY <2>5 DEF Routed, Progress, TypeOK
    <3>2. Severity(Verdict(attempt[i]), ClusterRequired(i)) = "ok"
      BY <2>2, <3>1, InOwnFinding DEF ConnectFinding
    <3>3. Verdict(attempt[i]) = "established"
      BY <3>2 DEF Severity, Cap
    <3>4. attempt[i].phase = "ok"
      BY <3>1, <3>3 DEF Verdict, ClassifyConnect, ClassifyAttempt
    <3>5. \A a \in Attempts : a.phase = "ok" => a = Established
      BY DEF Attempts, Attempt, Established, Phases
    <3> QED BY <3>1, <3>4, <3>5
  <2> QED BY <2>3, <2>4, <2>5 DEF Fates, ScriptVerdicts
<1> QED BY <1>1, ProgressHolds, PTL

-----------------------------------------------------------------------------
\* Endpoints that share a route share its attempt.
Shared == \A i, j \in Idx : Routed(i) /\ SameRoute(i, j) => attempt[i] = attempt[j]

LEMMA SharedKept == TypeOK /\ Progress /\ Progress' /\ Shared /\ [Next]_vars => Shared'
<1> SUFFICES ASSUME TypeOK, Progress, Progress', Shared, [Next]_vars,
                    NEW i \in Idx, NEW j \in Idx, Routed(i)', SameRoute(i, j)'
             PROVE  attempt'[i] = attempt'[j]
  BY DEF Shared
<1>1. CASE ConnectReturns
  <2>1. PICK k \in Idx, a \in Attempts :
          attempt' = [l \in Idx |-> IF SameRoute(k, l) THEN a ELSE attempt[l]]
    BY <1>1 DEF ConnectReturns
  <2>2. via' = via
    BY <1>1 DEF ConnectReturns
  <2>3. SameRoute(k, i) <=> SameRoute(k, j)
    BY <2>2 DEF SameRoute
  <2>4. attempt[i] = attempt[j]
    BY <2>2 DEF Shared, Routed, SameRoute
  <2> QED BY <2>1, <2>3, <2>4
<1>2. CASE pc # "connecting" /\ pc # "done" /\ ~ConnectReturns
  <2>1. attempt' = attempt
    BY <1>2 DEF Next, Start, PacUrlRefused, FetchReturns, ResolveReturns, Evaluated, RunAbort, vars
  <2> QED BY <1>2, <2>1 DEF Progress
<1>3. CASE (pc = "connecting" \/ pc = "done") /\ ~ConnectReturns
  <2>1. attempt' = attempt /\ via' = via
    BY <1>3 DEF Next, Start, PacUrlRefused, FetchReturns, ResolveReturns, Evaluated, RunAbort, vars
  <2> QED BY <2>1 DEF Shared, Routed, SameRoute
<1> QED BY <1>1, <1>2, <1>3

LEMMA SharedHolds == Spec => []Shared
<1>1. Init => Shared
  BY DEF Init, Shared
<1> QED BY <1>1, SharedKept, ProgressHolds, PTL DEF Spec

\* A tunnel that was cut gives no verdict about its proxy.
THEOREM CutProvesNothingHolds == Spec => []CutProvesNothing
<1>1. TypeOK /\ Progress /\ Shared => CutProvesNothing
  <2> SUFFICES ASSUME Shared, NEW i \in Idx, attempt[i].by = "run-signal",
                      NEW f \in ConnectFindings, Target(i) \in f.about, f.proxy = via[i]
               PROVE  f.severity = "unknown"
    BY DEF CutProvesNothing
  <2>1. PICK k \in Idx : Routed(k) /\ f = ConnectFinding(k)
    BY DEF ConnectFindings
  <2>2. PICK j \in Cluster(k) : Target(i) = Target(j)
    BY <2>1 DEF ConnectFinding
  <2>3. j \in Idx /\ Routed(j) /\ SameCluster(k, j) /\ via[k] = via[i]
    BY <2>1, <2>2 DEF Cluster, ConnectFinding
  <2>4. attempt[j] = attempt[i]
    BY <2>2, <2>3 DEF Shared, SameRoute, SameCluster
  <2>5. Verdict(attempt[k]) = "aborted"
    BY <2>3, <2>4 DEF SameCluster, Verdict
  <2> QED BY <2>1, <2>5 DEF ConnectFinding, Severity, Hard
<1> QED BY <1>1, SharedHolds, ProgressHolds, PTL

\* The loop looks up only what it has no answer for.
Uncached ==
  pc = "resolving" => \A i \in Idx : First(via, i) => cache[Declared[i].host] = "none"

LEMMA AwaitsUncached ==
  ASSUME NEW v, NEW c, AwaitScript(v, c) = "resolving"
  PROVE  \A i \in Idx : First(v, i) => c[Declared[i].host] = "none"
BY AfterRoutes DEF AwaitScript, Cached

LEMMA UncachedKept == Uncached /\ [Next]_vars => Uncached'
<1> SUFFICES ASSUME Uncached, [Next]_vars PROVE Uncached'
  OBVIOUS
<1>1. CASE FetchReturns
  <2>1. pc' = "resolving" => pc' = AwaitScript(via', cache) /\ cache' = cache
    BY <1>1 DEF FetchReturns
  <2> QED BY <2>1, AwaitsUncached DEF Uncached
<1>2. CASE Evaluated
  <2>1. pc' = AwaitScript(via', cache) /\ cache' = cache
    BY <1>2 DEF Evaluated
  <2>2. AwaitScript(via', cache) = "resolving" =>
          \A i \in Idx : First(via', i) => cache[Declared[i].host] = "none"
    BY AwaitsUncached
  <2> QED BY <2>1, <2>2 DEF Uncached, First
<1>3. CASE Start \/ PacUrlRefused \/ ResolveReturns \/ ConnectReturns
  <2>1. pc' # "resolving"
    BY <1>3, AfterRoutes DEF Start, PacUrlRefused, ResolveReturns, ConnectReturns
  <2> QED BY <2>1 DEF Uncached
<1>4. CASE RunAbort \/ UNCHANGED vars
  BY <1>4 DEF RunAbort, vars, Uncached, First
<1> QED BY <1>1, <1>2, <1>3, <1>4 DEF Next

LEMMA UncachedHolds == Spec => []Uncached
<1>1. Init => Uncached
  BY DEF Init, Uncached
<1> QED BY <1>1, UncachedKept, PTL DEF Spec

\* A script is told the same of a host each time it is asked.
THEOREM OneAnswerPerHostHolds == Spec => OneAnswerPerHost
<1>1. TypeOK /\ Uncached /\ [Next]_vars => [\A h \in Hosts : cache[h] # "none" => cache'[h] = cache[h]]_vars
  <2> SUFFICES ASSUME TypeOK, Uncached, Next, NEW h \in Hosts, cache[h] # "none"
               PROVE  cache'[h] = cache[h]
    BY DEF vars
  <2>1. CASE ResolveReturns
    <3>1. PICK i \in Idx, answer \in {"addresses", "null"} :
            First(via, i) /\ cache' = [cache EXCEPT ![Declared[i].host] = answer]
      BY <2>1 DEF ResolveReturns, Answers
    <3>2. cache[Declared[i].host] = "none"
      BY <2>1, <3>1 DEF Uncached, ResolveReturns
    <3> QED BY <3>1, <3>2 DEF TypeOK
  <2>2. CASE ~ResolveReturns
    BY <2>2 DEF Next, Start, PacUrlRefused, FetchReturns, Evaluated, ConnectReturns, RunAbort
  <2> QED BY <2>1, <2>2
<1> QED BY <1>1, UncachedHolds, TypeCorrect, PTL DEF Spec, OneAnswerPerHost
-----------------------------------------------------------------------------
(***************************************************************************)
(* The halves of ProbeReturns that need no fairness: what the probe awaits *)
(* can come, and nothing that came is asked for again.                     *)
(***************************************************************************)

\* Of some endpoints one comes first in the profile.
LEMMA LessIsWellFounded == IsWellFoundedOn({p \in Nat \X Nat : p[1] < p[2]}, Nat)
BY NatLessThanWellFounded DEF OpToRel

LEMMA LeastEndpoint ==
  ASSUME NEW S \in SUBSET Idx, S # {}
  PROVE  \E i \in S : \A j \in S : i <= j
<1> DEFINE Less == {p \in Nat \X Nat : p[1] < p[2]}
<1>1. IsWellFoundedOn(Less, Nat) /\ S \subseteq Nat
  BY LessIsWellFounded, Indices
<1> HIDE DEF Less
<1>2. PICK i \in S : \A j \in S : ~(<<j, i>> \in Less)
  <2>1. \E i \in S : \A j \in S : ~(<<j, i>> \in Less)
    BY <1>1, WFMin, Zenon
  <2> QED BY <2>1
<1>3. ASSUME NEW j \in S PROVE i <= j
  <2>1. i \in Nat /\ j \in Nat /\ ~(<<j, i>> \in Less)
    BY <1>1, <1>2
  <2>2. ~(j < i)
    BY <2>1 DEF Less
  <2> QED BY <2>1, <2>2
<1> QED BY <1>3

\* The loop over the endpoints has one to ask about for as long as it asks.
LEMMA FirstExists ==
  ASSUME NEW v, \E i \in Idx : v[i] = "none"
  PROVE  \E i \in Idx : First(v, i)
<1> DEFINE Left == {i \in Idx : v[i] = "none"}
<1>1. PICK i \in Left : \A j \in Left : i <= j
  BY LeastEndpoint
<1> QED BY <1>1 DEF First

\* What it awaits next can come.
LEMMA AwaitedIsThere ==
  ASSUME NEW v, NEW c
  PROVE  /\ AwaitScript(v, c) = "resolving" => \E i \in Idx : First(v, i)
         /\ AwaitScript(v, c) = "evaluating" =>
              \E i \in Idx : First(v, i) /\ Cached(c, Declared[i].host)
         /\ AwaitScript(v, c) = "connecting" => \E i \in Idx : v[i] \in Proxies
         /\ AwaitRoutes(v) = "connecting" => \E i \in Idx : v[i] \in Proxies
<1>1. AwaitRoutes(v) = "connecting" => \E i \in Idx : v[i] \in Proxies
  BY DEF AwaitRoutes
<1>2. CASE \A i \in Idx : v[i] # "none"
  BY <1>1, <1>2, AfterRoutes DEF AwaitScript
<1>3. CASE \E i \in Idx : v[i] = "none"
  BY <1>1, <1>3, FirstExists DEF AwaitScript
<1> QED BY <1>2, <1>3

\* The invariant NeverStuck follows from: only one endpoint comes first, and what is
\* left of the routes has a first.
Left == /\ pc = "resolving" => \E i \in Idx : First(via, i)
        /\ pc = "evaluating" => \E i \in Idx : First(via, i) /\ Cached(cache, Declared[i].host)
        /\ pc = "connecting" => \E i \in Idx : Untried(i)

LEMMA LeftIsEnough == Left => NeverStuck
<1> SUFFICES ASSUME Left, pc = "connecting"
             PROVE  \E i \in Idx : Untried(i) /\ \A j \in Idx : Untried(j) => i <= j
  BY DEF Left, NeverStuck
<1> DEFINE Routes == {i \in Idx : Untried(i)}
<1>1. PICK i \in Routes : \A j \in Routes : i <= j
  BY LeastEndpoint DEF Left
<1> QED BY <1>1

LEMMA LeftKept == TypeOK /\ Progress /\ Left /\ [Next]_vars => Left'
<1> SUFFICES ASSUME TypeOK, Progress, Left, [Next]_vars PROVE Left'
  OBVIOUS
<1>1. CASE Start
  <2>1. /\ pc' = "connecting" => pc' = AwaitRoutes(via')
        /\ pc' # "resolving" /\ pc' # "evaluating"
    BY <1>1, AfterRoutes DEF Start
  <2>2. \A i \in Idx : attempt'[i] = NotTried
    BY <1>1 DEF Start, Progress
  <2>3. pc' = "connecting" => \E i \in Idx : via'[i] \in Proxies
    BY <2>1, AwaitedIsThere
  <2> QED BY <2>1, <2>2, <2>3 DEF Left, Untried, Routed
<1>2. CASE FetchReturns \/ Evaluated
  <2>1. pc' \in {"resolving", "evaluating", "connecting"} =>
          pc' = AwaitScript(via', cache) /\ cache' = cache
    BY <1>2 DEF FetchReturns, Evaluated
  <2>2. \A i \in Idx : attempt'[i] = NotTried
    BY <1>2 DEF FetchReturns, Evaluated, Progress
  <2>3. CASE pc' \in {"resolving", "evaluating", "connecting"}
    <3>1. pc' = AwaitScript(via', cache) /\ cache' = cache
      BY <2>1, <2>3
    <3>2. /\ pc' = "resolving" => \E i \in Idx : First(via', i)
          /\ pc' = "evaluating" => \E i \in Idx : First(via', i) /\ Cached(cache, Declared[i].host)
          /\ pc' = "connecting" => \E i \in Idx : via'[i] \in Proxies
      BY <3>1, AwaitedIsThere
    <3> QED BY <2>2, <3>1, <3>2 DEF Left, Untried, Routed, First, Cached
  <2> QED BY <2>3 DEF Left
<1>3. CASE PacUrlRefused
  BY <1>3 DEF PacUrlRefused, Left
<1>4. CASE ResolveReturns
  <2>1. PICK i \in Idx, answer \in {"addresses", "null"} :
          First(via, i) /\ cache' = [cache EXCEPT ![Declared[i].host] = answer]
    BY <1>4 DEF ResolveReturns, Answers
  <2>2. Cached(cache', Declared[i].host)
    BY <2>1, Indices DEF TypeOK, Cached
  <2>3. pc' = "evaluating" /\ via' = via
    BY <1>4 DEF ResolveReturns
  <2> QED BY <2>1, <2>2, <2>3 DEF Left, First, Cached
<1>5. CASE ConnectReturns
  <2>1. /\ pc' = "connecting" => \E j \in Idx : Routed(j) /\ attempt'[j] = NotTried
        /\ pc' \in {"connecting", "done"} /\ via' = via
    BY <1>5 DEF ConnectReturns
  <2> QED BY <2>1 DEF Left, Untried, Routed
<1>6. CASE RunAbort \/ UNCHANGED vars
  BY <1>6 DEF RunAbort, vars, Left, First, Cached, Untried, Routed
<1> QED BY <1>1, <1>2, <1>3, <1>4, <1>5, <1>6 DEF Next

\* Whatever the probe awaits can come: it asks only while there is an endpoint to ask
\* about, evaluates only with its host looked up, and connects only while a route is left.
THEOREM NeverStuckHolds == Spec => []NeverStuck
<1>1. Init => Left
  BY DEF Init, Left
<1>2. Spec => []Left
  BY <1>1, LeftKept, ProgressHolds, PTL DEF Spec
<1> QED BY <1>2, LeftIsEnough, PTL

\* An action of the probe never goes back to an earlier call.
LEMMA Forward ==
  ASSUME TypeOK, Progress, Next
  PROVE  Stage(pc) <= Stage(pc')
<1>1. CASE Start
  BY <1>1, AfterRoutes DEF Start, Stage
<1>2. CASE PacUrlRefused
  BY <1>2 DEF PacUrlRefused, Stage
<1>3. CASE FetchReturns
  <2>1. pc' \in {"resolving", "evaluating", "connecting", "done"}
    BY <1>3, AfterScript DEF FetchReturns
  <2>2. pc = "fetching"
    BY <1>3 DEF FetchReturns
  <2> QED BY <2>1, <2>2 DEF Stage
<1>4. CASE ResolveReturns
  BY <1>4 DEF ResolveReturns, Stage
<1>5. CASE Evaluated
  <2>1. pc' \in {"resolving", "evaluating", "connecting", "done"}
    BY <1>5, AfterScript DEF Evaluated
  <2>2. pc = "evaluating"
    BY <1>5 DEF Evaluated
  <2> QED BY <2>1, <2>2 DEF Stage
<1>6. CASE ConnectReturns
  BY <1>6 DEF ConnectReturns, Stage
<1>7. CASE RunAbort
  BY <1>7 DEF RunAbort, Stage
<1> QED BY <1>1, <1>2, <1>3, <1>4, <1>5, <1>6, <1>7 DEF Next

\* An endpoint keeps its fate.
LEMMA FateStays ==
  ASSUME TypeOK, Progress, Next, NEW i \in Idx, via[i] # "none"
  PROVE  via'[i] = via[i]
<1>1. CASE Start \/ FetchReturns
  BY <1>1 DEF Start, FetchReturns, Progress
<1>2. CASE Evaluated
  <2>1. PICK k \in Idx, verdict \in ScriptVerdicts : First(via, k) /\ via' = [via EXCEPT ![k] = verdict]
    BY <1>2 DEF Evaluated
  <2>2. k # i
    BY <2>1 DEF First
  <2> QED BY <2>1, <2>2 DEF TypeOK
<1>3. CASE PacUrlRefused \/ ResolveReturns \/ ConnectReturns \/ RunAbort
  BY <1>3 DEF PacUrlRefused, ResolveReturns, ConnectReturns, RunAbort
<1> QED BY <1>1, <1>2, <1>3 DEF Next

\* A route keeps what its tunnel came to: it is not among those still to be tried.
LEMMA AttemptStays ==
  ASSUME TypeOK, Progress, Shared, Next, NEW i \in Idx, attempt[i] # NotTried
  PROVE  attempt'[i] = attempt[i]
<1>1. CASE ConnectReturns
  <2>1. PICK k \in Idx, a \in Attempts :
          Untried(k) /\ attempt' = [j \in Idx |-> IF SameRoute(k, j) THEN a ELSE attempt[j]]
    BY <1>1 DEF ConnectReturns
  <2>2. ~SameRoute(k, i)
    BY <2>1 DEF Shared, Untried
  <2> QED BY <2>1, <2>2
<1>2. CASE ~ConnectReturns
  BY <1>2 DEF Next, Start, PacUrlRefused, FetchReturns, ResolveReturns, Evaluated, RunAbort
<1> QED BY <1>1, <1>2

\* Every action of the probe has something to show for it.
LEMMA Advances ==
  ASSUME TypeOK, Uncached, Next
  PROVE  Stage(pc) # Stage(pc') \/ <<aborted, cache, via, attempt>>' # <<aborted, cache, via, attempt>>
<1>1. CASE Start
  BY <1>1, AfterRoutes DEF Start, Stage
<1>2. CASE PacUrlRefused
  BY <1>2 DEF PacUrlRefused, Stage
<1>3. CASE FetchReturns
  <2>1. pc = "fetching" /\ pc' \in {"resolving", "evaluating", "connecting", "done"}
    BY <1>3, AfterScript DEF FetchReturns
  <2> QED BY <2>1 DEF Stage
<1>4. CASE ResolveReturns
  <2>1. PICK i \in Idx, answer \in {"addresses", "null"} :
          First(via, i) /\ cache' = [cache EXCEPT ![Declared[i].host] = answer]
    BY <1>4 DEF ResolveReturns, Answers
  <2>2. cache[Declared[i].host] = "none"
    BY <1>4, <2>1 DEF Uncached, ResolveReturns
  <2>3. cache'[Declared[i].host] = answer
    BY <2>1, Indices DEF TypeOK
  <2> QED BY <2>2, <2>3
<1>5. CASE Evaluated
  <2>1. PICK i \in Idx, verdict \in ScriptVerdicts : First(via, i) /\ via' = [via EXCEPT ![i] = verdict]
    BY <1>5 DEF Evaluated
  <2>2. via[i] = "none" /\ via'[i] = verdict
    BY <2>1 DEF First, TypeOK
  <2>3. verdict # "none"
    BY DEF ScriptVerdicts
  <2> QED BY <2>2, <2>3
<1>6. CASE ConnectReturns
  <2>1. PICK k \in Idx, a \in Attempts :
          Untried(k) /\ attempt' = [j \in Idx |-> IF SameRoute(k, j) THEN a ELSE attempt[j]]
    BY <1>6 DEF ConnectReturns
  <2>2. attempt[k] = NotTried /\ attempt'[k] = a
    BY <2>1 DEF Untried, SameRoute
  <2> QED BY <2>2, Tried
<1>7. CASE RunAbort
  BY <1>7 DEF RunAbort
<1> QED BY <1>1, <1>2, <1>3, <1>4, <1>5, <1>6, <1>7 DEF Next

\* Nothing is done twice, and each step brings the probe further: with NeverStuck, it is
\* over after as many steps as it has hosts, endpoints and routes, and a few.
THEOREM EachOnceHolds == Spec => EachOnce
<1> DEFINE Once == /\ Stage(pc) <= Stage(pc')
                   /\ \A h \in Hosts : cache[h] # "none" => cache'[h] = cache[h]
                   /\ \A i \in Idx : via[i] # "none" => via'[i] = via[i]
                   /\ \A i \in Idx : attempt[i] # NotTried => attempt'[i] = attempt[i]
                   /\ \/ Stage(pc) # Stage(pc')
                      \/ <<aborted, cache, via, attempt>>' # <<aborted, cache, via, attempt>>
<1>1. TypeOK /\ Progress /\ Shared /\ Uncached /\ [Next]_vars
        /\ [\A h \in Hosts : cache[h] # "none" => cache'[h] = cache[h]]_vars => [Once]_vars
  BY Forward, FateStays, AttemptStays, Advances
<1>2. Spec => [][\A h \in Hosts : cache[h] # "none" => cache'[h] = cache[h]]_vars
  BY OneAnswerPerHostHolds DEF OneAnswerPerHost
<1>3. Spec => []Shared /\ []Uncached
  BY SharedHolds, UncachedHolds
<1> QED BY <1>1, <1>2, <1>3, ProgressHolds, PTL DEF Spec, EachOnce
=============================================================================
