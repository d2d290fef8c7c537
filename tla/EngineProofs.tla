---------------------------- MODULE EngineProofs ----------------------------
(***************************************************************************)
(* Proofs about a run, for any profile: any sets of checks and whatever    *)
(* each of them may come to.                                               *)
(***************************************************************************)
EXTENDS Engine, TLAPS

\* The registry and what each probe checks, spelt out.
LEMMA ProbeTable ==
  /\ Len(Probes) = 5
  /\ Probes[1] = "dns" /\ Probes[2] = "egress" /\ Probes[3] = "proxy"
  /\ Probes[4] = "tls" /\ Probes[5] = "truststore"
  /\ ChecksOf("dns") = Hosts /\ ChecksOf("egress") = Endpoints /\ ChecksOf("tls") = Targets
  /\ ChecksOf("proxy") = {"proxy"} /\ ChecksOf("truststore") = {"truststore"}
<1>1. /\ Len(Probes) = 5
      /\ Probes[1] = "dns" /\ Probes[2] = "egress" /\ Probes[3] = "proxy"
      /\ Probes[4] = "tls" /\ Probes[5] = "truststore"
  BY DEF Probes
<1>2. ChecksOf("dns") = Hosts /\ ChecksOf("egress") = Endpoints /\ ChecksOf("tls") = Targets
  BY DEF ChecksOf
<1>3. ChecksOf("proxy") = {"proxy"} /\ ChecksOf("truststore") = {"truststore"}
  BY DEF ChecksOf
<1> QED BY <1>1, <1>2, <1>3

\* Every probe is in the registry once, and no check belongs to two of them.
LEMMA ProbesApart ==
  /\ \A i \in 1..5 : Probes[i] \in Names /\ ChecksOf(Probes[i]) \subseteq Checks
  /\ \A p \in Names : \E i \in 1..5 : p = Probes[i]
  /\ \A c \in Checks : \E i \in 1..5 : c \in ChecksOf(Probes[i])
  /\ \A i, j \in 1..5 : i # j =>
       (ChecksOf(Probes[i]) \cup {Probes[i]}) \cap (ChecksOf(Probes[j]) \cup {Probes[j]}) = {}
<1> \A i \in 1..5 : i = 1 \/ i = 2 \/ i = 3 \/ i = 4 \/ i = 5 OBVIOUS
<1>1. \A i \in 1..5 : Probes[i] \in Names /\ ChecksOf(Probes[i]) \subseteq Checks
  BY ProbeTable DEF Names, Checks
<1>2. \A p \in Names : \E i \in 1..5 : p = Probes[i]
  BY ProbeTable DEF Names
<1>3. \A c \in Checks : \E i \in 1..5 : c \in ChecksOf(Probes[i])
  BY ProbeTable DEF Checks
<1>4. ASSUME NEW i \in 1..5, NEW j \in 1..5, i # j
      PROVE  (ChecksOf(Probes[i]) \cup {Probes[i]}) \cap (ChecksOf(Probes[j]) \cup {Probes[j]}) = {}
  BY <1>4, ProbeTable, ChecksAssumption DEF Names
<1> QED BY <1>1, <1>2, <1>3, <1>4

LEMMA CurrentIsProbe ==
  ASSUME TypeOK, cur <= Len(Probes)
  PROVE  cur \in 1..5 /\ Current \in Names /\ ChecksOf(Current) \subseteq Checks
<1>1. cur \in 1..5 BY ProbeTable DEF TypeOK
<1> QED BY <1>1, ProbesApart DEF Current

\* What a check comes to is a severity.
LEMMA VerdictsAreSeverities ==
  ASSUME NEW c \in Checks
  PROVE  Verdicts[c] \cup {"threw"} \subseteq Severity \cup {"threw"}
BY VerdictsAssumption

-----------------------------------------------------------------------------
(***************************************************************************)
(* Type correctness.                                                       *)
(***************************************************************************)
LEMMA CheckStepTypes == TypeOK /\ CheckStep => TypeOK'
<1> SUFFICES ASSUME TypeOK, CheckStep PROVE TypeOK' OBVIOUS
<1> USE DEF TypeOK
<1>1. ASSUME NEW c \in Checks, Answer(c) PROVE TypeOK'
  BY <1>1, VerdictsAreSeverities DEF Answer, runVars
<1>2. ASSUME NEW t \in Targets, CheckTarget(t) PROVE TypeOK'
  <2>1. t \in Checks BY DEF Checks
  <2>2. AnchorsOf(t) \subseteq Targets \X Paths BY DEF AnchorsOf
  <2>3. anchors' \subseteq Targets \X Paths BY <1>2, <2>2 DEF CheckTarget
  <2>4. work' \in [Checks -> Severity \cup {"idle", "running", "threw"}]
    BY <1>2, <2>1, VerdictsAreSeverities DEF CheckTarget
  <2> QED BY <1>2, <2>3, <2>4 DEF CheckTarget, runVars
<1>3. ASSUME NEW t \in Targets, NEW p \in Paths, LegAnswers(t, p) PROVE TypeOK'
  BY <1>3 DEF LegAnswers, LegStates, runVars
<1>4. ASSUME NEW t \in Targets, NEW p \in Paths, LegThrows(t, p) PROVE TypeOK'
  BY <1>4 DEF LegThrows, LegStates, runVars, Checks
<1>5. CASE ReadStores \/ PipeHeld \/ PipeReleased
  BY <1>5 DEF ReadStores, ReadsFrom, PipeHeld, PipeReleased, runVars, Checks
<1>6. CASE CrossCheck
  <2>1. "truststore" \in Checks BY DEF Checks
  <2> QED BY <1>6, <2>1, VerdictsAreSeverities DEF CrossCheck, runVars
<1> QED BY <1>1, <1>2, <1>3, <1>4, <1>5, <1>6 DEF CheckStep

LEMMA RunStepTypes == TypeOK /\ RunStep => TypeOK'
<1> SUFFICES ASSUME TypeOK, RunStep PROVE TypeOK' OBVIOUS
<1> USE DEF TypeOK
<1>1. CASE LoadProfile BY <1>1 DEF LoadProfile
<1>2. CASE BeginProbe
  <2>1. ChecksOf(Current) \subseteq Checks BY <1>2, CurrentIsProbe DEF BeginProbe
  <2>2. Entering(Current) \in Severity \cup {"running"} BY DEF Entering, CutSeverity, Severity
  <2>3. \A p \in Paths : LegEntering(p) \in LegStates BY DEF LegEntering, LegStates
  <2>4. "threw" \in LegStates BY DEF LegStates
  <2>5. work' \in [Checks -> Severity \cup {"idle", "running", "threw"}]
    BY <1>2, <2>2 DEF BeginProbe
  <2>6. leg' \in [Targets -> [Paths -> LegStates]]
    BY <1>2, <2>3, <2>4 DEF BeginProbe
  <2>7. loose' \in BOOLEAN BY <1>2, Zenon DEF BeginProbe, StrandsLookup
  <2> QED BY <1>2, <2>5, <2>6, <2>7 DEF BeginProbe
<1>3. CASE ProbeReturns
  <2>1. ChecksOf(Current) \subseteq Checks /\ cur \in 1..5 BY <1>3, CurrentIsProbe DEF ProbeReturns, Probing
  <2>2. \A c \in ChecksOf(Current) : Finding(c, work[c]) \in [from : Checks \cup Names, severity : Severity]
    BY <1>3, <2>1 DEF ProbeReturns, AllIn, Finding
  <2>3. findings' \subseteq [from : Checks \cup Names, severity : Severity]
    BY <1>3, <2>2 DEF ProbeReturns
  <2>4. cur' \in 1..6 BY <1>3, <2>1 DEF ProbeReturns
  <2>5. begun' \in BOOLEAN BY <1>3 DEF ProbeReturns
  <2> QED BY <1>3, <2>3, <2>4, <2>5 DEF ProbeReturns
<1>4. CASE ProbeThrows
  <2>1. Current \in Names /\ cur \in 1..5 BY <1>4, CurrentIsProbe DEF ProbeThrows, Probing
  <2>2. Finding(Current, "unknown") \in [from : Checks \cup Names, severity : Severity]
    BY <2>1 DEF Finding, Severity
  <2>3. findings' \subseteq [from : Checks \cup Names, severity : Severity]
    BY <1>4, <2>2 DEF ProbeThrows
  <2>4. cur' \in 1..6 BY <1>4, <2>1 DEF ProbeThrows
  <2>5. begun' \in BOOLEAN BY <1>4 DEF ProbeThrows
  <2> QED BY <1>4, <2>3, <2>4, <2>5 DEF ProbeThrows
<1>5. CASE FinishProbes BY <1>5 DEF FinishProbes
<1>6. CASE WriteReport
  <2>1. ExitCodeFor(RollUp) \in {0, 1, 2}
    BY DEF ExitCodeFor, RollUp
  <2> QED BY <1>6, <2>1 DEF WriteReport
<1> QED BY <1>1, <1>2, <1>3, <1>4, <1>5, <1>6 DEF RunStep

\* A lookup that nobody handles touches the process and nothing in it.
LEMMA LooseLeaves ==
  ASSUME LooseStep
  PROVE  UNCHANGED <<cur, begun, armed, aborted, work, proxied, leg, anchors, reading, seen, findings>>
BY DEF LooseStep, ProxyGoesOn, LooseAnswers, LooseFails

LEMMA LooseStepTypes == TypeOK /\ LooseStep => TypeOK'
<1> SUFFICES ASSUME TypeOK, LooseStep PROVE TypeOK' OBVIOUS
<1>1. stage' \in {stage, "died"} /\ exit' \in {exit, 1} /\ loose' \in BOOLEAN
  BY DEF LooseStep, ProxyGoesOn, LooseAnswers, LooseFails
<1> QED BY <1>1, LooseLeaves DEF TypeOK

LEMMA TypeStep == TypeOK /\ [Next]_vars => TypeOK'
<1> SUFFICES ASSUME TypeOK, [Next]_vars PROVE TypeOK' OBVIOUS
<1>1. CASE RunStep BY <1>1, RunStepTypes
<1>2. CASE CheckStep BY <1>2, CheckStepTypes
<1>3. CASE Expire
  <2>1. work' \in [Checks -> Severity \cup {"idle", "running", "threw"}]
    BY <1>3 DEF Expire, TypeOK, CutSeverity, Severity
  <2>2. leg' \in [Targets -> [Paths -> LegStates]] BY <1>3 DEF Expire, TypeOK, LegStates
  <2> QED BY <1>3, <2>1, <2>2 DEF Expire, TypeOK
<1>4. CASE UNCHANGED vars BY <1>4 DEF TypeOK, vars
<1>5. CASE LooseStep BY <1>5, LooseStepTypes
<1> QED BY <1>1, <1>2, <1>3, <1>4, <1>5 DEF Next

\* Every variable keeps its type: in particular every finding is one the report
\* knows, from a check or a probe that exists, and the code is one of four.
THEOREM TypeCorrect == Spec => []TypeOK
<1>1. ASSUME Init PROVE TypeOK
  <2>1. work \in [Checks -> Severity \cup {"idle", "running", "threw"}]
        /\ leg \in [Targets -> [Paths -> LegStates]]
    BY <1>1 DEF Init, LegStates
  <2>2. begun \in BOOLEAN /\ armed \in BOOLEAN /\ aborted \in BOOLEAN /\ proxied \in BOOLEAN
        /\ loose \in BOOLEAN
    BY <1>1, Zenon DEF Init
  <2>3. cur \in 1..6 BY <1>1 DEF Init
  <2> QED BY <1>1, <2>1, <2>2, <2>3 DEF Init, TypeOK
<1> QED BY <1>1, TypeStep, PTL DEF Spec

-----------------------------------------------------------------------------
(***************************************************************************)
(* The ledger of the run: the probes that are over are accounted for, those *)
(* to come have not been touched.                                          *)
(***************************************************************************)
ToCome(i) == i > cur \/ (i = cur /\ ~begun)

Order == /\ begun => cur <= 5 /\ stage \in {"probing", "died"}
         /\ stage = "loading" => cur = 1
         /\ stage = "writing" => cur = 6
         /\ stage = "done" => exit = 3 \/ cur = 6
         /\ exit # NoExit => stage \in {"done", "died"}
         /\ stage = "died" => exit = 1

Untouched == \A i \in 1..5 :
  /\ ToCome(i) => \A c \in ChecksOf(Probes[i]) : work[c] = "idle"
  /\ i >= cur => SaidOf(Probes[i]) = {}

Past == \A i \in 1..5 : i < cur => Accounted(Probes[i])

\* A capture is out only for a target that runs, or that the other one ended.
Waiting == \A t \in Targets, p \in Paths : LegPending(t, p) => work[t] \in {"running", "threw"}

Ledger == Order /\ Untouched /\ Past /\ Waiting

\* What a check has come to it keeps.
Kept == \A c \in Checks : work[c] \notin {"idle", "running"} => work'[c] = work[c]

LEMMA ResultsAreKept == TypeOK /\ Untouched /\ Waiting /\ [Next]_vars => Kept
<1> SUFFICES ASSUME TypeOK, Untouched, Waiting, [Next]_vars PROVE Kept OBVIOUS
<1>0. work = [c \in Checks |-> work[c]] /\ "truststore" \in Checks /\ Targets \subseteq Checks
  BY DEF TypeOK, Checks
<1>1. ASSUME work' = work PROVE Kept BY <1>1 DEF Kept
<1>2. ASSUME NEW c \in Checks, NEW r, Running(c), work' = [work EXCEPT ![c] = r] PROVE Kept
  BY <1>2, <1>0 DEF Kept, Running
<1>3. CASE BeginProbe
  <2>1. cur \in 1..5 BY <1>3, CurrentIsProbe DEF BeginProbe
  <2>2. \A c \in ChecksOf(Current) : work[c] = "idle"
    BY <1>3, <2>1 DEF BeginProbe, Untouched, ToCome, Current
  <2> QED BY <1>3, <2>2 DEF BeginProbe, Kept
<1>4. ASSUME NEW t \in Targets, CheckTarget(t) PROVE Kept
  BY <1>4, <1>2, <1>0 DEF CheckTarget
<1>5. ASSUME NEW t \in Targets, NEW p \in Paths, LegThrows(t, p) PROVE Kept
  BY <1>5, <1>0 DEF LegThrows, Waiting, Kept
<1>6. CASE Expire BY <1>6 DEF Expire, Kept, Running
<1>7. ASSUME NEW c \in Checks, Answer(c) PROVE Kept BY <1>7, <1>2 DEF Answer
<1>8. CASE ReadStores \/ PipeHeld \/ PipeReleased \/ CrossCheck BY <1>8, <1>0, <1>1, <1>2 DEF ReadStores, ReadsFrom, PipeHeld, PipeReleased, CrossCheck
<1>9. CASE RunStep /\ ~BeginProbe
  BY <1>9, <1>1 DEF RunStep, LoadProfile, ProbeReturns, ProbeThrows, FinishProbes, WriteReport
<1>10. ASSUME NEW t \in Targets, NEW p \in Paths, LegAnswers(t, p) PROVE Kept
  BY <1>10, <1>1 DEF LegAnswers
<1>11. CASE UNCHANGED vars BY <1>11, <1>1 DEF vars
<1>12. CASE LooseStep BY <1>1, <1>12, LooseLeaves
<1> QED BY <1>3, <1>4, <1>5, <1>6, <1>7, <1>8, <1>9, <1>10, <1>11, <1>12 DEF Next, CheckStep, RunStep

\* An entry of the ledger stands once the results behind it do.
LEMMA EntryStands ==
  ASSUME NEW p \in Names, Kept, Accounted(p), SaidOf(p)' = SaidOf(p), ChecksOf(p) \subseteq Checks
  PROVE  Accounted(p)'
<1>1. CASE SaidOf(p) = {Finding(c, work[c]) : c \in ChecksOf(p)} /\ AllIn(p)
  <2>1. \A c \in ChecksOf(p) : work'[c] = work[c] BY <1>1 DEF Kept, AllIn, Severity
  <2>2. {Finding(c, work[c]) : c \in ChecksOf(p)} = {Finding(c, work'[c]) : c \in ChecksOf(p)}
    BY <2>1
  <2>3. AllIn(p)' BY <1>1, <2>1 DEF AllIn
  <2> QED BY <1>1, <2>2, <2>3 DEF Accounted
<1>2. CASE SaidOf(p) = {Finding(p, "unknown")} /\ \E c \in ChecksOf(p) : work[c] = "threw"
  BY <1>2 DEF Accounted, Kept
<1> QED BY <1>1, <1>2 DEF Accounted

\* The steps that leave the order of the run and the report alone.
LEMMA LedgerOfCheckStep ==
  ASSUME TypeOK, Ledger, [Next]_vars, UNCHANGED <<cur, begun, findings>>,
         UNCHANGED <<stage, exit>> \/ (stage' = "died" /\ exit' = 1),
         \A c \in Checks : work[c] = "idle" => work'[c] = "idle"
  PROVE  Order' /\ Untouched' /\ Past'
<1>1. Kept BY ResultsAreKept DEF Ledger
<1>2. \A p : SaidOf(p)' = SaidOf(p) BY DEF SaidOf
<1>3. Order' BY DEF Ledger, Order
<1>4. Untouched' BY <1>2, ProbesApart DEF Ledger, Untouched, ToCome
<1>5. Past'
  <2> SUFFICES ASSUME NEW i \in 1..5, i < cur' PROVE Accounted(Probes[i])' BY DEF Past
  <2>1. Accounted(Probes[i]) BY DEF Ledger, Past
  <2> QED BY <1>1, <1>2, <2>1, ProbesApart, EntryStands
<1> QED BY <1>3, <1>4, <1>5

LEMMA CheckStepLedger == TypeOK /\ Ledger /\ (CheckStep \/ Expire) => Order' /\ Untouched' /\ Past'
<1> SUFFICES ASSUME TypeOK, Ledger, CheckStep \/ Expire PROVE Order' /\ Untouched' /\ Past' OBVIOUS
<1>1. UNCHANGED <<stage, cur, begun, findings, exit>>
  BY DEF CheckStep, Expire, Answer, CheckTarget, LegAnswers, LegThrows, ReadStores, ReadsFrom, PipeHeld, PipeReleased, CrossCheck, runVars
<1>2. ASSUME NEW c \in Checks, work[c] = "idle" PROVE work'[c] = "idle"
  <2>0. work = [d \in Checks |-> work[d]] BY DEF TypeOK
  <2>1. ASSUME NEW d, NEW r, work[d] # "idle", work' = [work EXCEPT ![d] = r] PROVE work'[c] = "idle"
    BY <1>2, <2>0, <2>1
  <2>2. CASE Expire BY <1>2, <2>2 DEF Expire, Running
  <2>3. ASSUME NEW d \in Checks, Answer(d) PROVE work'[c] = "idle"
    BY <1>2, <2>1, <2>3 DEF Answer, Running
  <2>4. ASSUME NEW t \in Targets, CheckTarget(t) PROVE work'[c] = "idle"
    BY <1>2, <2>1, <2>4 DEF CheckTarget, Running
  <2>5. ASSUME NEW t \in Targets, NEW p \in Paths, LegAnswers(t, p) PROVE work'[c] = "idle"
    BY <1>2, <2>5 DEF LegAnswers
  <2>6. ASSUME NEW t \in Targets, NEW p \in Paths, LegThrows(t, p) PROVE work'[c] = "idle"
    BY <1>2, <2>1, <2>6 DEF LegThrows, Ledger, Waiting
  <2>7. CASE ReadStores \/ PipeHeld \/ PipeReleased \/ CrossCheck
    BY <1>2, <2>1, <2>7 DEF ReadStores, ReadsFrom, PipeHeld, PipeReleased, CrossCheck, Running
  <2> QED BY <2>2, <2>3, <2>4, <2>5, <2>6, <2>7 DEF CheckStep
<1> QED BY <1>1, <1>2, LedgerOfCheckStep DEF Next

LEMMA LooseLedger == TypeOK /\ Ledger /\ LooseStep => Order' /\ Untouched' /\ Past'
<1> SUFFICES ASSUME TypeOK, Ledger, LooseStep PROVE Order' /\ Untouched' /\ Past' OBVIOUS
<1>1. UNCHANGED <<stage, exit>> \/ (stage' = "died" /\ exit' = 1)
  BY DEF LooseStep, ProxyGoesOn, LooseAnswers, LooseFails
<1> QED BY <1>1, LooseLeaves, LedgerOfCheckStep DEF Next

LEMMA BeginLedger == TypeOK /\ Ledger /\ BeginProbe => Order' /\ Untouched' /\ Past'
<1> SUFFICES ASSUME TypeOK, Ledger, BeginProbe PROVE Order' /\ Untouched' /\ Past' OBVIOUS
<1>1. Kept BY ResultsAreKept DEF Ledger, Next, RunStep
<1>2. cur \in 1..5 /\ cur' = cur /\ begun' = TRUE /\ stage' = stage /\ exit' = exit
  BY CurrentIsProbe DEF BeginProbe
<1>3. \A p : SaidOf(p)' = SaidOf(p) BY DEF SaidOf, BeginProbe
<1>4. Order'
  <2>1. stage' = "probing" BY <1>2 DEF BeginProbe
  <2>2. cur' <= 5 BY <1>2
  <2> QED BY <1>2, <2>1, <2>2 DEF Order, Ledger
<1>5. Untouched'
  <2> SUFFICES ASSUME NEW i \in 1..5
               PROVE  /\ ToCome(i)' => \A c \in ChecksOf(Probes[i]) : work'[c] = "idle"
                      /\ i >= cur' => SaidOf(Probes[i])' = {}
    BY DEF Untouched
  <2>1. i >= cur' => SaidOf(Probes[i])' = {} BY <1>2, <1>3 DEF Ledger, Untouched
  <2>2. ASSUME ToCome(i)' PROVE \A c \in ChecksOf(Probes[i]) : work'[c] = "idle"
    <3>1. i > cur BY <1>2, <2>2 DEF ToCome
    <3>2. ChecksOf(Probes[i]) \cap ChecksOf(Current) = {} BY <1>2, <3>1, ProbesApart DEF Current
    <3>3. \A c \in ChecksOf(Probes[i]) : work'[c] = work[c]
      BY <3>2, ProbesApart DEF BeginProbe
    <3> QED BY <3>1, <3>3 DEF Ledger, Untouched, ToCome
  <2> QED BY <2>1, <2>2
<1>6. Past'
  <2> SUFFICES ASSUME NEW i \in 1..5, i < cur' PROVE Accounted(Probes[i])' BY DEF Past
  <2>1. Accounted(Probes[i]) BY <1>2 DEF Ledger, Past
  <2> QED BY <1>1, <1>3, <2>1, ProbesApart, EntryStands
<1> QED BY <1>4, <1>5, <1>6

\* A probe that ends adds its own entry and no other.
LEMMA EndLedger == TypeOK /\ Ledger /\ (ProbeReturns \/ ProbeThrows) => Order' /\ Untouched' /\ Past'
<1> SUFFICES ASSUME TypeOK, Ledger, ProbeReturns \/ ProbeThrows PROVE Order' /\ Untouched' /\ Past'
  OBVIOUS
<1> DEFINE New == IF ProbeReturns THEN {Finding(c, work[c]) : c \in ChecksOf(Current)}
                  ELSE {Finding(Current, "unknown")}
<1>1. Kept BY ResultsAreKept DEF Ledger, Next, RunStep
<1>2. /\ cur \in 1..5 /\ cur' = cur + 1 /\ begun' = FALSE /\ stage = "probing"
      /\ UNCHANGED <<stage, exit, work>>
  BY CurrentIsProbe DEF ProbeReturns, ProbeThrows, Probing
<1>3. findings' = findings \cup New
  BY DEF ProbeReturns, ProbeThrows
<1>4. \A f \in New : f.from \in ChecksOf(Current) \cup {Current} BY DEF Finding
<1> HIDE DEF New
<1>5. ASSUME NEW i \in 1..5, i # cur PROVE SaidOf(Probes[i])' = SaidOf(Probes[i])
  <2>1. (ChecksOf(Probes[i]) \cup {Probes[i]}) \cap (ChecksOf(Current) \cup {Current}) = {}
    BY <1>2, <1>5, ProbesApart DEF Current
  <2> QED BY <1>3, <1>4, <2>1 DEF SaidOf
<1> PICK k \in 1..5 : k = cur BY <1>2
<1>6. SaidOf(Probes[k])' = New
  <2>1. SaidOf(Probes[k]) = {} BY <1>2 DEF Ledger, Untouched
  <2>2. \A f \in New : f.from \in ChecksOf(Probes[k]) \cup {Probes[k]} BY <1>4 DEF Current
  <2>3. SaidOf(Probes[k])' = SaidOf(Probes[k]) \cup New
    BY <1>3, <2>2 DEF SaidOf
  <2> QED BY <2>1, <2>3
<1>7. Order'
  <2>1. exit' = NoExit /\ stage' = "probing" BY <1>2 DEF Ledger, Order
  <2> QED BY <1>2, <2>1 DEF Order
<1>8. Untouched'
  <2> SUFFICES ASSUME NEW i \in 1..5
               PROVE  /\ ToCome(i)' => \A c \in ChecksOf(Probes[i]) : work'[c] = "idle"
                      /\ i >= cur' => SaidOf(Probes[i])' = {}
    BY DEF Untouched
  <2>1. ASSUME i >= cur' PROVE SaidOf(Probes[i])' = {}
    <3>1. i # cur /\ i >= cur BY <1>2, <2>1
    <3> QED BY <1>5, <3>1 DEF Ledger, Untouched
  <2>2. ASSUME ToCome(i)' PROVE \A c \in ChecksOf(Probes[i]) : work'[c] = "idle"
    <3>1. i > cur BY <1>2, <2>2 DEF ToCome
    <3> QED BY <1>2, <3>1 DEF Ledger, Untouched, ToCome
  <2> QED BY <2>1, <2>2
<1>9. Accounted(Probes[k])'
  <2>1. CASE ProbeReturns
    <3>1. New = {Finding(c, work'[c]) : c \in ChecksOf(Probes[k])}
      BY <2>1, <1>2 DEF New, Current
    <3>2. AllIn(Probes[k])' BY <2>1, <1>2 DEF ProbeReturns, AllIn, Current
    <3> QED BY <1>6, <3>1, <3>2 DEF Accounted
  <2>2. CASE ~ProbeReturns
    <3>1. New = {Finding(Probes[k], "unknown")} BY <2>2 DEF New, Current
    <3>2. \E c \in ChecksOf(Probes[k]) : work'[c] = "threw"
      BY <2>2, <1>2 DEF ProbeThrows, Current
    <3> QED BY <1>6, <3>1, <3>2 DEF Accounted
  <2> QED BY <2>1, <2>2
<1>10. Past'
  <2> SUFFICES ASSUME NEW i \in 1..5, i < cur' PROVE Accounted(Probes[i])' BY DEF Past
  <2>1. CASE i = k BY <1>9, <2>1
  <2>2. CASE i # k
    <3>1. i < cur BY <1>2, <2>2
    <3>2. Accounted(Probes[i]) BY <3>1 DEF Ledger, Past
    <3> QED BY <1>1, <1>5, <2>2, <3>2, ProbesApart, EntryStands
  <2> QED BY <2>1, <2>2
<1> QED BY <1>7, <1>8, <1>10

\* The first step and the last two.
LEMMA EdgeLedger ==
  TypeOK /\ Ledger /\ (LoadProfile \/ FinishProbes \/ WriteReport) => Order' /\ Untouched' /\ Past'
<1> SUFFICES ASSUME TypeOK, Ledger, LoadProfile \/ FinishProbes \/ WriteReport
             PROVE  Order' /\ Untouched' /\ Past'
  OBVIOUS
<1>1. Kept BY ResultsAreKept DEF Ledger, Next, RunStep
<1>2. UNCHANGED <<cur, begun, work, findings>> BY DEF LoadProfile, FinishProbes, WriteReport
<1>3. \A p : SaidOf(p)' = SaidOf(p) BY <1>2 DEF SaidOf
<1>4. Order'
  <2>1. CASE LoadProfile BY <2>1 DEF LoadProfile, Ledger, Order
  <2>2. CASE FinishProbes BY <2>2, ProbeTable DEF FinishProbes, Ledger, Order, TypeOK
  <2>3. CASE WriteReport BY <2>3 DEF WriteReport, Ledger, Order
  <2> QED BY <2>1, <2>2, <2>3
<1>5. Untouched' BY <1>2, <1>3 DEF Ledger, Untouched, ToCome
<1>6. Past'
  <2> SUFFICES ASSUME NEW i \in 1..5, i < cur' PROVE Accounted(Probes[i])' BY DEF Past
  <2>1. Accounted(Probes[i]) BY <1>2 DEF Ledger, Past
  <2> QED BY <1>1, <1>3, <2>1, ProbesApart, EntryStands
<1> QED BY <1>4, <1>5, <1>6

LEMMA WaitingStep == TypeOK /\ Ledger /\ [Next]_vars => Waiting'
<1> SUFFICES ASSUME TypeOK, Ledger, [Next]_vars, NEW t \in Targets, NEW p \in Paths, LegPending(t, p)'
             PROVE  work'[t] \in {"running", "threw"}
  BY DEF Waiting
<1> USE DEF LegPending
<1>0. /\ work = [c \in Checks |-> work[c]]
      /\ leg = [u \in Targets |-> [q \in Paths |-> leg[u][q]]]
      /\ Targets \subseteq Checks /\ t # "truststore" /\ t # "proxy"
      /\ t \notin Hosts \cup Endpoints
  BY ChecksAssumption DEF TypeOK, Checks, Names
<1>1. LegPending(t, p) => work[t] \in {"running", "threw"} BY DEF Ledger, Waiting
<1>2. ASSUME UNCHANGED <<work, leg>> PROVE work'[t] \in {"running", "threw"} BY <1>1, <1>2
<1>3. CASE BeginProbe
  <2>1. cur \in 1..5 BY <1>3, CurrentIsProbe DEF BeginProbe
  <2>2. CASE Current = "tls"
    <3>1. ChecksOf(Current) = Targets BY <2>2, ProbeTable
    <3>2. Entering(Current) = "running" BY <2>2 DEF Entering
    <3> QED BY <1>0, <1>3, <3>1, <3>2 DEF BeginProbe
  <2>3. CASE Current # "tls"
    <3>1. Current = Probes[cur] /\ Probes[4] = "tls" /\ ChecksOf("tls") = Targets
      BY ProbeTable DEF Current
    <3>2. t \notin ChecksOf(Current) BY <2>1, <2>3, <3>1, ProbesApart
    <3>3. work'[t] = work[t] /\ leg' = leg BY <1>0, <1>3, <2>3, <3>2 DEF BeginProbe
    <3> QED BY <1>1, <3>3
  <2> QED BY <2>2, <2>3
<1>4. CASE RunStep /\ ~BeginProbe
  BY <1>2, <1>4 DEF RunStep, LoadProfile, ProbeReturns, ProbeThrows, FinishProbes, WriteReport
<1>5. ASSUME NEW c \in Checks, Answer(c) PROVE work'[t] \in {"running", "threw"}
  <2>1. leg' = leg /\ c # t BY <1>0, <1>5 DEF Answer
  <2>2. work'[t] = work[t] BY <1>0, <1>5, <2>1 DEF Answer
  <2> QED BY <1>1, <2>1, <2>2
<1>6. ASSUME NEW u \in Targets, CheckTarget(u) PROVE work'[t] \in {"running", "threw"}
  <2>1. leg' = leg BY <1>6 DEF CheckTarget
  <2>2. u # t BY <1>6, <2>1 DEF CheckTarget, LegsIn
  <2>3. work'[t] = work[t] BY <1>0, <1>6, <2>2 DEF CheckTarget
  <2> QED BY <1>1, <2>1, <2>3
<1>7. ASSUME NEW u \in Targets, NEW q \in Paths, LegAnswers(u, q) PROVE work'[t] \in {"running", "threw"}
  <2>1. LegPending(t, p) BY <1>0, <1>7 DEF LegAnswers
  <2> QED BY <1>1, <1>7, <2>1 DEF LegAnswers
<1>8. ASSUME NEW u \in Targets, NEW q \in Paths, LegThrows(u, q) PROVE work'[t] \in {"running", "threw"}
  <2>1. LegPending(t, p) BY <1>0, <1>8 DEF LegThrows
  <2> QED BY <1>0, <1>1, <1>8, <2>1 DEF LegThrows
<1>9. CASE ReadStores \/ PipeHeld \/ PipeReleased \/ CrossCheck
  <2>1. leg' = leg /\ work'[t] = work[t] BY <1>0, <1>9 DEF ReadStores, ReadsFrom, PipeHeld, PipeReleased, CrossCheck
  <2> QED BY <1>1, <2>1
<1>10. CASE Expire
  <2>1. FALSE BY <1>0, <1>10 DEF Expire
  <2> QED BY <2>1
<1>11. CASE UNCHANGED vars BY <1>11, <1>2 DEF vars
<1>12. CASE LooseStep BY <1>2, <1>12, LooseLeaves
<1> QED BY <1>3, <1>4, <1>5, <1>6, <1>7, <1>8, <1>9, <1>10, <1>11, <1>12 DEF Next, CheckStep, RunStep

LEMMA LedgerStep == TypeOK /\ Ledger /\ [Next]_vars => Ledger'
<1> SUFFICES ASSUME TypeOK, Ledger, [Next]_vars PROVE Order' /\ Untouched' /\ Past'
  BY WaitingStep DEF Ledger
<1>1. CASE CheckStep \/ Expire BY <1>1, CheckStepLedger
<1>2. CASE BeginProbe BY <1>2, BeginLedger
<1>3. CASE ProbeReturns \/ ProbeThrows BY <1>3, EndLedger
<1>4. CASE LoadProfile \/ FinishProbes \/ WriteReport BY <1>4, EdgeLedger
<1>5. CASE UNCHANGED vars
  <2>1. UNCHANGED <<stage, cur, begun, findings, exit>> /\ work' = work BY <1>5 DEF vars
  <2> QED BY <2>1, LedgerOfCheckStep
<1>6. CASE LooseStep BY <1>6, LooseLedger
<1> QED BY <1>1, <1>2, <1>3, <1>4, <1>5, <1>6 DEF Next, RunStep

LEMMA InitLedger == Init => Ledger
<1> SUFFICES ASSUME Init PROVE Ledger OBVIOUS
<1>1. Order BY DEF Init, Order
<1>2. Untouched
  <2>1. \A p : SaidOf(p) = {} BY DEF Init, SaidOf
  <2>2. \A c \in Checks : work[c] = "idle" BY DEF Init
  <2> QED BY <2>1, <2>2, ProbesApart DEF Untouched
<1>3. Past BY DEF Init, Past
<1>4. Waiting BY DEF Init, Waiting, LegPending
<1> QED BY <1>1, <1>2, <1>3, <1>4 DEF Ledger

\* Probes behind the current one are accounted for, those ahead are untouched.
THEOREM LedgerHolds == Spec => []Ledger
<1>1. TypeOK /\ Ledger /\ [Next]_vars => Ledger' BY LedgerStep
<1> QED BY <1>1, InitLedger, TypeCorrect, PTL DEF Spec

\* Every check a profile asks for is in the report with what it came to, or its
\* probe is there as an error and nothing else of that probe: run(), runProbe.
THEOREM ReportIsCompleteHolds == Spec => []ReportIsComplete
<1>1. ASSUME TypeOK, Ledger PROVE ReportIsComplete
  <2> SUFFICES ASSUME stage \in {"writing", "done"}, exit # 3, NEW p \in Names PROVE Accounted(p)
    BY DEF ReportIsComplete
  <2>1. cur = 6 BY <1>1 DEF Ledger, Order
  <2>2. PICK i \in 1..5 : p = Probes[i] BY ProbesApart
  <2> QED BY <1>1, <2>1, <2>2 DEF Ledger, Past
<1> QED BY <1>1, TypeCorrect, LedgerHolds, PTL

\* What still runs when its probe is over, or when the program is, belongs to a
\* probe that is reported as an error: Promise.all leaves nothing else behind.
THEOREM StragglersBelongToErrorsHolds == Spec => []StragglersBelongToErrors
<1>1. ASSUME TypeOK, Ledger PROVE StragglersBelongToErrors
  <2> SUFFICES ASSUME NEW c \in Stragglers PROVE \E p \in Names : c \in ChecksOf(p) /\ Errored(p)
    BY DEF StragglersBelongToErrors
  <2>1. c \in Checks /\ Alive /\ Running(c) /\ ~(Probing /\ c \in ChecksOf(Current)) BY DEF Stragglers
  <2>2. PICK i \in 1..5 : c \in ChecksOf(Probes[i]) BY <2>1, ProbesApart
  <2>3. ~ToCome(i) BY <1>1, <2>1, <2>2 DEF Ledger, Untouched, Running
  <2>4. i # cur
    <3> SUFFICES ASSUME i = cur PROVE FALSE OBVIOUS
    <3>1. begun BY <2>3 DEF ToCome
    <3>2. Probing BY <1>1, <2>1, <3>1, ProbeTable DEF Probing, Ledger, Order, Alive
    <3> QED BY <2>1, <2>2, <3>2 DEF Current
  <2>5. i < cur BY <1>1, <2>3, <2>4 DEF ToCome, TypeOK
  <2>6. Accounted(Probes[i]) BY <1>1, <2>5 DEF Ledger, Past
  <2>7. ~AllIn(Probes[i]) BY <2>1, <2>2 DEF AllIn, Running, Severity
  <2>8. SaidOf(Probes[i]) = {Finding(Probes[i], "unknown")} /\ \E d \in ChecksOf(Probes[i]) : work[d] = "threw"
    BY <2>6, <2>7 DEF Accounted
  <2>9. Finding(Probes[i], "unknown") \in findings BY <2>8 DEF SaidOf
  <2> QED BY <2>2, <2>8, <2>9, ProbesApart DEF Errored
<1> QED BY <1>1, TypeCorrect, LedgerHolds, PTL

-----------------------------------------------------------------------------
(***************************************************************************)
(* The deadline.                                                           *)
(***************************************************************************)
LEMMA DeadlineStep == TypeOK /\ NothingOutlivesTheDeadline /\ [Next]_vars => NothingOutlivesTheDeadline'
<1> SUFFICES ASSUME TypeOK, NothingOutlivesTheDeadline, [Next]_vars, aborted'
             PROVE  /\ \A c \in Hosts \cup Endpoints : ~Running(c)'
                    /\ \A t \in Targets, p \in Paths : ~LegPending(t, p)'
  BY DEF NothingOutlivesTheDeadline
<1> USE DEF Running, LegPending
<1>0. /\ work = [c \in Checks |-> work[c]] /\ Hosts \cup Endpoints \cup Targets \subseteq Checks
      /\ leg = [u \in Targets |-> [q \in Paths |-> leg[u][q]]]
      /\ "proxy" \notin Hosts \cup Endpoints \cup Targets /\ "truststore" \notin Hosts \cup Endpoints
      /\ (Hosts \cup Endpoints) \cap Targets = {}
  BY ChecksAssumption DEF TypeOK, Checks, Names
<1>1. CASE Expire
  BY <1>0, <1>1 DEF Expire, CutSeverity
<1>2. ASSUME ~Expire PROVE aborted' = aborted
  BY <1>2, LooseLeaves DEF Next, RunStep, LoadProfile, BeginProbe, ProbeReturns, ProbeThrows, FinishProbes, WriteReport,
         CheckStep, Answer, CheckTarget, LegAnswers, LegThrows, ReadStores, ReadsFrom, PipeHeld, PipeReleased, CrossCheck, runVars, vars
<1>3. ASSUME aborted
      PROVE  /\ \A c \in Hosts \cup Endpoints : ~Running(c)
             /\ \A t \in Targets, p \in Paths : ~LegPending(t, p)
  BY <1>3 DEF NothingOutlivesTheDeadline
<1>4. CASE BeginProbe
  <2>1. aborted BY <1>4 DEF BeginProbe
  <2>2. \A p \in Paths : LegEntering(p) # "pending" BY <2>1 DEF LegEntering
  <2>3. ASSUME NEW t \in Targets, NEW p \in Paths PROVE leg'[t][p] # "pending"
    <3>1. CASE Current # "tls" BY <1>3, <1>4, <2>1, <3>1 DEF BeginProbe
    <3>2. CASE Current = "tls"
      <4>1. leg'[t][p] \in {"threw", LegEntering(p)} BY <1>4, <3>2 DEF BeginProbe
      <4> QED BY <2>2, <4>1
    <3> QED BY <3>1, <3>2
  <2>4. ASSUME NEW c \in Hosts \cup Endpoints PROVE work'[c] # "running"
    <3>1. CASE c \in ChecksOf(Current)
      <4>1. cur \in 1..5 BY <1>4, CurrentIsProbe DEF BeginProbe
      <4>2. Current \in {"dns", "egress", "proxy", "tls", "truststore"}
        BY <4>1, CurrentIsProbe, <1>4 DEF BeginProbe, Names
      <4>3. Current \in {"dns", "egress"} BY <1>0, <2>4, <3>1, <4>2, ProbeTable
      <4>4. Entering(Current) # "running" BY <2>1, <4>3 DEF Entering, CutSeverity
      <4>5. work'[c] \in {"threw", Entering(Current)} BY <1>0, <1>4, <3>1 DEF BeginProbe
      <4> QED BY <4>4, <4>5
    <3>2. CASE c \notin ChecksOf(Current)
      BY <1>0, <1>3, <1>4, <2>1, <3>2 DEF BeginProbe
    <3> QED BY <3>1, <3>2
  <2> QED BY <2>3, <2>4
<1>5. CASE RunStep /\ ~BeginProbe
  BY <1>3, <1>5 DEF RunStep, LoadProfile, ProbeReturns, ProbeThrows, FinishProbes, WriteReport
<1>7. ASSUME NEW d \in Checks, Answer(d)
      PROVE  /\ \A c \in Hosts \cup Endpoints : ~Running(c)'
             /\ \A u \in Targets, p \in Paths : ~LegPending(u, p)'
  <2>1. aborted /\ leg' = leg BY <1>7 DEF Answer, runVars
  <2>2. d = "proxy" BY <1>3, <1>7, <2>1 DEF Answer
  <2>3. \A c \in Hosts \cup Endpoints : work'[c] = work[c] BY <1>0, <1>7, <2>2 DEF Answer
  <2> QED BY <1>3, <2>1, <2>3
<1>8. ASSUME NEW t \in Targets, CheckTarget(t)
      PROVE  /\ \A c \in Hosts \cup Endpoints : ~Running(c)'
             /\ \A u \in Targets, p \in Paths : ~LegPending(u, p)'
  <2>1. aborted /\ leg' = leg BY <1>8 DEF CheckTarget, runVars
  <2>2. \A c \in Hosts \cup Endpoints : work'[c] = work[c] BY <1>0, <1>8 DEF CheckTarget
  <2> QED BY <1>3, <2>1, <2>2
<1>9. ASSUME NEW t \in Targets, NEW p \in Paths, LegAnswers(t, p) \/ LegThrows(t, p) PROVE FALSE
  BY <1>3, <1>9 DEF LegAnswers, LegThrows, runVars
<1>10. CASE ReadStores \/ PipeHeld \/ PipeReleased \/ CrossCheck
  <2>1. aborted /\ leg' = leg BY <1>10 DEF ReadStores, ReadsFrom, PipeHeld, PipeReleased, CrossCheck, runVars
  <2>2. \A c \in Hosts \cup Endpoints : work'[c] = work[c] BY <1>0, <1>10 DEF ReadStores, ReadsFrom, PipeHeld, PipeReleased, CrossCheck
  <2> QED BY <1>3, <2>1, <2>2
<1>11. CASE UNCHANGED vars BY <1>3, <1>11 DEF vars
<1>12. CASE LooseStep BY <1>3, <1>12, LooseLeaves
<1> QED BY <1>1, <1>4, <1>5, <1>7, <1>8, <1>9, <1>10, <1>11, <1>12 DEF Next, CheckStep, RunStep

\* A run that is over waits for no network, whichever probe was running when the
\* timer fired and whichever begin after it.
THEOREM NothingOutlivesTheDeadlineHolds == Spec => []NothingOutlivesTheDeadline
<1>1. Init => NothingOutlivesTheDeadline BY DEF Init, NothingOutlivesTheDeadline
<1> QED BY <1>1, DeadlineStep, TypeCorrect, PTL DEF Spec

-----------------------------------------------------------------------------
(***************************************************************************)
(* What tls saw.                                                           *)
(***************************************************************************)
Observed ==
  /\ \A t \in Targets : work[t] = "idle" => \A p \in Paths : leg[t][p] = "idle"
  /\ \A t \in Targets : work[t] \in Severity => LegsIn(t) /\ AnchorsOf(t) \subseteq anchors
  /\ \A t \in Targets, p \in Paths : work[t] = "ok" => leg[t][p] # "cut"
  /\ \A a \in anchors : \E t \in Targets : a \in AnchorsOf(t)

\* What a capture has come to it keeps.
LegsKept == \A t \in Targets, p \in Paths : leg[t][p] \notin {"idle", "pending"} => leg'[t][p] = leg[t][p]

\* What a step does to one target.
LEMMA TargetSteps ==
  ASSUME TypeOK, Ledger, Observed, [Next]_vars
  PROVE  /\ LegsKept
         /\ \A t \in Targets : \/ work'[t] = work[t] /\ (work[t] = "idle" => leg'[t] = leg[t])
                               \/ work'[t] \in {"running", "threw"}
                               \/ CheckTarget(t)
         /\ anchors' = anchors \/ \E t \in Targets : CheckTarget(t)
<1> DEFINE Goal ==
      /\ LegsKept
      /\ \A t \in Targets : \/ work'[t] = work[t] /\ (work[t] = "idle" => leg'[t] = leg[t])
                            \/ work'[t] \in {"running", "threw"}
                            \/ CheckTarget(t)
      /\ anchors' = anchors \/ \E t \in Targets : CheckTarget(t)
<1> SUFFICES Goal OBVIOUS
<1>0. /\ work = [c \in Checks |-> work[c]]
      /\ leg = [u \in Targets |-> [q \in Paths |-> leg[u][q]]]
      /\ Targets \subseteq Checks /\ "truststore" \notin Targets /\ "proxy" \notin Targets
      /\ Targets \cap (Hosts \cup Endpoints) = {}
  BY ChecksAssumption DEF TypeOK, Checks, Names
<1>1. ASSUME leg' = leg, anchors' = anchors, \A t \in Targets : work'[t] = work[t] PROVE Goal
  BY <1>1 DEF LegsKept
<1>2. CASE BeginProbe
  <2>1. cur \in 1..5 BY <1>2, CurrentIsProbe DEF BeginProbe
  <2>2. anchors' = anchors BY <1>2 DEF BeginProbe
  <2>3. CASE Current = "tls"
    <3>1. ChecksOf(Current) = Targets BY <2>3, ProbeTable
    <3>2. \A t \in Targets : work[t] = "idle"
      BY <1>2, <2>1, <3>1 DEF BeginProbe, Ledger, Untouched, ToCome, Current
    <3>3. LegsKept BY <3>2 DEF LegsKept, Observed
    <3>4. \A t \in Targets : work'[t] \in {"running", "threw"}
      <4>1. Entering(Current) = "running" BY <2>3 DEF Entering
      <4> QED BY <1>0, <1>2, <3>1, <4>1 DEF BeginProbe
    <3> QED BY <2>2, <3>3, <3>4
  <2>4. CASE Current # "tls"
    <3>1. Current = Probes[cur] /\ Probes[4] = "tls" /\ ChecksOf("tls") = Targets
      BY ProbeTable DEF Current
    <3>2. \A t \in Targets : t \notin ChecksOf(Current) BY <2>1, <2>4, <3>1, ProbesApart
    <3>3. leg' = leg /\ \A t \in Targets : work'[t] = work[t] BY <1>0, <1>2, <2>4, <3>2 DEF BeginProbe
    <3> QED BY <1>1, <2>2, <3>3
  <2> QED BY <2>3, <2>4
<1>3. CASE RunStep /\ ~BeginProbe
  BY <1>1, <1>3 DEF RunStep, LoadProfile, ProbeReturns, ProbeThrows, FinishProbes, WriteReport
<1>4. ASSUME NEW c \in Checks, Answer(c) PROVE Goal
  <2>1. c \notin Targets BY <1>0, <1>4 DEF Answer
  <2>2. leg' = leg /\ anchors' = anchors /\ \A t \in Targets : work'[t] = work[t]
    BY <1>0, <1>4, <2>1 DEF Answer
  <2> QED BY <1>1, <2>2
<1>5. ASSUME NEW u \in Targets, CheckTarget(u) PROVE Goal
  <2>1. leg' = leg BY <1>5 DEF CheckTarget
  <2>2. \A t \in Targets \ {u} : work'[t] = work[t] BY <1>0, <1>5 DEF CheckTarget
  <2> QED BY <1>5, <2>1, <2>2 DEF LegsKept
<1>6. ASSUME NEW u \in Targets, NEW q \in Paths, LegAnswers(u, q) PROVE Goal
  <2>1. LegsKept BY <1>0, <1>6 DEF LegAnswers, LegsKept, LegPending
  <2>2. work[u] # "idle" BY <1>6 DEF LegAnswers, LegPending, Observed
  <2>3. work' = work /\ anchors' = anchors /\ \A t \in Targets \ {u} : leg'[t] = leg[t]
    BY <1>0, <1>6 DEF LegAnswers
  <2> QED BY <2>1, <2>2, <2>3
<1>7. ASSUME NEW u \in Targets, NEW q \in Paths, LegThrows(u, q) PROVE Goal
  <2>1. LegsKept BY <1>0, <1>7 DEF LegThrows, LegsKept, LegPending
  <2>2. work'[u] = "threw" BY <1>0, <1>7 DEF LegThrows
  <2>3. anchors' = anchors /\ \A t \in Targets \ {u} : leg'[t] = leg[t] /\ work'[t] = work[t]
    BY <1>0, <1>7 DEF LegThrows
  <2> QED BY <2>1, <2>2, <2>3
<1>8. CASE ReadStores \/ PipeHeld \/ PipeReleased \/ CrossCheck
  <2>1. leg' = leg /\ anchors' = anchors /\ \A t \in Targets : work'[t] = work[t]
    BY <1>0, <1>8 DEF ReadStores, ReadsFrom, PipeHeld, PipeReleased, CrossCheck
  <2> QED BY <1>1, <2>1
<1>9. CASE Expire
  <2>1. \A t \in Targets : work'[t] = work[t] BY <1>0, <1>9 DEF Expire
  <2>2. LegsKept BY <1>0, <1>9 DEF Expire, LegsKept, LegPending
  <2>3. anchors' = anchors BY <1>9 DEF Expire
  <2>4. ASSUME NEW t \in Targets, work[t] = "idle" PROVE leg'[t] = leg[t]
    BY <1>0, <1>9, <2>4 DEF Expire, Observed, LegPending
  <2> QED BY <2>1, <2>2, <2>3, <2>4
<1>10. CASE UNCHANGED vars BY <1>10, <1>1 DEF vars
<1>11. CASE LooseStep BY <1>1, <1>11, LooseLeaves
<1> QED BY <1>2, <1>3, <1>4, <1>5, <1>6, <1>7, <1>8, <1>9, <1>10, <1>11 DEF Next, CheckStep, RunStep

LEMMA ObservedStep == TypeOK /\ Ledger /\ Observed /\ [Next]_vars => Observed'
<1> SUFFICES ASSUME TypeOK, Ledger, Observed, [Next]_vars PROVE Observed' OBVIOUS
<1>1. LegsKept BY TargetSteps
<1>2. \A t \in Targets : AnchorsOf(t) \subseteq AnchorsOf(t)' BY <1>1 DEF LegsKept, AnchorsOf
<1>3. ASSUME NEW t \in Targets, LegsIn(t) PROVE LegsIn(t)' /\ leg'[t] = leg[t] /\ AnchorsOf(t)' = AnchorsOf(t)
  <2>1. \A p \in Paths : leg'[t][p] = leg[t][p] BY <1>1, <1>3 DEF LegsKept, LegsIn
  <2>2. leg[t] \in [Paths -> LegStates] /\ leg'[t] \in [Paths -> LegStates] BY TypeStep DEF TypeOK
  <2>3. leg'[t] = leg[t] BY <2>1, <2>2
  <2> QED BY <1>3, <2>3 DEF LegsIn, AnchorsOf
<1>4. anchors \subseteq anchors' BY TargetSteps DEF CheckTarget
<1>5. ASSUME NEW t \in Targets, work'[t] = "idle" PROVE \A p \in Paths : leg'[t][p] = "idle"
  <2>1. ~CheckTarget(t)
    <3>1. CASE CheckTarget(t)
      <4>1. work'[t] \in Severity \cup {"threw"}
        BY <3>1, VerdictsAreSeverities DEF CheckTarget, TypeOK, Checks
      <4> QED BY <1>5, <4>1 DEF Severity
    <3> QED BY <3>1
  <2>2. work'[t] = work[t] /\ leg'[t] = leg[t] BY <1>5, <2>1, TargetSteps
  <2> QED BY <1>5, <2>2 DEF Observed
<1>6. ASSUME NEW t \in Targets, work'[t] \in Severity
      PROVE  /\ LegsIn(t)' /\ (AnchorsOf(t) \subseteq anchors)'
             /\ work'[t] = "ok" => \A p \in Paths : leg'[t][p] # "cut"
  <2>1. CASE CheckTarget(t)
    <3>1. LegsIn(t) BY <2>1 DEF CheckTarget
    <3>2. work'[t] # "threw" BY <1>6 DEF Severity
    <3>3. work = [c \in Checks |-> work[c]] /\ t \in Checks BY DEF TypeOK, Checks
    <3>4. anchors' = anchors \cup AnchorsOf(t) /\ ((\E p \in Paths : leg[t][p] = "cut") => work'[t] # "ok")
      BY <2>1, <3>2, <3>3 DEF CheckTarget
    <3> QED BY <1>3, <3>1, <3>4
  <2>2. CASE work'[t] = work[t]
    <3>1. LegsIn(t) /\ AnchorsOf(t) \subseteq anchors BY <1>6, <2>2 DEF Observed
    <3>2. work'[t] = "ok" => \A p \in Paths : leg[t][p] # "cut" BY <2>2 DEF Observed
    <3> QED BY <1>3, <1>4, <3>1, <3>2
  <2>3. work'[t] \notin {"running", "threw"} BY <1>6 DEF Severity
  <2> QED BY <2>1, <2>2, <2>3, TargetSteps
<1>7. ASSUME NEW a \in anchors' PROVE \E t \in Targets : a \in AnchorsOf(t)'
  <2>1. a \in anchors \/ \E t \in Targets : a \in AnchorsOf(t) BY <1>7, TargetSteps DEF CheckTarget
  <2> QED BY <1>2, <2>1 DEF Observed
<1> QED BY <1>5, <1>6, <1>7 DEF Observed, Severity

\* The observed anchors are those of the captures that have been judged.
THEOREM ObservedHolds == Spec => []Observed
<1>1. Init => Observed BY DEF Init, Observed, Checks, Severity
<1> QED BY <1>1, ObservedStep, TypeCorrect, LedgerHolds, PTL DEF Spec

\* What an exit code of 0 was worked out from.
Decided == exit = 0 => cur = 6 /\ \A f \in findings : f.severity \notin {"blocker", "degraded", "unknown"}

LEMMA DecidedStep == TypeOK /\ Ledger /\ Decided /\ [Next]_vars => Decided'
<1> SUFFICES ASSUME TypeOK, Ledger, Decided, [Next]_vars, exit' = 0
             PROVE  cur' = 6 /\ \A f \in findings' : f.severity \notin {"blocker", "degraded", "unknown"}
  BY DEF Decided
<1>1. CASE WriteReport
  <2>1. cur' = 6 /\ findings' = findings /\ ExitCodeFor(RollUp) = 0
    BY <1>1 DEF WriteReport, Ledger, Order
  <2>2. RollUp \in {"blocker", "degraded", "unknown", "ok"} BY DEF RollUp
  <2>3. RollUp = "ok" BY <2>1, <2>2 DEF ExitCodeFor
  <2>4. ~Said("blocker") /\ ~Said("degraded") /\ ~Said("unknown") BY <2>3 DEF RollUp
  <2> QED BY <2>1, <2>4 DEF Said
<1>2. CASE ~WriteReport
  <2>1. exit = 0
    BY <1>2 DEF Next, RunStep, LoadProfile, BeginProbe, ProbeReturns, ProbeThrows, FinishProbes,
           LooseStep, ProxyGoesOn, LooseAnswers, LooseFails, CheckStep, Answer, CheckTarget, LegAnswers, LegThrows, ReadStores, ReadsFrom, PipeHeld, PipeReleased, CrossCheck, runVars, vars, Expire
  <2>2. stage = "done" BY <2>1 DEF Ledger, Order, NoExit
  <2>3. UNCHANGED <<cur, findings>>
    BY <1>2, <2>2, LooseLeaves DEF Next, RunStep, LoadProfile, BeginProbe, ProbeReturns, ProbeThrows, FinishProbes, Probing,
           CheckStep, Answer, CheckTarget, LegAnswers, LegThrows, ReadStores, ReadsFrom, PipeHeld, PipeReleased, CrossCheck, runVars, vars, Expire
  <2> QED BY <2>1, <2>3 DEF Decided
<1> QED BY <1>1, <1>2

\* Exit 0 is never given to a run with a check that threw, that could not decide
\* or that the deadline cut, in either capture of it: ADR-0006, exitCodeFor.
THEOREM ExitCodeHonestHolds == Spec => []ExitCodeHonest
<1>1. Init => Decided BY DEF Init, Decided, NoExit
<1>2. Spec => []Decided BY <1>1, DecidedStep, TypeCorrect, LedgerHolds, PTL DEF Spec
<1>3. ASSUME TypeOK, Ledger, Observed, Decided PROVE ExitCodeHonest
  <2> SUFFICES ASSUME exit = 0
               PROVE  /\ \A c \in Checks : work[c] = "ok"
                      /\ \A t \in Targets, p \in Paths : leg[t][p] \notin {"cut", "threw"}
    BY DEF ExitCodeHonest
  <2>1. cur = 6 /\ \A f \in findings : f.severity \notin {"blocker", "degraded", "unknown"}
    BY <1>3 DEF Decided
  <2>2. ASSUME NEW c \in Checks PROVE work[c] = "ok"
    <3>1. PICK i \in 1..5 : c \in ChecksOf(Probes[i]) BY ProbesApart
    <3>2. Accounted(Probes[i]) BY <1>3, <2>1 DEF Ledger, Past
    <3>3. \A f \in SaidOf(Probes[i]) : f.severity \notin {"blocker", "degraded", "unknown"}
      BY <2>1 DEF SaidOf
    <3>4. SaidOf(Probes[i]) # {Finding(Probes[i], "unknown")}
      <4>1. Finding(Probes[i], "unknown").severity = "unknown" BY DEF Finding
      <4> QED BY <3>3, <4>1
    <3>5. AllIn(Probes[i]) /\ Finding(c, work[c]) \in SaidOf(Probes[i]) BY <3>1, <3>2, <3>4 DEF Accounted
    <3>6. work[c] \notin {"blocker", "degraded", "unknown"}
      <4>1. Finding(c, work[c]).severity = work[c] BY DEF Finding
      <4> QED BY <3>3, <3>5, <4>1
    <3> QED BY <3>1, <3>5, <3>6 DEF AllIn, Severity
  <2>3. ASSUME NEW t \in Targets, NEW p \in Paths PROVE leg[t][p] \notin {"cut", "threw"}
    <3>1. work[t] = "ok" BY <2>2 DEF Checks
    <3>2. LegsIn(t) /\ leg[t][p] # "cut" BY <1>3, <3>1 DEF Observed, Severity
    <3> QED BY <3>2 DEF LegsIn
  <2> QED BY <2>2, <2>3
<1> QED BY <1>2, <1>3, TypeCorrect, LedgerHolds, ObservedHolds, PTL

\* Truststore is the last to begin.
Reading == /\ reading # "none" => cur >= 5
           /\ work["truststore"] = "idle" => reading = "none"

\* Once tls is over and has not failed, every target has been judged.
LEMMA TlsIsIn ==
  ASSUME TypeOK, Ledger, Observed, cur >= 5, ~Errored("tls")
  PROVE  AllIn("tls") /\ anchors = UNION {AnchorsOf(t) : t \in Targets}
<1>1. Accounted("tls") BY ProbeTable DEF Ledger, Past, TypeOK
<1>2. ~(SaidOf("tls") = {Finding("tls", "unknown")} /\ \E c \in ChecksOf("tls") : work[c] = "threw")
  BY DEF Errored, SaidOf
<1>3. AllIn("tls") BY <1>1, <1>2 DEF Accounted
<1>4. \A t \in Targets : AnchorsOf(t) \subseteq anchors BY <1>3, ProbeTable DEF AllIn, Observed
<1> QED BY <1>3, <1>4 DEF Observed

\* What a step does to the reading of the stores.
LEMMA ReadSteps ==
  ASSUME TypeOK, [Next]_vars, ~CrossCheck, ~ReadStores, ~PipeHeld, ~PipeReleased,
         ~(BeginProbe /\ Current = "truststore")
  PROVE  work'["truststore"] = work["truststore"] /\ reading' = reading /\ cur' \in {cur, cur + 1}
<1> DEFINE Goal == work'["truststore"] = work["truststore"] /\ reading' = reading /\ cur' \in {cur, cur + 1}
<1> SUFFICES Goal OBVIOUS
<1>0. /\ work = [c \in Checks |-> work[c]] /\ "truststore" \in Checks /\ "truststore" # "proxy"
      /\ "truststore" \notin Hosts \cup Endpoints \cup Targets /\ cur \in 1..6
  BY ChecksAssumption DEF TypeOK, Checks, Names
<1>1. CASE BeginProbe
  <2>1. cur \in 1..5 /\ cur' = cur BY <1>1, CurrentIsProbe DEF BeginProbe
  <2>2. Current = Probes[cur] /\ Probes[5] = "truststore" /\ ChecksOf("truststore") = {"truststore"}
    BY ProbeTable DEF Current
  <2>3. "truststore" \notin ChecksOf(Current) BY <1>1, <2>1, <2>2, ProbesApart
  <2>4. work'["truststore"] = work["truststore"] /\ reading' = reading BY <1>0, <1>1, <2>3 DEF BeginProbe
  <2> QED BY <2>1, <2>4
<1>2. CASE RunStep /\ ~BeginProbe
  BY <1>2 DEF RunStep, LoadProfile, ProbeReturns, ProbeThrows, FinishProbes, WriteReport
<1>3. ASSUME NEW c \in Checks, Answer(c) PROVE Goal
  <2>1. c # "truststore" BY <1>0, <1>3 DEF Answer
  <2>2. work'["truststore"] = work["truststore"] BY <1>0, <1>3, <2>1 DEF Answer
  <2> QED BY <1>3, <2>2 DEF Answer, runVars
<1>4. ASSUME NEW t \in Targets, CheckTarget(t) PROVE Goal
  BY <1>0, <1>4 DEF CheckTarget, runVars
<1>5. ASSUME NEW t \in Targets, NEW p \in Paths, LegAnswers(t, p) \/ LegThrows(t, p) PROVE Goal
  BY <1>0, <1>5 DEF LegAnswers, LegThrows, runVars
<1>6. CASE Expire
  <2>1. work'["truststore"] = work["truststore"] BY <1>0, <1>6 DEF Expire
  <2> QED BY <1>6, <2>1 DEF Expire
<1>7. CASE UNCHANGED vars BY <1>7 DEF vars
<1>8. CASE LooseStep BY <1>0, <1>8, LooseLeaves
<1> QED BY <1>1, <1>2, <1>3, <1>4, <1>5, <1>6, <1>7, <1>8 DEF Next, CheckStep, RunStep

LEMMA ReadingStep == TypeOK /\ Reading /\ [Next]_vars => Reading'
<1> SUFFICES ASSUME TypeOK, Reading, [Next]_vars PROVE Reading' OBVIOUS
<1>0. work = [c \in Checks |-> work[c]] /\ "truststore" \in Checks /\ cur \in 1..6
  BY DEF TypeOK, Checks
<1>1. CASE BeginProbe /\ Current = "truststore"
  <2>1. cur \in 1..5 /\ cur' = cur BY <1>1, CurrentIsProbe DEF BeginProbe
  <2>2. cur = 5
    <3>1. Probes[5] = "truststore" /\ Current = Probes[cur] BY ProbeTable DEF Current
    <3> QED BY <1>1, <2>1, <3>1, ProbesApart
  <2>3. work'["truststore"] = "running"
    <3>1. ChecksOf(Current) = {"truststore"} BY <1>1, ProbeTable
    <3>2. Entering(Current) = "running" BY <1>1 DEF Entering
    <3> QED BY <1>0, <1>1, <3>1, <3>2 DEF BeginProbe
  <2> QED BY <2>1, <2>2, <2>3 DEF Reading
<1>2. CASE ReadStores \/ PipeHeld \/ PipeReleased
  <2>1. reading # "none" /\ cur' = cur BY <1>2 DEF ReadStores, ReadsFrom, PipeHeld, PipeReleased, runVars
  <2>2. work'["truststore"] # "idle" BY <1>0, <1>2 DEF ReadStores, ReadsFrom, PipeHeld, PipeReleased, Running
  <2> QED BY <2>1, <2>2 DEF Reading
<1>3. CASE CrossCheck
  <2>1. reading # "none" /\ cur' = cur BY <1>3 DEF CrossCheck, runVars
  <2>2. work'["truststore"] \in Severity \cup {"threw"}
    BY <1>0, <1>3, VerdictsAreSeverities DEF CrossCheck
  <2>3. work'["truststore"] # "idle" BY <2>2 DEF Severity
  <2> QED BY <2>1, <2>3 DEF Reading
<1>4. CASE ~CrossCheck /\ ~ReadStores /\ ~PipeHeld /\ ~PipeReleased /\ ~(BeginProbe /\ Current = "truststore")
  BY <1>0, <1>4, ReadSteps DEF Reading
<1> QED BY <1>1, <1>2, <1>3, <1>4

\* Nothing is pushed behind the cross-check's back.
ReadWhole == reading = "all" /\ ~Running("truststore") /\ ~Errored("tls") => seen = anchors

LEMMA ReadWholeStep ==
  TypeOK /\ Ledger /\ Observed /\ Reading /\ ReadWhole /\ [Next]_vars => ReadWhole'
<1> SUFFICES ASSUME TypeOK, Ledger, Observed, Reading, ReadWhole, [Next]_vars,
                    reading' = "all", ~Running("truststore")', ~Errored("tls")'
             PROVE  seen' = anchors'
  BY DEF ReadWhole
<1>1. CASE CrossCheck BY <1>1 DEF CrossCheck
<1>2. CASE ~CrossCheck
  <2>1. reading = "all" /\ work'["truststore"] = work["truststore"]
    <3>1. ~ReadStores /\ ~PipeHeld /\ ~PipeReleased
      <4>1. CASE ReadStores \/ PipeHeld \/ PipeReleased
        <5>1. work' = work /\ Running("truststore")
          BY <4>1 DEF ReadStores, ReadsFrom, PipeHeld, PipeReleased
        <5> QED BY <5>1 DEF Running
      <4> QED BY <4>1
    <3>2. ~(BeginProbe /\ Current = "truststore") BY DEF BeginProbe
    <3> QED BY <1>2, <3>1, <3>2, ReadSteps
  <2>2. ~Errored("tls")
    <3>1. Kept BY ResultsAreKept DEF Ledger
    <3>2. findings \subseteq findings'
      BY LooseLeaves
         DEF Next, RunStep, LoadProfile, BeginProbe, ProbeReturns, ProbeThrows, FinishProbes, WriteReport,
             CheckStep, Answer, CheckTarget, LegAnswers, LegThrows, ReadStores, ReadsFrom, PipeHeld, PipeReleased, CrossCheck, runVars, vars, Expire
    <3>3. ChecksOf("tls") \subseteq Checks BY ProbeTable DEF Checks
    <3> QED BY <3>1, <3>2, <3>3 DEF Errored, Kept
  <2>3. seen = anchors BY <2>1, <2>2 DEF ReadWhole, Running
  <2>4. cur >= 5 BY <2>1 DEF Reading
  <2>5. \A t \in Targets : ~CheckTarget(t)
    BY <2>2, <2>4, TlsIsIn, ProbeTable DEF AllIn, CheckTarget, Running, Severity
  <2>6. anchors' = anchors BY <2>5, TargetSteps
  <2>7. seen' = seen
    BY <1>2, LooseLeaves
       DEF Next, RunStep, LoadProfile, BeginProbe, ProbeReturns, ProbeThrows, FinishProbes, WriteReport,
           CheckStep, Answer, CheckTarget, LegAnswers, LegThrows, ReadStores, ReadsFrom, PipeHeld, PipeReleased, runVars, vars, Expire
  <2> QED BY <2>3, <2>6, <2>7
<1> QED BY <1>1, <1>2

\* The cross-check reads every anchor tls observed and none arrives after it, or
\* tls is reported as an error: the order of the registry and ADR-0034.
THEOREM AnchorsCompleteHolds == Spec => []AnchorsComplete
<1>1. Init => Reading BY DEF Init, Reading
<1>2. Spec => []Reading BY <1>1, ReadingStep, TypeCorrect, PTL DEF Spec
<1>3. Init => ReadWhole BY DEF Init, ReadWhole
<1>4. Spec => []ReadWhole
  BY <1>2, <1>3, ReadWholeStep, TypeCorrect, LedgerHolds, ObservedHolds, PTL DEF Spec
<1>5. TypeOK /\ Ledger /\ Observed /\ Reading /\ ReadWhole => AnchorsComplete
  BY TlsIsIn DEF AnchorsComplete, ReadWhole, Reading
<1> QED BY <1>2, <1>4, <1>5, TypeCorrect, LedgerHolds, ObservedHolds, PTL
-----------------------------------------------------------------------------
(***************************************************************************)
(* The halves of RunEnds that need no fairness: what was found out stays,  *)
(* and what a probe waits for can come.                                    *)
(***************************************************************************)

\* The order of the run, and the things that only grow.
LEMMA Grows ==
  ASSUME TypeOK, Ledger, [Next]_vars
  PROVE  /\ cur <= cur' /\ (cur' = cur /\ begun => begun')
         /\ findings \subseteq findings'
         /\ aborted => aborted'
         /\ exit # NoExit => exit' = exit \/ (loose /\ stage' = "died")
<1>0. cur \in 1..6 /\ (exit # NoExit => stage \in {"done", "died"}) BY DEF TypeOK, Ledger, Order
<1>1. CASE LoadProfile BY <1>0, <1>1 DEF LoadProfile
<1>2. CASE BeginProbe BY <1>0, <1>2 DEF BeginProbe
<1>3. CASE ProbeReturns \/ ProbeThrows BY <1>0, <1>3 DEF ProbeReturns, ProbeThrows
<1>4. CASE FinishProbes BY <1>0, <1>4 DEF FinishProbes
<1>5. CASE WriteReport BY <1>0, <1>5 DEF WriteReport
<1>6. CASE CheckStep
  <2>1. UNCHANGED runVars
    BY <1>6 DEF CheckStep, Answer, CheckTarget, LegAnswers, LegThrows, ReadStores, ReadsFrom, PipeHeld, PipeReleased, CrossCheck
  <2> QED BY <1>0, <2>1 DEF runVars
<1>7. CASE Expire BY <1>0, <1>7 DEF Expire
<1>8. CASE UNCHANGED vars BY <1>0, <1>8 DEF vars
<1>9. CASE LooseStep
  <2>1. exit' = exit \/ (loose /\ stage' = "died")
    BY <1>9 DEF LooseStep, ProxyGoesOn, LooseAnswers, LooseFails
  <2> QED BY <1>0, <1>9, <2>1, LooseLeaves
<1> QED BY <1>1, <1>2, <1>3, <1>4, <1>5, <1>6, <1>7, <1>8, <1>9 DEF Next, RunStep

\* No check or capture changes its result, whatever the deadline, a sibling that throws or
\* a late answer does, and no probe runs twice.
THEOREM NothingTakenBackHolds == Spec => NothingTakenBack
<1> DEFINE Stands ==
      /\ \A c \in Checks : work[c] \notin {"idle", "running"} => work'[c] = work[c]
      /\ \A t \in Targets, p \in Paths : leg[t][p] \notin {"idle", "pending"} => leg'[t][p] = leg[t][p]
      /\ cur <= cur' /\ (cur' = cur /\ begun => begun')
      /\ findings \subseteq findings' /\ anchors \subseteq anchors'
      /\ aborted => aborted'
      /\ exit # NoExit => exit' = exit \/ (loose /\ stage' = "died")
<1>1. TypeOK /\ Ledger /\ Observed /\ [Next]_vars => [Stands]_vars
  <2> SUFFICES ASSUME TypeOK, Ledger, Observed, [Next]_vars PROVE Stands OBVIOUS
  <2>1. Kept BY ResultsAreKept DEF Ledger
  <2>2. LegsKept BY TargetSteps
  <2>3. anchors \subseteq anchors'
    <3>1. anchors' = anchors \/ \E t \in Targets : CheckTarget(t) BY TargetSteps
    <3> QED BY <3>1 DEF CheckTarget
  <2> QED BY <2>1, <2>2, <2>3, Grows DEF Kept, LegsKept
<1> QED BY <1>1, TypeCorrect, LedgerHolds, ObservedHolds, PTL DEF Spec, NothingTakenBack

\* What has begun has been entered: no check of the current probe is left out, no capture
\* of a target that runs is still to be made or has thrown, and truststore is at a store.
Entered ==
  /\ Probing => \A c \in ChecksOf(Current) : work[c] # "idle"
  /\ \A t \in Targets, p \in Paths : Running(t) => leg[t][p] \notin {"idle", "threw"}
  /\ Running("truststore") => reading # "none"

LEMMA EnteredIsEnough == TypeOK /\ Entered => NeverStuck
<1> SUFFICES ASSUME TypeOK, Entered, Probing, NEW c \in ChecksOf(Current)
             PROVE  work[c] \in Severity \cup {"threw"} \/ Awaited(c)
  BY DEF NeverStuck
<1>1. cur <= Len(Probes) BY DEF Probing
<1>2. c \in Checks BY <1>1, CurrentIsProbe
<1>3. work[c] \in Severity \cup {"idle", "running", "threw"} BY <1>2 DEF TypeOK
<1>4. work[c] # "idle" BY DEF Entered
<1>5. ASSUME Running(c), c \in Targets PROVE LegsIn(c) \/ \E p \in Paths : LegPending(c, p)
  <2>1. \A p \in Paths : leg[c][p] \in {"absent", "pending", "anchor", "other", "cut"}
    BY <1>5 DEF Entered, TypeOK, LegStates
  <2> QED BY <2>1 DEF LegsIn, LegPending
<1> QED BY <1>3, <1>4, <1>5 DEF Awaited, Running, Entered

\* A check that has begun stays begun.
LEMMA StaysBegun ==
  ASSUME TypeOK, Ledger, [Next]_vars, NEW c \in Checks, work[c] # "idle"
  PROVE  work'[c] # "idle"
<1>0. work = [d \in Checks |-> work[d]] /\ "truststore" \in Checks /\ Targets \subseteq Checks
  BY DEF TypeOK, Checks
<1>1. ASSUME NEW d, NEW r \in Severity \cup {"threw"}, work' = [work EXCEPT ![d] = r]
      PROVE  work'[c] # "idle"
  BY <1>0, <1>1 DEF Severity
<1>2. CASE BeginProbe
  <2>1. work'[c] \in {"threw", Entering(Current), work[c]} BY <1>2 DEF BeginProbe
  <2>2. Entering(Current) # "idle" BY DEF Entering, CutSeverity
  <2> QED BY <2>1, <2>2
<1>3. CASE RunStep /\ ~BeginProbe
  BY <1>3 DEF RunStep, LoadProfile, ProbeReturns, ProbeThrows, FinishProbes, WriteReport
<1>4. ASSUME NEW d \in Checks, Answer(d) PROVE work'[c] # "idle"
  BY <1>1, <1>4, VerdictsAreSeverities DEF Answer
<1>5. ASSUME NEW t \in Targets, CheckTarget(t) PROVE work'[c] # "idle"
  BY <1>0, <1>1, <1>5, VerdictsAreSeverities DEF CheckTarget
<1>6. ASSUME NEW t \in Targets, NEW p \in Paths, LegAnswers(t, p) \/ LegThrows(t, p)
      PROVE  work'[c] # "idle"
  BY <1>1, <1>6 DEF LegAnswers, LegThrows
<1>7. CASE ReadStores \/ PipeHeld \/ PipeReleased \/ CrossCheck
  BY <1>0, <1>1, <1>7, VerdictsAreSeverities DEF ReadStores, ReadsFrom, PipeHeld, PipeReleased, CrossCheck
<1>8. CASE Expire
  <2>1. work'[c] \in {CutSeverity, work[c]} BY <1>8 DEF Expire
  <2> QED BY <2>1 DEF CutSeverity
<1>9. CASE UNCHANGED vars BY <1>9 DEF vars
<1>10. CASE LooseStep BY <1>10, LooseLeaves
<1> QED BY <1>2, <1>3, <1>4, <1>5, <1>6, <1>7, <1>8, <1>9, <1>10 DEF Next, CheckStep, RunStep

\* The current probe has been entered as a whole.
LEMMA EnteredByProbe ==
  TypeOK /\ Ledger /\ Entered /\ [Next]_vars => (Probing => \A c \in ChecksOf(Current) : work[c] # "idle")'
<1> SUFFICES ASSUME TypeOK, Ledger, Entered, [Next]_vars, Probing', NEW c \in ChecksOf(Current')
             PROVE  work'[c] # "idle"
  BY ProbeTable DEF ChecksOf
<1>1. cur' \in 1..5 /\ c \in Checks
  <2>1. TypeOK' BY TypeStep
  <2>2. cur' \in 1..5 BY <2>1, ProbeTable DEF Probing, TypeOK
  <2> QED BY <2>2, ProbesApart DEF Current
<1>2. CASE BeginProbe
  <2>1. c \in ChecksOf(Current) BY <1>2 DEF BeginProbe, Current
  <2>2. work'[c] \in {"threw", Entering(Current)} BY <1>1, <1>2, <2>1 DEF BeginProbe
  <2>3. Entering(Current) # "idle" BY DEF Entering, CutSeverity
  <2> QED BY <2>2, <2>3
<1>3. CASE begun /\ cur' = cur
  <2>0. stage = "probing"
    <3>1. CASE RunStep
      BY <1>3, <3>1 DEF RunStep, LoadProfile, BeginProbe, ProbeReturns, ProbeThrows, FinishProbes, WriteReport,
             Probing, Ledger, Order
    <3>2. CASE ~RunStep
      <4>1. stage' \in {stage, "died"}
        BY <3>2 DEF Next, CheckStep, Answer, CheckTarget, LegAnswers, LegThrows, ReadStores, ReadsFrom, PipeHeld,
               PipeReleased, CrossCheck, runVars, vars, Expire, LooseStep, ProxyGoesOn, LooseAnswers, LooseFails
      <4> QED BY <4>1 DEF Probing
    <3> QED BY <3>1, <3>2
  <2>1. Probing /\ Current' = Current BY <1>1, <1>3, <2>0, ProbeTable DEF Probing, Current
  <2>2. work[c] # "idle" BY <2>1 DEF Entered
  <2> QED BY <1>1, <2>2, StaysBegun
<1>4. CASE ~BeginProbe /\ ~(begun /\ cur' = cur)
  <2>1. ~begun'
    BY <1>4, LooseLeaves DEF Next, RunStep, LoadProfile, ProbeReturns, ProbeThrows, FinishProbes, WriteReport,
           CheckStep, Answer, CheckTarget, LegAnswers, LegThrows, ReadStores, ReadsFrom, PipeHeld, PipeReleased, CrossCheck, runVars, vars, Expire
  <2> QED BY <2>1 DEF Probing
<1> QED BY <1>2, <1>3, <1>4

\* The captures of a target that runs have been made, and none has thrown.
LEMMA EnteredByCapture ==
  ASSUME TypeOK, Ledger, Entered, [Next]_vars, NEW t \in Targets, NEW p \in Paths, Running(t)'
  PROVE  leg'[t][p] \notin {"idle", "threw"}
<1>0. /\ work = [c \in Checks |-> work[c]]
      /\ leg = [u \in Targets |-> [q \in Paths |-> leg[u][q]]]
      /\ Targets \subseteq Checks /\ t # "truststore" /\ t # "proxy"
      /\ t \notin Hosts \cup Endpoints
  BY ChecksAssumption DEF TypeOK, Checks, Names
<1>1. ASSUME work'[t] = work[t], leg' = leg PROVE leg'[t][p] \notin {"idle", "threw"}
  BY <1>1 DEF Entered, Running
<1>2. CASE BeginProbe
  <2>1. cur \in 1..5 BY <1>2, CurrentIsProbe DEF BeginProbe
  <2>2. CASE Current = "tls"
    <3>1. ChecksOf(Current) = Targets BY <2>2, ProbeTable
    <3>2. PICK refused \in SUBSET (ChecksOf(Current) \ {"proxy", "truststore"}) :
            /\ work' = [c \in Checks |-> IF c \in refused THEN "threw"
                                         ELSE IF c \in ChecksOf(Current) THEN Entering(Current)
                                         ELSE work[c]]
            /\ leg' = [u \in Targets |-> [q \in Paths |->
                         IF u \in refused /\ LegEntering(q) # "absent" THEN "threw" ELSE LegEntering(q)]]
      BY <1>2, <2>2 DEF BeginProbe
    <3>3. t \notin refused BY <1>0, <3>2 DEF Running
    <3>4. leg'[t][p] = LegEntering(p) BY <3>2, <3>3
    <3> QED BY <3>4 DEF LegEntering
  <2>3. CASE Current # "tls"
    <3>1. Current = Probes[cur] /\ Probes[4] = "tls" /\ ChecksOf("tls") = Targets
      BY ProbeTable DEF Current
    <3>2. t \notin ChecksOf(Current) BY <2>1, <2>3, <3>1, ProbesApart
    <3>3. leg' = leg /\ work'[t] = work[t] BY <1>0, <1>2, <2>3, <3>2 DEF BeginProbe
    <3> QED BY <1>1, <3>3
  <2> QED BY <2>2, <2>3
<1>3. CASE RunStep /\ ~BeginProbe
  BY <1>1, <1>3 DEF RunStep, LoadProfile, ProbeReturns, ProbeThrows, FinishProbes, WriteReport
<1>4. ASSUME NEW c \in Checks, Answer(c) PROVE leg'[t][p] \notin {"idle", "threw"}
  <2>1. c # t BY <1>0, <1>4 DEF Answer
  <2>2. leg' = leg /\ work'[t] = work[t] BY <1>0, <1>4, <2>1 DEF Answer
  <2> QED BY <1>1, <2>2
<1>5. ASSUME NEW u \in Targets, CheckTarget(u) PROVE leg'[t][p] \notin {"idle", "threw"}
  <2>1. CASE u = t
    <3>1. work'[t] \in Severity \cup {"threw"} BY <1>0, <1>5, <2>1, VerdictsAreSeverities DEF CheckTarget
    <3> QED BY <3>1 DEF Running, Severity
  <2>2. CASE u # t
    <3>1. leg' = leg /\ work'[t] = work[t] BY <1>0, <1>5, <2>2 DEF CheckTarget
    <3> QED BY <1>1, <3>1
  <2> QED BY <2>1, <2>2
<1>6. ASSUME NEW u \in Targets, NEW q \in Paths, LegAnswers(u, q)
      PROVE  leg'[t][p] \notin {"idle", "threw"}
  <2>1. Running(t) BY <1>6 DEF LegAnswers, Running
  <2>2. leg'[t][p] \in {leg[t][p], "anchor", "other"} BY <1>0, <1>6 DEF LegAnswers
  <2> QED BY <2>1, <2>2 DEF Entered
<1>7. ASSUME NEW u \in Targets, NEW q \in Paths, LegThrows(u, q)
      PROVE  leg'[t][p] \notin {"idle", "threw"}
  <2>1. u # t BY <1>0, <1>7 DEF LegThrows, Running
  <2>2. work'[t] = work[t] /\ leg'[t] = leg[t] BY <1>0, <1>7, <2>1 DEF LegThrows
  <2> QED BY <2>2 DEF Entered, Running
<1>8. CASE ReadStores \/ PipeHeld \/ PipeReleased \/ CrossCheck
  <2>1. leg' = leg /\ work'[t] = work[t] BY <1>0, <1>8 DEF ReadStores, ReadsFrom, PipeHeld, PipeReleased, CrossCheck
  <2> QED BY <1>1, <2>1
<1>9. CASE Expire
  <2>1. work'[t] = work[t] BY <1>0, <1>9 DEF Expire
  <2>2. leg'[t][p] \in {"cut", leg[t][p]} BY <1>9 DEF Expire
  <2> QED BY <2>1, <2>2 DEF Entered, Running
<1>10. CASE UNCHANGED vars BY <1>1, <1>10 DEF vars
<1>11. CASE LooseStep BY <1>1, <1>11, LooseLeaves
<1> QED BY <1>2, <1>3, <1>4, <1>5, <1>6, <1>7, <1>8, <1>9, <1>10, <1>11 DEF Next, CheckStep, RunStep

\* Truststore reads from the first store on.
LEMMA EnteredByReader == TypeOK /\ Entered /\ [Next]_vars => (Running("truststore") => reading # "none")'
<1> SUFFICES ASSUME TypeOK, Entered, [Next]_vars, Running("truststore")' PROVE reading' # "none"
  OBVIOUS
<1>1. CASE BeginProbe /\ Current = "truststore" BY <1>1 DEF BeginProbe
<1>2. CASE ReadStores \/ PipeHeld \/ PipeReleased
  <2>1. reading # "none" /\ reading' \in {"held", "runtime", "all", reading}
    BY <1>2 DEF ReadStores, ReadsFrom, PipeHeld, PipeReleased
  <2> QED BY <2>1
<1>3. CASE CrossCheck BY <1>3 DEF CrossCheck
<1>4. CASE ~CrossCheck /\ ~ReadStores /\ ~PipeHeld /\ ~PipeReleased /\ ~(BeginProbe /\ Current = "truststore")
  BY <1>4, ReadSteps DEF Entered, Running
<1> QED BY <1>1, <1>2, <1>3, <1>4

\* A probe that has begun waits for nothing that cannot come: every check of it has come to
\* a result or thrown, or has an answer, a capture or a store still to come.
THEOREM NeverStuckHolds == Spec => []NeverStuck
<1>1. Init => Entered
  BY DEF Init, Entered, Probing, Running, Checks
<1>2. TypeOK /\ Ledger /\ Entered /\ [Next]_vars => Entered'
  BY EnteredByProbe, EnteredByCapture, EnteredByReader DEF Entered
<1>3. Spec => []Entered
  BY <1>1, <1>2, TypeCorrect, LedgerHolds, PTL DEF Spec
<1> QED BY <1>3, EnteredIsEnough, TypeCorrect, PTL

-----------------------------------------------------------------------------
(***************************************************************************)
(* The run keeps its contract.                                             *)
(***************************************************************************)
LEMMA ContractTable ==
  /\ Contract!Checked = Checks
  /\ \A i \in 1..5 : [j \in 1..Len(Probes) |-> ChecksOf(Probes[j])][i] = ChecksOf(Probes[i])
<1>1. \A i \in 1..5 : [j \in 1..Len(Probes) |-> ChecksOf(Probes[j])][i] = ChecksOf(Probes[i])
  BY ProbeTable
<1>2. Contract!Checked = UNION {ChecksOf(Probes[i]) : i \in 1..5}
  BY <1>1, ProbeTable DEF Contract!Checked
<1> QED BY <1>1, <1>2, ProbesApart

\* What happens to a lookup that nobody handles while the process lives.
LooseKept == ~loose /\ loose' => aborted /\ cur < 5 /\ exit = NoExit

\* It is started past the deadline, by a probe before the last.
LEMMA LooseComesLate ==
  ASSUME TypeOK, Ledger, [Next]_vars
  PROVE  LooseKept
<1> SUFFICES ASSUME ~loose, loose' PROVE aborted /\ cur < 5 /\ exit = NoExit BY DEF LooseKept
<1>1. CASE BeginProbe
  <2>1. cur \in 1..5 /\ stage = "probing" BY <1>1, CurrentIsProbe DEF BeginProbe
  <2>2. aborted /\ Current \in {"dns", "egress", "tls"} BY <1>1 DEF BeginProbe, StrandsLookup
  <2>3. cur # 5
    <3>1. Probes[5] = "truststore" /\ Current = Probes[cur] BY ProbeTable DEF Current
    <3> QED BY <2>2, <3>1
  <2> QED BY <2>1, <2>2, <2>3 DEF Ledger, Order
<1>2. CASE ProxyGoesOn
  <2>1. Running("proxy") /\ aborted /\ Alive BY <1>2 DEF ProxyGoesOn
  <2>2. Probes[3] = "proxy" /\ ChecksOf(Probes[3]) = {"proxy"} BY ProbeTable
  <2>3. ~ToCome(3) BY <2>1, <2>2 DEF Ledger, Untouched, Running
  <2>4. ~(3 < cur)
    <3>1. ASSUME Accounted(Probes[3]) PROVE FALSE
      BY <2>1, <2>2, <3>1 DEF Accounted, AllIn, Running, Severity
    <3> QED BY <3>1 DEF Ledger, Past
  <2>5. cur = 3 /\ begun BY <2>3, <2>4 DEF ToCome, TypeOK
  <2>6. stage = "probing" BY <2>1, <2>5 DEF Ledger, Order, Alive
  <2> QED BY <2>1, <2>5, <2>6 DEF Ledger, Order
<1>3. CASE ~BeginProbe /\ ~ProxyGoesOn
  BY <1>3 DEF Next, RunStep, LoadProfile, ProbeReturns, ProbeThrows, FinishProbes, WriteReport,
         CheckStep, Answer, CheckTarget, LegAnswers, LegThrows, ReadStores, ReadsFrom, PipeHeld, PipeReleased,
         CrossCheck, runVars, vars, Expire, LooseStep, LooseAnswers, LooseFails
<1> QED BY <1>1, <1>2, <1>3

\* A step that leaves the report and the exit code alone only has checks come to a result,
\* none of them before its turn, and sets a lookup adrift only past the deadline.
LEMMA ComesOrStays ==
  ASSUME TypeOK, TypeOK', Ledger, Ledger', [Next]_vars, UNCHANGED <<cur, findings, exit>>,
         stage # "died", stage' # "died"
  PROVE  Contract!Come
<1> DEFINE Result == [c \in Checks |-> IF work[c] \in {"idle", "running"} THEN "open" ELSE work[c]]
<1>1. ASSUME NEW c \in Checks, Result'[c] # Result[c]
      PROVE  /\ Result[c] = "open" /\ Result'[c] \in Severity \cup {"threw"}
             /\ \E i \in 1..5 : i <= (cur - 1) + 1 /\ c \in ChecksOf(Probes[i])
  <2>1. Kept BY ResultsAreKept DEF Ledger
  <2>2. work[c] \in {"idle", "running"} BY <1>1, <2>1 DEF Kept
  <2>3. work'[c] \notin {"idle", "running"} BY <1>1, <2>2
  <2>4. work'[c] \in Severity \cup {"threw"} BY <2>3 DEF TypeOK
  <2>5. PICK i \in 1..5 : c \in ChecksOf(Probes[i]) BY ProbesApart
  <2>6. ~ToCome(i)' BY <2>3, <2>5 DEF Ledger, Untouched
  <2>7. i <= cur /\ cur \in 1..6 BY <2>6 DEF ToCome, TypeOK
  <2> QED BY <2>2, <2>3, <2>4, <2>5, <2>7
<1>2. Contract!Checked' = Contract!Checked BY DEF Contract!Checked
<1>3. aborted => aborted' BY Grows
<1>4. ~loose /\ loose' => aborted /\ (cur - 1) + 1 < Len(Probes) /\ exit = NoExit
  BY LooseComesLate, ProbeTable DEF LooseKept, TypeOK
<1>5. (stage = "died")' = (stage = "died") OBVIOUS
<1> HIDE DEF Result
<1>6. DOMAIN Result' = Contract!Checked BY ContractTable DEF Result
<1>7. \A c \in Contract!Checked : Result'[c] # Result[c] =>
        /\ Result[c] = "open" /\ Result'[c] \in Severity \cup {"threw"}
        /\ \E i \in 1..Len(Probes) : i <= (cur - 1) + 1
              /\ c \in [j \in 1..Len(Probes) |-> ChecksOf(Probes[j])][i]
  BY <1>1, ContractTable, ProbeTable
<1> QED BY <1>3, <1>4, <1>5, <1>6, <1>7, Zenon DEF Contract!Come, Result

\* A probe that ends is reported as the contract has it, in its turn.
LEMMA EndsInTurn ==
  ASSUME TypeOK, Ledger, ProbeReturns \/ ProbeThrows
  PROVE  Contract!Whole \/ Contract!Error
<1>1. cur \in 1..5 /\ exit = NoExit
  BY CurrentIsProbe DEF ProbeReturns, ProbeThrows, Probing, Ledger, Order
<1>2. /\ UNCHANGED <<work, exit>> /\ cur' - 1 = (cur - 1) + 1
      /\ cur - 1 < Len(Probes) /\ (cur - 1) + 1 = cur
  BY <1>1, ProbeTable DEF ProbeReturns, ProbeThrows
<1> DEFINE Part == [j \in 1..Len(Probes) |-> ChecksOf(Probes[j])]
           Result == [c \in Checks |-> IF work[c] \in {"idle", "running"} THEN "open" ELSE work[c]]
<1>3. Part[(cur - 1) + 1] = ChecksOf(Current)
  BY <1>1, <1>2, ContractTable DEF Current
<1>4. ChecksOf(Current) \subseteq Checks BY <1>1, ProbesApart DEF Current
<1>5. \A c \in ChecksOf(Current) : work[c] \in Severity \cup {"threw"} => Result[c] = work[c]
  BY <1>4 DEF Severity
<1>6. Result' = Result BY <1>2
<1>9. UNCHANGED <<aborted, loose>> /\ (stage = "died")' = (stage = "died")
  BY DEF ProbeReturns, ProbeThrows
<1> HIDE DEF Part, Result
<1>7. CASE ProbeReturns
  <2>1. \A c \in ChecksOf(Current) : work[c] \in Severity /\ Result[c] = work[c]
    BY <1>5, <1>7 DEF ProbeReturns, AllIn
  <2>2. {Finding(c, work[c]) : c \in ChecksOf(Current)}
          = {[from |-> c, severity |-> Result[c]] : c \in Part[(cur - 1) + 1]}
    BY <1>3, <2>1 DEF Finding
  <2>3. findings' = findings \cup {[from |-> c, severity |-> Result[c]] : c \in Part[(cur - 1) + 1]}
    BY <1>7, <2>2 DEF ProbeReturns
  <2>4. \A c \in Part[(cur - 1) + 1] : Result[c] \in Severity BY <1>3, <2>1
  <2> QED BY <1>1, <1>2, <1>6, <1>9, <2>3, <2>4 DEF Contract!Whole, Contract!Enter, Part, Result
<1>8. CASE ProbeThrows
  <2>1. findings' = findings \cup {[from |-> Probes[(cur - 1) + 1], severity |-> "unknown"]}
    BY <1>2, <1>8 DEF ProbeThrows, Finding, Current
  <2>2. \E c \in Part[(cur - 1) + 1] : Result[c] = "threw"
    BY <1>3, <1>5, <1>8 DEF ProbeThrows
  <2> QED BY <1>1, <1>2, <1>6, <1>9, <2>1, <2>2 DEF Contract!Error, Contract!Enter, Part, Result
<1> QED BY <1>7, <1>8

\* The exit code of a report is the worst of it.
LEMMA CodeOfReport == ExitCodeFor(RollUp) = Contract!Code
BY DEF ExitCodeFor, RollUp, Said, Contract!Code, Contract!Reported

\* An exit code is told where the contract has it: before the first check, or at the end.
LEMMA ExitsInTurn ==
  ASSUME TypeOK, Ledger, LoadProfile \/ FinishProbes \/ WriteReport, exit' # exit
  PROVE  Contract!Tell \/ Contract!GiveUp
<1>1. exit = NoExit /\ UNCHANGED <<work, cur, findings, aborted, loose>> /\ (stage = "died")' = (stage = "died")
  BY DEF LoadProfile, FinishProbes, WriteReport, Ledger, Order
<1>2. CASE LoadProfile
  <2>1. cur = 1 /\ ~begun /\ exit' = 3 BY <1>2 DEF LoadProfile, Ledger, Order
  <2>2. \A i \in 1..5 : ToCome(i) BY <2>1 DEF ToCome
  <2>3. \A c \in Checks : work[c] = "idle" BY <2>2, ProbesApart DEF Ledger, Untouched
  <2> QED BY <1>1, <2>1, <2>3, ContractTable DEF Contract!GiveUp
<1>3. CASE FinishProbes \/ WriteReport
  <2>1. cur - 1 = Len(Probes) BY <1>3, ProbeTable DEF FinishProbes, WriteReport, Ledger, Order, TypeOK
  <2>2. exit' \in {ExitCodeFor(RollUp), 3} BY <1>1, <1>3 DEF FinishProbes, WriteReport
  <2> QED BY <1>1, <2>1, <2>2, CodeOfReport DEF Contract!GiveUp, Contract!Tell
<1> QED BY <1>2, <1>3

\* The process dies only of a lookup that is adrift.
LEMMA DiesAdrift ==
  ASSUME LooseFails
  PROVE  Contract!Die
<1>1. UNCHANGED <<work, cur, findings, aborted>> BY DEF LooseFails
<1>2. loose /\ exit' = 1 /\ loose' = FALSE /\ (stage = "died")' = TRUE BY DEF LooseFails
<1> QED BY <1>1, <1>2 DEF Contract!Die

\* What has died does nothing any more.
LEMMA DeadStays ==
  ASSUME Ledger, [Next]_vars, stage = "died"
  PROVE  UNCHANGED vars
<1>1. ~RunStep
  BY DEF RunStep, LoadProfile, BeginProbe, ProbeReturns, ProbeThrows, FinishProbes, WriteReport, Probing
<1>2. ~CheckStep
  BY DEF CheckStep, Answer, CheckTarget, LegAnswers, LegThrows, ReadStores, ReadsFrom, PipeHeld, PipeReleased,
         CrossCheck, Alive
<1>3. ~Expire /\ ~LooseStep BY DEF Expire, LooseStep, ProxyGoesOn, LooseAnswers, LooseFails, Alive
<1> QED BY <1>1, <1>2, <1>3 DEF Next

LEMMA RefinesRun ==
  TypeOK /\ TypeOK' /\ Ledger /\ Ledger' /\ [Next]_vars => [Contract!Next]_(Contract!vars)
<1> SUFFICES ASSUME TypeOK, TypeOK', Ledger, Ledger', [Next]_vars
             PROVE  Contract!Next \/ UNCHANGED Contract!vars
  OBVIOUS
<1>1. CASE stage = "died"
  <2>1. UNCHANGED <<stage, cur, aborted, work, findings, exit, loose>> BY <1>1, DeadStays DEF vars
  <2> QED BY <2>1 DEF Contract!vars
<1>2. CASE LooseFails
  BY <1>2, DiesAdrift DEF Contract!Next, LooseFails, Alive
<1>3. CASE ProbeReturns \/ ProbeThrows
  BY <1>3, EndsInTurn DEF Contract!Next, ProbeReturns, ProbeThrows, Probing
<1>4. CASE (LoadProfile \/ FinishProbes \/ WriteReport) /\ exit' # exit
  BY <1>4, ExitsInTurn DEF Contract!Next, LoadProfile, FinishProbes, WriteReport
<1>5. CASE /\ stage # "died" /\ ~LooseFails /\ ~(ProbeReturns \/ ProbeThrows)
           /\ ~((LoadProfile \/ FinishProbes \/ WriteReport) /\ exit' # exit)
  <2>1. UNCHANGED <<cur, findings, exit>>
    BY <1>5 DEF Next, RunStep, LoadProfile, BeginProbe, FinishProbes, WriteReport, CheckStep, Answer,
           CheckTarget, LegAnswers, LegThrows, ReadStores, ReadsFrom, PipeHeld, PipeReleased, CrossCheck, runVars,
           vars, Expire, LooseStep, ProxyGoesOn, LooseAnswers
  <2>2. stage' # "died"
    BY <1>5 DEF Next, RunStep, LoadProfile, BeginProbe, FinishProbes, WriteReport, CheckStep, Answer,
           CheckTarget, LegAnswers, LegThrows, ReadStores, ReadsFrom, PipeHeld, PipeReleased, CrossCheck, runVars,
           vars, Expire, LooseStep, ProxyGoesOn, LooseAnswers
  <2> QED BY <1>5, <2>1, <2>2, ComesOrStays DEF Contract!Next
<1> QED BY <1>1, <1>2, <1>3, <1>4, <1>5

\* Whatever the engine, a check or the deadline does is what a run promises: the probes are
\* reported in order and whole, no result changes, none is early, none that is late gets
\* into the report, and the exit code is the worst of the report or says that there is none.
\* A run that dies of a lookup that nobody handles does so with exit code 1, and only of one
\* that a probe before truststore began when the deadline had passed: dns.ts, raceAbort.
THEOREM KeepsContractHolds == Spec => KeepsContract
<1>1. Init => Contract!Init
  <2> SUFFICES ASSUME Init PROVE Contract!Init OBVIOUS
  <2>1. [c \in Checks |-> IF work[c] \in {"idle", "running"} THEN "open" ELSE work[c]]
          = [c \in Contract!Checked |-> "open"]
    BY ContractTable DEF Init
  <2> QED BY <2>1 DEF Init, Contract!Init
<1> QED BY <1>1, RefinesRun, TypeCorrect, LedgerHolds, PTL DEF Spec, KeepsContract, Contract!Spec
=============================================================================
