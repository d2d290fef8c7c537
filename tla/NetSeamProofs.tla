--------------------------- MODULE NetSeamProofs ---------------------------
(***************************************************************************)
(* Proofs about the network seams, for any set of calls, any profile, any  *)
(* budgets and any deadline.                                               *)
(***************************************************************************)
EXTENDS NetSeam, TLAPS

\* The phases of each seam, spelt out.
LEMMA PhaseTable ==
  /\ Phases("resolve") = <<"dns">>
  /\ Phases("proxyConnect") = <<"dns", "connect", "tunnel">>
  /\ Phases("endpointTls") = <<"dns", "connect", "tls", "http">>
  /\ Phases("endpointHttp") = <<"dns", "connect", "http">>
  /\ Phases("endpointBare") = <<"dns", "connect">>
  /\ Phases("captureDirect") = <<"dns", "connect", "tls">>
  /\ Phases("captureProxy") = <<"dns", "connect", "tunnel", "tls">>
  /\ Phases("pacHttp") = <<"dns", "connect", "http">>
  /\ Phases("pacHttps") = <<"dns", "connect", "tls", "http">>
<1>1. Phases("resolve") = <<"dns">>
  BY DEF Phases, ResolvePhases, ProxyConnectPhases, EndpointKinds, CaptureKinds, PacKinds,
         EndpointPhases, CapturePhases, PacPhases
<1>2. Phases("proxyConnect") = <<"dns", "connect", "tunnel">>
  BY DEF Phases, ResolvePhases, ProxyConnectPhases, EndpointKinds, CaptureKinds, PacKinds,
         EndpointPhases, CapturePhases, PacPhases
<1>3. Phases("endpointTls") = <<"dns", "connect", "tls", "http">>
  BY DEF Phases, ResolvePhases, ProxyConnectPhases, EndpointKinds, CaptureKinds, PacKinds,
         EndpointPhases, CapturePhases, PacPhases
<1>4. Phases("endpointHttp") = <<"dns", "connect", "http">>
  BY DEF Phases, ResolvePhases, ProxyConnectPhases, EndpointKinds, CaptureKinds, PacKinds,
         EndpointPhases, CapturePhases, PacPhases
<1>5. Phases("endpointBare") = <<"dns", "connect">>
  BY DEF Phases, ResolvePhases, ProxyConnectPhases, EndpointKinds, CaptureKinds, PacKinds,
         EndpointPhases, CapturePhases, PacPhases
<1>6. Phases("captureDirect") = <<"dns", "connect", "tls">>
  BY DEF Phases, ResolvePhases, ProxyConnectPhases, EndpointKinds, CaptureKinds, PacKinds,
         EndpointPhases, CapturePhases, PacPhases
<1>7. Phases("captureProxy") = <<"dns", "connect", "tunnel", "tls">>
  BY DEF Phases, ResolvePhases, ProxyConnectPhases, EndpointKinds, CaptureKinds, PacKinds,
         EndpointPhases, CapturePhases, PacPhases
<1>8. Phases("pacHttp") = <<"dns", "connect", "http">>
  BY DEF Phases, ResolvePhases, ProxyConnectPhases, EndpointKinds, CaptureKinds, PacKinds,
         EndpointPhases, CapturePhases, PacPhases
<1>9. Phases("pacHttps") = <<"dns", "connect", "tls", "http">>
  BY DEF Phases, ResolvePhases, ProxyConnectPhases, EndpointKinds, CaptureKinds, PacKinds,
         EndpointPhases, CapturePhases, PacPhases
<1> QED BY <1>1, <1>2, <1>3, <1>4, <1>5, <1>6, <1>7, <1>8, <1>9

\* What the later steps need of the table: a seam begins with its lookup,
\* connects next if at all, and tunnels third.
Shape(k) ==
  /\ Len(Phases(k)) \in 1..4
  /\ \A i \in 1..Len(Phases(k)) : Phases(k)[i] \in PhaseNames
  /\ Phases(k)[1] = "dns"
  /\ \A i \in 1..Len(Phases(k)) : Phases(k)[i] = "connect" <=> i = 2
  /\ k = "captureProxy" => \A i \in 1..Len(Phases(k)) : Phases(k)[i] = "tunnel" <=> i = 3
  /\ k = "captureProxy" => Len(Phases(k)) = 4
  /\ k = "resolve" => Len(Phases(k)) = 1

LEMMA PhaseShape == ASSUME NEW k \in Kinds PROVE Shape(k)
<1>1. CASE k = "resolve"
  BY <1>1, PhaseTable DEF Shape, PhaseNames
<1>2. CASE k = "proxyConnect"
  BY <1>2, PhaseTable DEF Shape, PhaseNames
<1>3. CASE k = "endpointTls"
  BY <1>3, PhaseTable DEF Shape, PhaseNames
<1>4. CASE k = "endpointHttp"
  BY <1>4, PhaseTable DEF Shape, PhaseNames
<1>5. CASE k = "endpointBare"
  BY <1>5, PhaseTable DEF Shape, PhaseNames
<1>6. CASE k = "captureDirect"
  BY <1>6, PhaseTable DEF Shape, PhaseNames
<1>7. CASE k = "captureProxy"
  <2>1. Phases(k) = <<"dns", "connect", "tunnel", "tls">>
    BY <1>7, PhaseTable
  <2>2. Len(Phases(k)) = 4 /\ k # "resolve"
    BY <1>7, <2>1
  <2>3. /\ Phases(k)[1] = "dns" /\ Phases(k)[2] = "connect"
        /\ Phases(k)[3] = "tunnel" /\ Phases(k)[4] = "tls"
    BY <2>1
  <2>4. \A i \in 1..4 : i = 1 \/ i = 2 \/ i = 3 \/ i = 4
    OBVIOUS
  <2> HIDE <2>1
  <2> QED BY <2>2, <2>3, <2>4 DEF Shape, PhaseNames
<1>8. CASE k = "pacHttp"
  BY <1>8, PhaseTable DEF Shape, PhaseNames
<1>9. CASE k = "pacHttps"
  BY <1>9, PhaseTable DEF Shape, PhaseNames
<1> QED BY <1>1, <1>2, <1>3, <1>4, <1>5, <1>6, <1>7, <1>8, <1>9
           DEF Kinds, EndpointKinds, CaptureKinds, PacKinds

\* Every budget is a positive number of ticks.
LEMMA BudgetPositive ==
  ASSUME NEW k \in Kinds, NEW p \in PhaseNames
  PROVE  BudgetOf(k, p) \in Nat \ {0}
BY BudgetAssumption DEF BudgetOf, PhaseNames

-----------------------------------------------------------------------------
(***************************************************************************)
(* Type correctness.                                                       *)
(***************************************************************************)
LEMMA RequestTypes ==
  ASSUME TypeOK, NEW a \in Attempts
  PROVE  Kind(a) \in Kinds /\ Dial(a) \in Endpoints /\ req[a].target \in Endpoints
BY RequestAssumption DEF TypeOK, Kind, Dial

LEMMA PhaseTypes ==
  ASSUME TypeOK, NEW a \in Attempts, pos[a] > 0
  PROVE  Phase(a) \in PhaseNames
<1>1. Shape(Kind(a))
  BY RequestTypes, PhaseShape
<1>2. Len(Phases(Kind(a))) \in 1..4
  BY <1>1 DEF Shape
<1>3. pos[a] \in 1..4 /\ pos[a] <= Len(Phases(Kind(a)))
  BY DEF TypeOK
<1>4. pos[a] \in 1..Len(Phases(Kind(a)))
  BY <1>2, <1>3
<1> QED BY <1>1, <1>4 DEF Shape, Phase

\* What the return of any set of calls leaves well typed.
LEMMA SettleTypes ==
  ASSUME TypeOK, NEW S \in SUBSET Attempts, NEW outcome \in [S -> Results], Settle(outcome)
  PROVE  /\ result' \in [Attempts -> Results]
         /\ sock' \in [Attempts -> {"none", "open", "closed"}]
         /\ secure' \in [Attempts -> {"none", "open", "closed"}]
         /\ began' \in [Attempts -> Nat] /\ due' \in [Attempts -> Nat]
         /\ pos' = pos /\ handedOver' = handedOver
<1>1. \A a \in Attempts : SocketAfter(a) \in {"none", "open", "closed"}
                         /\ SecureAfter(a) \in {"none", "open", "closed"}
  BY DEF TypeOK, SocketAfter, SecureAfter, Destroyed
<1>2. result' \in [Attempts -> Results]
  BY DEF Settle, TypeOK
<1>3. sock' \in [Attempts -> {"none", "open", "closed"}]
  BY <1>1 DEF Settle, TypeOK
<1>4. secure' \in [Attempts -> {"none", "open", "closed"}]
  BY <1>1 DEF Settle, TypeOK
<1>5. began' \in [Attempts -> Nat] /\ due' \in [Attempts -> Nat]
  BY DEF Settle, TypeOK
<1> QED BY <1>2, <1>3, <1>4, <1>5 DEF Settle

LEMMA ReturnTypes ==
  ASSUME TypeOK, NEW a \in Attempts, NEW r \in Results, Return(a, r)
  PROVE  /\ result' \in [Attempts -> Results]
         /\ sock' \in [Attempts -> {"none", "open", "closed"}]
         /\ secure' \in [Attempts -> {"none", "open", "closed"}]
         /\ began' \in [Attempts -> Nat] /\ due' \in [Attempts -> Nat]
         /\ pos' = pos /\ handedOver' = handedOver
<1>1. [b \in {a} |-> r] \in [{a} -> Results] /\ {a} \in SUBSET Attempts
  OBVIOUS
<1>2. Settle([b \in {a} |-> r])
  BY DEF Return
<1> QED BY <1>1, <1>2, SettleTypes

LEMMA OutcomeTypes ==
  /\ Ok \in Results /\ Denied \in Results /\ Pending \in Results
  /\ \A p \in PhaseNames, c \in {"none", "errno", "status"} : Failed(p, c) \in Results
  /\ \A p \in PhaseNames, b \in BOOLEAN : Aborted(p, AbortSource(b)) \in Results
  /\ Aborted("dns", "run-signal") \in Results
BY DEF Ok, Denied, Pending, Failed, Aborted, AbortSource, Outcome, Results, PhaseNames

\* Entering phase i of a call.
LEMMA ArmTypes ==
  ASSUME TypeOK, NEW a \in Attempts, NEW i \in 1..Len(Phases(Kind(a))), ArmPhase(a, i)
  PROVE  /\ pos' \in [Attempts -> 0..4] /\ due' \in [Attempts -> Nat]
         /\ \A b \in Attempts : pos'[b] <= Len(Phases(Kind(b)))
<1>1. Shape(Kind(a))
  BY RequestTypes, PhaseShape
<1>2. Len(Phases(Kind(a))) \in 1..4 /\ Phases(Kind(a))[i] \in PhaseNames
  BY <1>1 DEF Shape
<1>3. i \in 0..4 /\ i <= Len(Phases(Kind(a)))
  BY <1>2
<1>4. BudgetOf(Kind(a), Phases(Kind(a))[i]) \in Nat
  BY <1>2, RequestTypes, BudgetPositive
<1>5. now + BudgetOf(Kind(a), Phases(Kind(a))[i]) \in Nat
  BY <1>4 DEF TypeOK
<1> QED BY <1>3, <1>5 DEF TypeOK, ArmPhase

\* Every variable keeps its type, and no call enters a phase its seam lacks.
THEOREM TypeCorrect == Spec => []TypeOK
<1>1. Init => TypeOK
  <2> SUFFICES ASSUME Init PROVE TypeOK
    OBVIOUS
  <2>1. \A a \in Attempts : req[a] \in Requests
    BY DEF Init
  <2>2. \A a \in Attempts : Kind(a) \in Kinds
    BY <2>1, RequestAssumption DEF Kind
  <2>3. \A a \in Attempts : Len(Phases(Kind(a))) \in 1..4
    BY <2>2, PhaseShape DEF Shape
  <2>4. \A a \in Attempts : pos[a] = 0
    BY DEF Init
  <2>5. ASSUME NEW a \in Attempts PROVE pos[a] <= Len(Phases(Kind(a)))
    <3>1. Len(Phases(Kind(a))) \in 1..4 /\ pos[a] = 0
      BY <2>3, <2>4
    <3> QED BY <3>1
  <2>6. allowed \subseteq Endpoints
    BY RequestAssumption DEF Init
  <2>7. result \in [Attempts -> Results]
    BY OutcomeTypes DEF Init
  <2>8. pos \in [Attempts -> 0..4] /\ began \in [Attempts -> Nat] /\ due \in [Attempts -> Nat]
    BY DEF Init
  <2> QED BY <2>5, <2>6, <2>7, <2>8 DEF Init, TypeOK
<1>2. TypeOK /\ [Next]_vars => TypeOK'
  <2> SUFFICES ASSUME TypeOK, [Next]_vars PROVE TypeOK'
    OBVIOUS
  <2> USE DEF Kind
  <2>1. CASE UNCHANGED vars
    BY <2>1 DEF TypeOK, vars, attemptVars
  <2>2. CASE Tick
    BY <2>2 DEF TypeOK, Tick, attemptVars
  <2>3. CASE RunAbort
    <3>1. \A a \in CutByRun : Phase(a) \in PhaseNames
      BY PhaseTypes DEF CutByRun, InFlight
    <3>2. [a \in CutByRun |-> Aborted(Phase(a), AbortSource(runAborted'))] \in [CutByRun -> Results]
      BY <2>3, <3>1, OutcomeTypes DEF RunAbort
    <3> DEFINE cut == [a \in CutByRun |-> Aborted(Phase(a), AbortSource(runAborted'))]
    <3>3. Settle(cut) /\ CutByRun \in SUBSET Attempts
      BY <2>3 DEF RunAbort, CutByRun
    <3> QED BY <2>3, <3>2, <3>3, SettleTypes DEF TypeOK, RunAbort, LookupAbandoned
  <2>4. ASSUME NEW a \in Attempts, Serve(a)
        PROVE  TypeOK'
    <3>1. CASE Deny(a)
      BY <2>4, <3>1, ReturnTypes, OutcomeTypes DEF Serve, Deny, TypeOK
    <3>2. CASE RejectUrl(a)
      BY <2>4, <3>2, ReturnTypes, OutcomeTypes DEF Serve, RejectUrl, TypeOK, PhaseNames
    <3>3. CASE Start(a)
      <4>1. 1 \in 1..Len(Phases(Kind(a)))
        BY RequestTypes, PhaseShape DEF Shape
      <4>2. allowed' \subseteq Endpoints
        BY <3>3, RequestTypes DEF Start, Admission, Permit, TypeOK
      <4> QED BY <2>4, <3>3, <4>1, <4>2, ArmTypes DEF Serve, Start, TypeOK
    <3>4. CASE StartLate(a)
      <4>1. Len(Phases(Kind(a))) \in 1..4
        BY RequestTypes, PhaseShape DEF Shape
      <4>2. allowed' \subseteq Endpoints
        BY <3>4, RequestTypes DEF StartLate, Admission, Permit, TypeOK
      <4>3. result' \in [Attempts -> Results]
        BY <3>4, OutcomeTypes DEF StartLate, TypeOK
      <4>4. 1 <= Len(Phases(Kind(a)))
        BY <4>1
      <4>5. pos' \in [Attempts -> 0..4] /\ \A b \in Attempts : pos'[b] <= Len(Phases(Kind(b)))
        BY <3>4, <4>4 DEF StartLate, TypeOK
      <4> QED BY <2>4, <3>4, <4>2, <4>3, <4>5 DEF Serve, StartLate, TypeOK
    <3>5. CASE Complete(a)
      BY <2>4, <3>5, ReturnTypes, OutcomeTypes DEF Serve, Complete, LookupAnswered, TypeOK
    <3>6. CASE Advance(a)
      <4>1. pos[a] + 1 \in 1..Len(Phases(Kind(a)))
        <5>1. Len(Phases(Kind(a))) \in 1..4
          BY RequestTypes, PhaseShape DEF Shape
        <5>2. pos[a] \in 1..4 /\ pos[a] < Len(Phases(Kind(a)))
          BY <3>6 DEF Advance, InFlight, TypeOK
        <5> QED BY <5>1, <5>2
      <4>2. sock' \in [Attempts -> {"none", "open", "closed"}]
        BY <3>6 DEF Advance, TypeOK, Destroyed
      <4>3. secure' \in [Attempts -> {"none", "open", "closed"}]
        BY <3>6 DEF Advance, TypeOK
      <4>4. handedOver' \in [Attempts -> BOOLEAN]
        BY <3>6 DEF Advance, TypeOK
      <4>5. ArmPhase(a, pos[a] + 1)
        BY <3>6 DEF Advance
      <4> QED BY <2>4, <3>6, <4>1, <4>2, <4>3, <4>4, <4>5, ArmTypes
              DEF Serve, Advance, LookupAnswered, TypeOK
    <3>7. CASE Fail(a)
      <4>1. Phase(a) \in PhaseNames
        BY <3>7, PhaseTypes DEF Fail, InFlight
      <4> QED BY <2>4, <3>7, <4>1, ReturnTypes, OutcomeTypes
              DEF Serve, Fail, LookupAnswered, TypeOK
    <3>8. CASE Decline(a)
      <4>1. PICK p \in PhaseNames, c \in {"none", "status"} : Return(a, Failed(p, c))
        BY <3>8 DEF Decline, PhaseNames
      <4> QED BY <2>4, <3>8, <4>1, ReturnTypes, OutcomeTypes DEF Serve, Decline, TypeOK
    <3> QED BY <2>4, <3>1, <3>2, <3>3, <3>4, <3>5, <3>6, <3>7, <3>8 DEF Serve
  <2>5. ASSUME NEW a \in Attempts, Expire(a)
        PROVE  TypeOK'
    <3>1. Phase(a) \in PhaseNames
      BY <2>5, PhaseTypes DEF Expire, PhaseTimeout, InFlight
    <3>2. Aborted(Phase(a), AbortSource(runAborted)) \in Results
      BY <3>1, OutcomeTypes DEF TypeOK
    <3> QED BY <2>5, <3>2, ReturnTypes DEF Expire, PhaseTimeout, LookupAbandoned, TypeOK
  <2>6. ASSUME NEW a \in Attempts, Late(a)
        PROVE  TypeOK'
    BY <2>6 DEF Late, LateAnswer, LateRejection, TypeOK
  <2> QED BY <2>1, <2>2, <2>3, <2>4, <2>5, <2>6 DEF Next
<1> QED BY <1>1, <1>2, PTL DEF Spec

-----------------------------------------------------------------------------
(***************************************************************************)
(* What a step of the system does to one call.  The invariants below are   *)
(* proved from these five shapes, not from the actions.                    *)
(***************************************************************************)
Same(a) == /\ pos'[a] = pos[a] /\ began'[a] = began[a] /\ due'[a] = due[a]
           /\ sock'[a] = sock[a] /\ secure'[a] = secure[a] /\ result'[a] = result[a]

Begins(a) == /\ Waiting(a) /\ ~runAborted
             /\ pos'[a] = 1 /\ began'[a] = now
             /\ due'[a] = now + BudgetOf(Kind(a), Phases(Kind(a))[1])
             /\ sock'[a] = sock[a] /\ secure'[a] = secure[a] /\ result'[a] = Pending

BeginsLate(a) == /\ Waiting(a) /\ runAborted
                 /\ pos'[a] = 1
                 /\ sock'[a] = sock[a] /\ secure'[a] = secure[a]
                 /\ result'[a] = Aborted("dns", "run-signal")

NextPhase(a) == Phases(Kind(a))[pos[a] + 1]

Moves(a) == /\ InFlight(a) /\ pos[a] < Len(Phases(Kind(a)))
            /\ pos'[a] = pos[a] + 1 /\ began'[a] = began[a]
            /\ due'[a] = now + BudgetOf(Kind(a), NextPhase(a))
            /\ sock'[a] = (IF NextPhase(a) = "connect" THEN "open" ELSE sock[a])
            /\ secure'[a] = (IF NextPhase(a) = "tls" THEN "open" ELSE secure[a])
            /\ result'[a] = Pending

Ends(a) == /\ ~Settled(a) /\ result'[a] # Pending
           /\ pos'[a] = pos[a]
           /\ sock'[a] = Destroyed(sock[a]) /\ secure'[a] = Destroyed(secure[a])

CallStep(a) == Same(a) \/ Begins(a) \/ BeginsLate(a) \/ Moves(a) \/ Ends(a)

\* No outcome is the pending one.
LEMMA OutcomesSettle ==
  /\ Ok # Pending /\ Denied # Pending
  /\ \A p, c : Failed(p, c) # Pending
  /\ \A p, by : Aborted(p, by) # Pending
BY DEF Ok, Denied, Pending, Failed, Aborted, Outcome

\* Returning closes whatever the call holds, on every path: either openTunnel
\* still owns the socket, or the seam does.
LEMMA SettleShape ==
  ASSUME TypeOK, NEW S \in SUBSET Attempts, NEW outcome, DOMAIN outcome = S, Settle(outcome),
         \A a \in S : ~Settled(a) /\ outcome[a] # Pending
  PROVE  \A a \in Attempts : IF a \in S THEN Ends(a) /\ result'[a] = outcome[a] ELSE Same(a)
<1>1. \A a \in Attempts : SocketAfter(a) = Destroyed(sock[a])
  BY DEF SocketAfter, TunnelCloses, SeamCloses
<1> QED BY <1>1 DEF Settle, Ends, Same, SecureAfter, TypeOK

LEMMA ReturnShape ==
  ASSUME TypeOK, NEW a \in Attempts, NEW r, Return(a, r), ~Settled(a), r # Pending
  PROVE  /\ Ends(a) /\ result'[a] = r
         /\ \A b \in Attempts \ {a} : Same(b)
<1> DEFINE outcome == [b \in {a} |-> r]
<1>1. {a} \in SUBSET Attempts /\ DOMAIN outcome = {a} /\ outcome[a] = r
  OBVIOUS
<1>2. Settle(outcome)
  BY DEF Return
<1>3. \A b \in {a} : ~Settled(b) /\ outcome[b] # Pending
  OBVIOUS
<1> HIDE DEF outcome
<1> QED BY <1>1, <1>2, <1>3, SettleShape

LEMMA StepShape ==
  ASSUME TypeOK, Next
  PROVE  req' = req /\ \A a \in Attempts : CallStep(a)
<1> USE OutcomesSettle
<1>1. CASE Tick
  BY <1>1 DEF Tick, attemptVars, CallStep, Same
<1>2. CASE RunAbort
  <2> DEFINE cut == [a \in CutByRun |-> Aborted(Phase(a), AbortSource(runAborted'))]
  <2>1. Settle(cut) /\ DOMAIN cut = CutByRun /\ CutByRun \in SUBSET Attempts /\ req' = req
    BY <1>2 DEF RunAbort, CutByRun
  <2>2. \A a \in CutByRun : ~Settled(a) /\ cut[a] # Pending
    BY DEF CutByRun, InFlight, Settled
  <2> HIDE DEF cut
  <2>3. \A a \in Attempts : IF a \in CutByRun THEN Ends(a) /\ result'[a] = cut[a] ELSE Same(a)
    BY <2>1, <2>2, SettleShape
  <2> QED BY <2>1, <2>3 DEF CallStep
<1>3. ASSUME NEW a \in Attempts, Serve(a)
      PROVE  req' = req /\ \A b \in Attempts : CallStep(b)
  <2>0. req' = req
    BY <1>3 DEF Serve
  <2>1. CASE Deny(a)
    BY <2>0, <2>1, ReturnShape DEF Deny, Waiting, CallStep
  <2>2. CASE RejectUrl(a)
    BY <2>0, <2>2, ReturnShape DEF RejectUrl, Waiting, CallStep
  <2>3. CASE Start(a)
    <3>1. Begins(a)
      BY <2>3 DEF Start, Begins, ArmPhase, TypeOK, Waiting, Settled
    <3>2. \A b \in Attempts \ {a} : Same(b)
      BY <2>3 DEF Start, Same, ArmPhase, TypeOK
    <3> QED BY <2>0, <3>1, <3>2 DEF CallStep
  <2>4. CASE StartLate(a)
    <3>1. BeginsLate(a)
      BY <2>4 DEF StartLate, BeginsLate, TypeOK
    <3>2. \A b \in Attempts \ {a} : Same(b)
      BY <2>4 DEF StartLate, Same, TypeOK
    <3> QED BY <2>0, <3>1, <3>2 DEF CallStep
  <2>5. CASE Complete(a)
    BY <2>0, <2>5, ReturnShape DEF Complete, InFlight, Settled, CallStep
  <2>6. CASE Advance(a)
    <3>1. Moves(a)
      BY <2>6 DEF Advance, Moves, NextPhase, ArmPhase, InFlight, TypeOK
    <3>2. \A b \in Attempts \ {a} : Same(b)
      BY <2>6 DEF Advance, Same, ArmPhase, TypeOK
    <3> QED BY <2>0, <3>1, <3>2 DEF CallStep
  <2>7. CASE Fail(a)
    BY <2>0, <2>7, ReturnShape DEF Fail, InFlight, Settled, CallStep
  <2>8. CASE Decline(a)
    <3>1. PICK p, c : Return(a, Failed(p, c))
      BY <2>8 DEF Decline
    <3> QED BY <2>0, <2>8, <3>1, ReturnShape DEF Decline, InFlight, Settled, CallStep
  <2> QED BY <1>3, <2>1, <2>2, <2>3, <2>4, <2>5, <2>6, <2>7, <2>8 DEF Serve
<1>4. ASSUME NEW a \in Attempts, Expire(a)
      PROVE  req' = req /\ \A b \in Attempts : CallStep(b)
  BY <1>4, ReturnShape DEF Expire, PhaseTimeout, InFlight, Settled, CallStep
<1>5. ASSUME NEW a \in Attempts, Late(a)
      PROVE  req' = req /\ \A b \in Attempts : CallStep(b)
  BY <1>5 DEF Late, CallStep, Same
<1> QED BY <1>1, <1>2, <1>3, <1>4, <1>5 DEF Next

-----------------------------------------------------------------------------
(***************************************************************************)
(* Who owns the transport.  TransportOwned says nothing of a call that has *)
(* not begun, so it is strengthened with what Begins needs to find there.  *)
(***************************************************************************)
TransportInv(a) ==
  /\ pos[a] <= 1 => sock[a] = "none" /\ secure[a] = "none"
  /\ Settled(a) => sock[a] # "open" /\ secure[a] # "open"
  /\ InFlight(a) => /\ sock[a] = "open" <=> pos[a] > 1
                    /\ secure[a] = "open" <=> InTls(a)

LEMMA TransportStep ==
  ASSUME TypeOK, TypeOK', req' = req, NEW a \in Attempts, CallStep(a), TransportInv(a)
  PROVE  TransportInv(a)'
<1>1. Kind(a)' = Kind(a) /\ Shape(Kind(a))
  BY RequestTypes, PhaseShape DEF Kind
<1>2. pos[a] \in 0..4 /\ pos'[a] \in 0..4
  BY DEF TypeOK
<1>3. CASE Same(a)
  BY <1>1, <1>2, <1>3 DEF Same, TransportInv, Settled, InFlight, InTls
<1>4. CASE Begins(a)
  <2>1. pos'[a] = 1 /\ ~InTls(a)'
    BY <1>1, <1>4 DEF Begins, InTls, Shape
  <2> QED BY <1>4, <2>1 DEF Begins, Waiting, TransportInv, Settled, InFlight
<1>5. CASE BeginsLate(a)
  BY <1>5, OutcomesSettle DEF BeginsLate, Waiting, TransportInv, Settled, InFlight
<1>6. CASE Moves(a)
  <2>1. /\ pos[a] \in 1..4 /\ pos'[a] = pos[a] + 1 /\ pos[a] + 1 \in 1..Len(Phases(Kind(a)))
        /\ ~Settled(a)' /\ InFlight(a)
    <3>1. Len(Phases(Kind(a))) \in 1..4
      BY <1>1 DEF Shape
    <3>2. pos[a] > 0 /\ pos'[a] = pos[a] + 1 /\ pos[a] < Len(Phases(Kind(a)))
      BY <1>6 DEF Moves, InFlight
    <3> QED BY <1>2, <1>6, <3>1, <3>2 DEF Moves, Settled
  <2>2. sock'[a] = "open"
    <3>1. NextPhase(a) = "connect" <=> pos[a] + 1 = 2
      BY <1>1, <2>1 DEF Shape, NextPhase
    <3>2. pos[a] + 1 # 2 => sock[a] = "open"
      BY <2>1 DEF TransportInv
    <3> QED BY <1>6, <3>1, <3>2 DEF Moves
  <2>3. secure'[a] = "open" <=> InTls(a)'
    <3>1. \A i \in Nat : i \in 1..(pos[a] + 1) <=> (i \in 1..pos[a] \/ i = pos[a] + 1)
      BY <2>1
    <3>2. InTls(a)' <=> (InTls(a) \/ NextPhase(a) = "tls")
      BY <1>1, <2>1, <3>1 DEF InTls, NextPhase
    <3>3. secure[a] = "open" <=> InTls(a)
      BY <2>1 DEF TransportInv
    <3> QED BY <1>6, <3>2, <3>3 DEF Moves
  <2> QED BY <2>1, <2>2, <2>3 DEF TransportInv, InFlight, Settled
<1>7. CASE Ends(a)
  BY <1>2, <1>7 DEF Ends, TransportInv, Settled, InFlight, Destroyed
<1> QED BY <1>3, <1>4, <1>5, <1>6, <1>7 DEF CallStep

Transport == \A a \in Attempts : TransportInv(a)

\* The strengthened invariant holds of every call at every step.
THEOREM TransportHolds == Spec => []Transport
<1>1. Init => Transport
  <2> SUFFICES ASSUME Init, NEW a \in Attempts PROVE TransportInv(a)
    BY DEF Transport
  <2> QED BY DEF Init, TransportInv, Settled, InFlight
<1>2. TypeOK /\ TypeOK' /\ Transport /\ [Next]_vars => Transport'
  <2> SUFFICES ASSUME TypeOK, TypeOK', Transport, [Next]_vars, NEW a \in Attempts
               PROVE  TransportInv(a)'
    BY DEF Transport
  <2>1. CASE UNCHANGED vars
    BY <2>1 DEF Transport, TransportInv, Settled, InFlight, InTls, Kind, vars, attemptVars
  <2>2. CASE Next
    BY <2>2, StepShape, TransportStep DEF Transport
  <2> QED BY <2>1, <2>2
<1> QED BY <1>1, <1>2, TypeCorrect, PTL DEF Spec

\* A socket is open exactly while its call needs it (endpoint.ts, tls-capture.ts,
\* pac-fetch.ts and proxy-connect.ts, their `finally` blocks, and the hand-over
\* of openTunnel), whatever the network does and whenever the run is cut.
THEOREM TransportOwnedHolds == Spec => []TransportOwned
<1>1. Transport => TransportOwned
  BY DEF Transport, TransportInv, TransportOwned
<1> QED BY <1>1, TransportHolds, PTL

-----------------------------------------------------------------------------
(***************************************************************************)
(* Time: what is pending is not overdue, its current timer is within the   *)
(* budgets of the phases it has entered, and nothing is pending once the   *)
(* run is over.                                                            *)
(***************************************************************************)
\* The budgets of the first i phases together.
Spent(k, i) ==
  LET b(j) == IF j <= i THEN BudgetOf(k, Phases(k)[j]) ELSE 0
  IN  b(1) + b(2) + b(3) + b(4)

TimeInv(a) == InFlight(a) => /\ now <= due[a]
                             /\ due[a] <= began[a] + Spent(Kind(a), pos[a])

RunInv == runAborted => Deadline <= now /\ \A a \in Attempts : ~InFlight(a)

LEMMA SpentSteps ==
  ASSUME NEW k \in Kinds, NEW i \in 0..3, i + 1 <= Len(Phases(k))
  PROVE  /\ Spent(k, i) \in Nat
         /\ Spent(k, 0) = 0
         /\ Spent(k, i + 1) = Spent(k, i) + BudgetOf(k, Phases(k)[i + 1])
<1> DEFINE B(j) == BudgetOf(k, Phases(k)[j])
<1>1. \A j \in 1..(i + 1) : B(j) \in Nat
  <2>1. Shape(k)
    BY PhaseShape
  <2>2. Len(Phases(k)) \in 1..4
    BY <2>1 DEF Shape
  <2>3. \A j \in 1..(i + 1) : Phases(k)[j] \in PhaseNames
    BY <2>1, <2>2 DEF Shape
  <2> QED BY <2>3, BudgetPositive
<1> HIDE DEF B
<1>2. CASE i = 0
  BY <1>1, <1>2 DEF Spent, B
<1>3. CASE i = 1
  BY <1>1, <1>3 DEF Spent, B
<1>4. CASE i = 2
  BY <1>1, <1>4 DEF Spent, B
<1>5. CASE i = 3
  BY <1>1, <1>5 DEF Spent, B
<1> QED BY <1>2, <1>3, <1>4, <1>5

\* The allowance of a seam covers the budgets of any number of its phases.
LEMMA SpentWithinAllowance ==
  ASSUME NEW k \in Kinds, NEW i \in 1..Len(Phases(k))
  PROVE  Spent(k, i) <= Allowance[k] /\ Spent(k, i) \in Nat /\ Allowance[k] \in Nat
<1> USE BudgetAssumption
<1>1. CASE k = "resolve"
  <2>1. Len(Phases(k)) = 1 /\ Phases(k)[1] = "dns"
    BY <1>1, PhaseTable
  <2>2. BudgetOf(k, "dns") = ConnectBudget
    BY <1>1 DEF BudgetOf
  <2>3. Allowance[k] = ConnectBudget
    BY <1>1 DEF Allowance
  <2> QED BY <2>1, <2>2, <2>3 DEF Spent
<1>2. CASE k = "proxyConnect"
  <2>1./\  Len(Phases(k)) = 3 /\ Phases(k)[1] = "dns"
       /\ Phases(k)[2] = "connect" /\ Phases(k)[3] = "tunnel"
    BY <1>2, PhaseTable
  <2>2./\  BudgetOf(k, "dns") = ConnectBudget /\ BudgetOf(k, "connect") = ConnectBudget
       /\ BudgetOf(k, "tunnel") = HttpBudget
    BY <1>2 DEF BudgetOf
  <2>3. Allowance[k] = 2 * ConnectBudget + HttpBudget
    BY <1>2 DEF Allowance
  <2> QED BY <2>1, <2>2, <2>3 DEF Spent
<1>3. CASE k = "endpointTls"
  <2>1./\  Len(Phases(k)) = 4 /\ Phases(k)[1] = "dns" /\ Phases(k)[2] = "connect"
       /\ Phases(k)[3] = "tls" /\ Phases(k)[4] = "http"
    BY <1>3, PhaseTable
  <2>2./\  BudgetOf(k, "dns") = ConnectBudget /\ BudgetOf(k, "connect") = ConnectBudget
       /\ BudgetOf(k, "tls") = TlsBudget /\ BudgetOf(k, "http") = HttpBudget
    BY <1>3 DEF BudgetOf
  <2>3. Allowance[k] = 2 * ConnectBudget + TlsBudget + HttpBudget
    BY <1>3 DEF Allowance
  <2> QED BY <2>1, <2>2, <2>3 DEF Spent
<1>4. CASE k = "endpointHttp"
  <2>1./\  Len(Phases(k)) = 3 /\ Phases(k)[1] = "dns"
       /\ Phases(k)[2] = "connect" /\ Phases(k)[3] = "http"
    BY <1>4, PhaseTable
  <2>2./\  BudgetOf(k, "dns") = ConnectBudget /\ BudgetOf(k, "connect") = ConnectBudget
       /\ BudgetOf(k, "http") = HttpBudget
    BY <1>4 DEF BudgetOf
  <2>3. Allowance[k] = 2 * ConnectBudget + HttpBudget
    BY <1>4 DEF Allowance
  <2> QED BY <2>1, <2>2, <2>3 DEF Spent
<1>5. CASE k = "endpointBare"
  <2>1. Len(Phases(k)) = 2 /\ Phases(k)[1] = "dns" /\ Phases(k)[2] = "connect"
    BY <1>5, PhaseTable
  <2>2. BudgetOf(k, "dns") = ConnectBudget /\ BudgetOf(k, "connect") = ConnectBudget
    BY <1>5 DEF BudgetOf
  <2>3. Allowance[k] = 2 * ConnectBudget
    BY <1>5 DEF Allowance
  <2> QED BY <2>1, <2>2, <2>3 DEF Spent
<1>6. CASE k = "captureDirect"
  <2>1./\  Len(Phases(k)) = 3 /\ Phases(k)[1] = "dns"
       /\ Phases(k)[2] = "connect" /\ Phases(k)[3] = "tls"
    BY <1>6, PhaseTable
  <2>2./\  BudgetOf(k, "dns") = ConnectBudget /\ BudgetOf(k, "connect") = ConnectBudget
       /\ BudgetOf(k, "tls") = TlsBudget
    BY <1>6 DEF BudgetOf
  <2>3. Allowance[k] = 2 * ConnectBudget + TlsBudget
    BY <1>6 DEF Allowance
  <2> QED BY <2>1, <2>2, <2>3 DEF Spent
<1>7. CASE k = "captureProxy"
  <2>1./\  Len(Phases(k)) = 4 /\ Phases(k)[1] = "dns" /\ Phases(k)[2] = "connect"
       /\ Phases(k)[3] = "tunnel" /\ Phases(k)[4] = "tls"
    BY <1>7, PhaseTable
  <2>2./\  BudgetOf(k, "dns") = ConnectBudget /\ BudgetOf(k, "connect") = ConnectBudget
       /\ BudgetOf(k, "tunnel") = ConnectBudget /\ BudgetOf(k, "tls") = TlsBudget
    BY <1>7 DEF BudgetOf
  <2>3. Allowance[k] = 3 * ConnectBudget + TlsBudget
    BY <1>7 DEF Allowance
  <2> QED BY <2>1, <2>2, <2>3 DEF Spent
<1>8. CASE k = "pacHttp"
  <2>1./\  Len(Phases(k)) = 3 /\ Phases(k)[1] = "dns"
       /\ Phases(k)[2] = "connect" /\ Phases(k)[3] = "http"
    BY <1>8, PhaseTable
  <2>2./\  BudgetOf(k, "dns") = ConnectBudget /\ BudgetOf(k, "connect") = ConnectBudget
       /\ BudgetOf(k, "http") = HttpBudget
    BY <1>8 DEF BudgetOf
  <2>3. Allowance[k] = 2 * ConnectBudget + HttpBudget
    BY <1>8 DEF Allowance
  <2> QED BY <2>1, <2>2, <2>3 DEF Spent
<1>9. CASE k = "pacHttps"
  <2>1./\  Len(Phases(k)) = 4 /\ Phases(k)[1] = "dns" /\ Phases(k)[2] = "connect"
       /\ Phases(k)[3] = "tls" /\ Phases(k)[4] = "http"
    BY <1>9, PhaseTable
  <2>2./\  BudgetOf(k, "dns") = ConnectBudget /\ BudgetOf(k, "connect") = ConnectBudget
       /\ BudgetOf(k, "tls") = TlsBudget /\ BudgetOf(k, "http") = HttpBudget
    BY <1>9 DEF BudgetOf
  <2>3. Allowance[k] = 2 * ConnectBudget + TlsBudget + HttpBudget
    BY <1>9 DEF Allowance
  <2> QED BY <2>1, <2>2, <2>3 DEF Spent
<1> QED BY <1>1, <1>2, <1>3, <1>4, <1>5, <1>6, <1>7, <1>8, <1>9
           DEF Kinds, EndpointKinds, CaptureKinds, PacKinds

LEMMA NextIndex ==
  ASSUME NEW p \in 1..4, NEW n \in 1..4, p < n
  PROVE  p \in 1..3 /\ p + 1 \in 1..n
OBVIOUS

LEMMA TimeStep ==
  ASSUME TypeOK, TypeOK', req' = req, now' = now, NEW a \in Attempts, CallStep(a), TimeInv(a)
  PROVE  TimeInv(a)'
<1>1. Kind(a)' = Kind(a) /\ Kind(a) \in Kinds /\ Shape(Kind(a))
  BY RequestTypes, PhaseShape DEF Kind
<1>2. pos[a] \in 0..4 /\ now \in Nat /\ began[a] \in Nat /\ due[a] \in Nat
  BY DEF TypeOK
<1>8. Len(Phases(Kind(a))) \in 1..4
  BY <1>1 DEF Shape
<1>3. CASE Same(a)
  BY <1>1, <1>3 DEF Same, TimeInv, InFlight
<1>4. CASE Begins(a)
  <2> DEFINE first == BudgetOf(Kind(a), Phases(Kind(a))[1])
  <2>1. first \in Nat \ {0}
    BY <1>1, BudgetPositive DEF Shape, PhaseNames
  <2>2. Spent(Kind(a), 0 + 1) = Spent(Kind(a), 0) + first /\ Spent(Kind(a), 0) = 0
    <3>1. 0 + 1 <= Len(Phases(Kind(a))) /\ 0 \in 0..3
      BY <1>8
    <3> QED BY <1>1, <3>1, SpentSteps
  <2>3. pos'[a] = 1 /\ began'[a] = now /\ due'[a] = now + first
    BY <1>4 DEF Begins
  <2> HIDE DEF first
  <2> QED BY <1>1, <1>2, <2>1, <2>2, <2>3 DEF TimeInv
<1>5. CASE BeginsLate(a)
  BY <1>5, OutcomesSettle DEF BeginsLate, TimeInv, InFlight
<1>6. CASE Moves(a)
  <2> DEFINE b == BudgetOf(Kind(a), NextPhase(a))
  <2>1. pos[a] \in 1..3 /\ pos[a] + 1 \in 1..Len(Phases(Kind(a))) /\ InFlight(a)
    <3>1. pos[a] > 0 /\ InFlight(a)
      BY <1>6 DEF Moves, InFlight
    <3>2. pos[a] < Len(Phases(Kind(a)))
      BY <1>6 DEF Moves
    <3>3. pos[a] \in 1..4
      BY <1>2, <3>1
    <3>4. pos[a] \in 1..3 /\ pos[a] + 1 \in 1..Len(Phases(Kind(a)))
      BY <1>8, <3>2, <3>3, NextIndex
    <3> QED BY <3>1, <3>4
  <2>2. b \in Nat \ {0}
    BY <1>1, <2>1, BudgetPositive DEF Shape, NextPhase
  <2>3. Spent(Kind(a), pos[a] + 1) = Spent(Kind(a), pos[a]) + b /\ Spent(Kind(a), pos[a]) \in Nat
    <3>1. pos[a] \in 0..3 /\ pos[a] + 1 <= Len(Phases(Kind(a)))
      BY <2>1
    <3> QED BY <1>1, <3>1, SpentSteps DEF NextPhase
  <2>4. now <= due[a] /\ due[a] <= began[a] + Spent(Kind(a), pos[a])
    BY <2>1 DEF TimeInv
  <2>5. pos'[a] = pos[a] + 1 /\ began'[a] = began[a] /\ due'[a] = now + b
    BY <1>6 DEF Moves
  <2> HIDE DEF b
  <2> QED BY <1>1, <1>2, <2>2, <2>3, <2>4, <2>5 DEF TimeInv
<1>7. CASE Ends(a)
  BY <1>7 DEF Ends, TimeInv, InFlight
<1> QED BY <1>3, <1>4, <1>5, <1>6, <1>7 DEF CallStep

\* The clock moves only when nothing is due.
LEMMA TickTime ==
  ASSUME TypeOK, Tick, NEW a \in Attempts, TimeInv(a)
  PROVE  TimeInv(a)'
<1>1. /\ now' = now + 1 /\ Kind(a)' = Kind(a) /\ pos'[a] = pos[a] /\ began'[a] = began[a]
      /\ due'[a] = due[a] /\ InFlight(a)' = InFlight(a)
  BY DEF Tick, attemptVars, Kind, InFlight
<1>2. InFlight(a) => ~(due[a] <= now)
  BY DEF Tick, Overdue
<1>3. now \in Nat /\ due[a] \in Nat
  BY DEF TypeOK
<1> QED BY <1>1, <1>2, <1>3 DEF TimeInv

\* Nothing is begun, moved on or left pending on a run that is over.
LEMMA RunStep ==
  ASSUME TypeOK, Next, RunInv
  PROVE  RunInv'
<1>1. CASE Tick
  BY <1>1, BudgetAssumption DEF Tick, attemptVars, RunInv, InFlight, TypeOK
<1>2. CASE RunAbort
  <2>1. \A a \in Attempts : ~InFlight(a)'
    <3> DEFINE cut == [a \in CutByRun |-> Aborted(Phase(a), AbortSource(runAborted'))]
    <3>1. Settle(cut) /\ pos' = pos
      BY <1>2 DEF RunAbort, Settle
    <3>2. \A a \in CutByRun : result'[a] # Pending
      BY <3>1, OutcomesSettle DEF Settle, CutByRun
    <3>3. \A a \in Attempts \ CutByRun : result'[a] = result[a]
      BY <3>1 DEF Settle
    <3> QED BY <3>1, <3>2, <3>3 DEF CutByRun, InFlight
  <2> QED BY <1>2, <2>1 DEF RunAbort, RunInv
<1>3. ASSUME UNCHANGED <<runAborted, now>>
      PROVE  RunInv'
  <2>1. ASSUME NEW a \in Attempts, runAborted, ~InFlight(a) PROVE ~InFlight(a)'
    <3>1. CallStep(a)
      BY StepShape
    <3> QED BY <2>1, <3>1, OutcomesSettle
            DEF CallStep, Same, Begins, BeginsLate, Moves, Ends, InFlight
  <2> QED BY <1>3, <2>1 DEF RunInv
<1>4. ASSUME NEW a \in Attempts, Serve(a) \/ Expire(a) \/ Late(a)
      PROVE  UNCHANGED <<runAborted, now>>
  BY <1>4 DEF Serve, Expire, Late
<1> QED BY <1>1, <1>2, <1>3, <1>4 DEF Next

Timing == RunInv /\ \A a \in Attempts : TimeInv(a)

\* A pending call is within the budgets of its phases and a run that is over
\* has none: the invariant the theorems on time rest on.
THEOREM TimingHolds == Spec => []Timing
<1>1. Init => Timing
  BY DEF Init, Timing, RunInv, TimeInv, InFlight
<1>2. TypeOK /\ TypeOK' /\ Timing /\ [Next]_vars => Timing'
  <2> SUFFICES ASSUME TypeOK, TypeOK', Timing, [Next]_vars PROVE Timing'
    OBVIOUS
  <2>1. CASE UNCHANGED vars
    BY <2>1 DEF Timing, RunInv, TimeInv, InFlight, Kind, vars, attemptVars
  <2>2. CASE Next
    <3>1. RunInv'
      BY <2>2, RunStep DEF Timing
    <3>2. ASSUME NEW a \in Attempts PROVE TimeInv(a)'
      <4>1. CASE Tick
        BY <4>1, TickTime DEF Timing
      <4>2. CASE ~Tick
        <5>1. now' = now
          BY <2>2, <4>2 DEF Next, RunAbort, Serve, Expire, Late
        <5> QED BY <2>2, <5>1, StepShape, TimeStep DEF Timing
      <4> QED BY <4>1, <4>2
    <3> QED BY <3>1, <3>2 DEF Timing
  <2> QED BY <2>1, <2>2
<1> QED BY <1>1, <1>2, TypeCorrect, PTL DEF Spec

\* A call never outlives the sum of its phase budgets (the phaseSignal of every
\* seam: one fresh timer per phase, none for the call).
THEOREM WithinBudgetHolds == Spec => []WithinBudget
<1>1. TypeOK /\ Timing => WithinBudget
  <2> SUFFICES ASSUME TypeOK, Timing, NEW a \in Attempts, InFlight(a)
               PROVE  now - began[a] <= Allowance[Kind(a)]
    BY DEF WithinBudget
  <2>1. Kind(a) \in Kinds
    BY RequestTypes
  <2>2. Len(Phases(Kind(a))) \in 1..4
    BY <2>1, PhaseShape DEF Shape
  <2>3. pos[a] \in 1..4 /\ pos[a] <= Len(Phases(Kind(a)))
    BY DEF TypeOK, InFlight
  <2>4. pos[a] \in 1..Len(Phases(Kind(a)))
    BY <2>2, <2>3
  <2>5. now <= due[a] /\ due[a] <= began[a] + Spent(Kind(a), pos[a])
    BY DEF Timing, TimeInv
  <2>6. now \in Nat /\ due[a] \in Nat /\ began[a] \in Nat
    BY DEF TypeOK
  <2> QED BY <2>1, <2>4, <2>5, <2>6, SpentWithinAllowance
<1> QED BY <1>1, TypeCorrect, TimingHolds, PTL

\* Once the run signal has fired no call of any seam is pending or holds a
\* socket, those that are made later included.
THEOREM DeadlineHeldHolds == Spec => []DeadlineHeld
<1>1. TypeOK /\ Timing /\ Transport => DeadlineHeld
  <2> SUFFICES ASSUME TypeOK, Timing, Transport, runAborted, NEW a \in Attempts
               PROVE  ~InFlight(a) /\ sock[a] # "open"
    BY DEF DeadlineHeld
  <2>1. ~InFlight(a)
    BY DEF Timing, RunInv
  <2>2. Settled(a) \/ pos[a] <= 1
    <3>1. pos[a] \in 0..4
      BY DEF TypeOK
    <3>2. Settled(a) \/ ~(pos[a] > 0)
      BY <2>1 DEF InFlight, Settled
    <3> QED BY <3>1, <3>2
  <2> QED BY <2>1, <2>2 DEF Transport, TransportInv
<1> QED BY <1>1, TypeCorrect, TimingHolds, TransportHolds, PTL

-----------------------------------------------------------------------------
(***************************************************************************)
(* The reported cause.                                                     *)
(***************************************************************************)
\* What CauseIsTruthful asks of one call.
CauseStep(a) == LET r == result'[a] IN
  result[a] = Pending /\ r # Pending =>
    CASE r.abortedBy = "run-signal"    -> runAborted' /\ Deadline <= now
      [] r.abortedBy = "phase-timeout" -> ~runAborted' /\ pos[a] > 0 /\ due[a] = now
      [] OTHER                         -> pos'[a] > 0 => ~runAborted'

LEMMA Causes ==
  /\ Ok.abortedBy = "none" /\ Denied.abortedBy = "none"
  /\ \A p, c : Failed(p, c).abortedBy = "none"
  /\ \A p, by : Aborted(p, by).abortedBy = by
BY DEF Ok, Denied, Failed, Aborted, Outcome

LEMMA CauseOfStep ==
  ASSUME TypeOK, Timing, Next
  PROVE  \A a \in Attempts : CauseStep(a)
<1> USE OutcomesSettle, Causes
<1>0. \A b \in Attempts : Same(b) => CauseStep(b)
  BY DEF Same, CauseStep
<1>1. CASE Tick
  BY <1>1 DEF Tick, attemptVars, CauseStep
<1>2. CASE RunAbort
  <2> DEFINE cut == [a \in CutByRun |-> Aborted(Phase(a), AbortSource(runAborted'))]
  <2>1. Settle(cut) /\ DOMAIN cut = CutByRun /\ runAborted' /\ Deadline <= now
    BY <1>2 DEF RunAbort
  <2>2. \A a \in CutByRun : cut[a].abortedBy = "run-signal"
    BY <2>1 DEF AbortSource
  <2> HIDE DEF cut
  <2>3. \A a \in Attempts : result'[a] = IF a \in CutByRun THEN cut[a] ELSE result[a]
    BY <2>1 DEF Settle
  <2> QED BY <2>1, <2>2, <2>3 DEF CauseStep
<1>3. ASSUME NEW a \in Attempts, Serve(a)
      PROVE  \A b \in Attempts : CauseStep(b)
  <2>1. runAborted' = runAborted
    BY <1>3 DEF Serve
  <2>2. CASE Deny(a)
    <3>1. ~Settled(a) /\ Return(a, Denied) /\ pos[a] = 0
      BY <2>2 DEF Deny, Waiting
    <3>2. Ends(a) /\ result'[a] = Denied /\ \A b \in Attempts \ {a} : Same(b)
      BY <3>1, ReturnShape
    <3> QED BY <1>0, <3>1, <3>2 DEF Ends, CauseStep
  <2>3. CASE RejectUrl(a)
    <3>1. ~Settled(a) /\ Return(a, Failed("dns", "errno")) /\ pos[a] = 0
      BY <2>3 DEF RejectUrl, Waiting
    <3>2. /\ Ends(a) /\ result'[a] = Failed("dns", "errno")
          /\ \A b \in Attempts \ {a} : Same(b)
      BY <3>1, ReturnShape
    <3> QED BY <1>0, <3>1, <3>2 DEF Ends, CauseStep
  <2>4. CASE Start(a)
    BY <2>4 DEF Start, CauseStep
  <2>5. CASE StartLate(a)
    BY <2>1, <2>5 DEF StartLate, CauseStep, Timing, RunInv, TypeOK
  <2>6. CASE Complete(a)
    <3>1. ~Settled(a) /\ Return(a, Ok) /\ ~runAborted
      BY <2>6 DEF Complete, InFlight, Settled, Timing, RunInv
    <3>2. Ends(a) /\ result'[a] = Ok /\ \A b \in Attempts \ {a} : Same(b)
      BY <3>1, ReturnShape
    <3> QED BY <1>0, <2>1, <3>1, <3>2 DEF CauseStep
  <2>7. CASE Advance(a)
    BY <2>7 DEF Advance, CauseStep
  <2>8. CASE Fail(a)
    <3>1. ~Settled(a) /\ Return(a, Failed(Phase(a), "errno")) /\ ~runAborted
      BY <2>8 DEF Fail, InFlight, Settled, Timing, RunInv
    <3>2. /\ Ends(a) /\ result'[a] = Failed(Phase(a), "errno")
          /\ \A b \in Attempts \ {a} : Same(b)
      BY <3>1, ReturnShape
    <3> QED BY <1>0, <2>1, <3>1, <3>2 DEF CauseStep
  <2>9. CASE Decline(a)
    <3>1. PICK p, c : Return(a, Failed(p, c))
      BY <2>9 DEF Decline
    <3>2. ~Settled(a) /\ ~runAborted
      BY <2>9 DEF Decline, InFlight, Settled, Timing, RunInv
    <3>3. /\ Ends(a) /\ result'[a] = Failed(p, c)
          /\ \A b \in Attempts \ {a} : Same(b)
      BY <3>1, <3>2, ReturnShape
    <3> QED BY <1>0, <2>1, <3>2, <3>3 DEF CauseStep
  <2> QED BY <1>3, <2>2, <2>3, <2>4, <2>5, <2>6, <2>7, <2>8, <2>9 DEF Serve
<1>4. ASSUME NEW a \in Attempts, Expire(a)
      PROVE  \A b \in Attempts : CauseStep(b)
  <2>1. /\ InFlight(a) /\ due[a] <= now /\ runAborted' = runAborted
        /\ Return(a, Aborted(Phase(a), AbortSource(runAborted)))
    BY <1>4 DEF Expire, PhaseTimeout
  <2>2. ~runAborted /\ now <= due[a] /\ pos[a] > 0 /\ ~Settled(a)
    BY <2>1 DEF Timing, RunInv, TimeInv, InFlight, Settled
  <2>3. now \in Nat /\ due[a] \in Nat
    BY DEF TypeOK
  <2>4. due[a] = now
    BY <2>1, <2>2, <2>3
  <2>5. Return(a, Aborted(Phase(a), "phase-timeout"))
    BY <2>1, <2>2 DEF AbortSource
  <2>6. /\ result'[a] = Aborted(Phase(a), "phase-timeout")
        /\ \A b \in Attempts \ {a} : Same(b)
    BY <2>2, <2>5, ReturnShape
  <2> QED BY <1>0, <2>1, <2>2, <2>4, <2>6 DEF CauseStep
<1>5. ASSUME NEW a \in Attempts, Late(a)
      PROVE  \A b \in Attempts : CauseStep(b)
  BY <1>5 DEF Late, CauseStep
<1> QED BY <1>1, <1>2, <1>3, <1>4, <1>5 DEF Next

\* A call reports the cause that came first (abortSource in every seam): the
\* run's end, its own phase timer at the tick it was due, or the network's word
\* while the run was still on.
THEOREM CauseIsTruthfulHolds == Spec => CauseIsTruthful
<1>1. TypeOK /\ Timing /\ [Next]_vars => [\A a \in Attempts : CauseStep(a)]_vars
  BY CauseOfStep
<1>2. Spec => [][\A a \in Attempts : CauseStep(a)]_vars
  BY <1>1, TypeCorrect, TimingHolds, PTL DEF Spec
<1> QED BY <1>2 DEF CauseIsTruthful, CauseStep

-----------------------------------------------------------------------------
(***************************************************************************)
(* The network policy.                                                     *)
(***************************************************************************)
\* Whoever is past its first statement dials an endpoint the guard allows, or
\* is a bare lookup of a host the guard knows; and the guard knows nothing but
\* the profile and what was admitted.
PolicyInv ==
  /\ allowed \subseteq Profile \cup Admitted
  /\ \A a \in Attempts : pos[a] > 0 =>
       \/ Dial(a) \in allowed
       \/ Kind(a) = "resolve" /\ IsHostAllowed(Dial(a).host)

\* A call that was not refused dials what is, or has just been, allowed.
LEMMA NotRefused ==
  ASSUME TypeOK, NEW a \in Attempts, ~Refused(a), Admission(a)
  PROVE  /\ allowed \subseteq allowed'
         /\ allowed' \subseteq allowed \cup (IF Admits(Kind(a)) THEN {Dial(a)} ELSE {})
         /\ \/ Dial(a) \in allowed'
            \/ Kind(a) = "resolve" /\ \E e \in allowed : e.host = Dial(a).host
<1>1. req[a] \in Requests /\ Kind(a) \in Kinds
  BY RequestTypes DEF TypeOK
<1>2. allowed' = allowed \cup (IF Admits(Kind(a)) THEN {Dial(a)} ELSE {})
  BY DEF Admission, Permit
<1>3. CASE Admits(Kind(a))
  BY <1>2, <1>3
<1>4. CASE ~Admits(Kind(a))
  <2>1. Kind(a) \notin {"proxyConnect", "captureProxy"} /\ Dial(a) = req[a].target
    BY <1>1, <1>4, RequestAssumption DEF Admits, Kind, Dial
  <2>2. CASE Kind(a) = "resolve"
    BY <1>2, <2>1, <2>2 DEF Refused, IsHostAllowed
  <2>3. CASE Kind(a) # "resolve"
    <3>1. Asserts(Kind(a))
      BY <1>1, <1>4, <2>3 DEF Admits, Asserts, Kinds
    <3> QED BY <1>2, <2>1, <3>1 DEF Refused, IsAllowed
  <2> QED BY <1>2, <1>4, <2>2, <2>3
<1> QED BY <1>3, <1>4

LEMMA PolicyStep ==
  ASSUME TypeOK, Next, PolicyInv
  PROVE  PolicyInv'
<1>1. req' = req /\ \A b \in Attempts : Kind(b)' = Kind(b) /\ Dial(b)' = Dial(b)
  BY StepShape DEF Kind, Dial
<1>2. ASSUME NEW b \in Attempts, pos[b] > 0 PROVE pos'[b] > 0
  <2>1. CallStep(b) /\ pos[b] \in 0..4
    BY StepShape DEF TypeOK
  <2>2. pos'[b] = pos[b] \/ pos'[b] = 1 \/ pos'[b] = pos[b] + 1
    BY <2>1 DEF CallStep, Same, Begins, BeginsLate, Moves, Ends
  <2> QED BY <1>2, <2>1, <2>2
<1>3. Admitted \subseteq Admitted'
  BY <1>1, <1>2 DEF Admitted
<1>4. ASSUME UNCHANGED allowed, \A b \in Attempts : pos'[b] > 0 => pos[b] > 0
      PROVE  PolicyInv'
  BY <1>1, <1>3, <1>4 DEF PolicyInv, IsHostAllowed
<1>5. ASSUME NEW a \in Attempts, Waiting(a), ~Refused(a), Admission(a), pos'[a] = 1,
             \A b \in Attempts \ {a} : pos'[b] = pos[b]
      PROVE  PolicyInv'
  <2>1. Admits(Kind(a)) => Dial(a) \in Admitted'
    BY <1>1, <1>5 DEF Admitted
  <2>2. allowed' \subseteq Profile \cup Admitted'
    BY <1>3, <1>5, <2>1, NotRefused DEF PolicyInv
  <2>3. allowed \subseteq allowed'
    BY <1>5, NotRefused
  <2>4. ASSUME NEW b \in Attempts, pos'[b] > 0
        PROVE  Dial(b) \in allowed' \/ (Kind(b) = "resolve" /\ \E e \in allowed' : e.host = Dial(b).host)
    <3>1. CASE b = a
      BY <1>5, <2>3, <3>1, NotRefused
    <3>2. CASE b # a
      BY <1>5, <2>3, <2>4, <3>2 DEF PolicyInv, IsHostAllowed
    <3> QED BY <3>1, <3>2
  <2> QED BY <1>1, <2>2, <2>4 DEF PolicyInv, IsHostAllowed
<1>6. CASE Tick \/ RunAbort
  BY <1>4, <1>6 DEF Tick, RunAbort, Settle, attemptVars
<1>7. ASSUME NEW a \in Attempts, Serve(a) PROVE PolicyInv'
  <2>1. CASE Start(a)
    BY <1>5, <2>1 DEF Start, ArmPhase, TypeOK
  <2>2. CASE StartLate(a)
    BY <1>5, <2>2 DEF StartLate, TypeOK
  <2>3. CASE Advance(a)
    BY <1>4, <2>3 DEF Advance, ArmPhase, InFlight, TypeOK
  <2>4. CASE Deny(a) \/ RejectUrl(a) \/ Complete(a) \/ Fail(a) \/ Decline(a)
    BY <1>4, <2>4 DEF Deny, RejectUrl, Complete, Fail, Decline, Return, Settle
  <2> QED BY <1>7, <2>1, <2>2, <2>3, <2>4 DEF Serve
<1>8. ASSUME NEW a \in Attempts, Expire(a) \/ Late(a) PROVE PolicyInv'
  BY <1>4, <1>8 DEF Expire, PhaseTimeout, Return, Settle, Late
<1> QED BY <1>6, <1>7, <1>8 DEF Next

\* A call that begins is none of those the guard refuses.
LEMMA BegunIsPermitted ==
  ASSUME TypeOK, PolicyInv, NEW a \in Attempts, Start(a) \/ StartLate(a)
  PROVE  /\ Asserts(Kind(a)) => req[a].target \in Profile \cup Admitted
         /\ Admits(Kind(a)) \/ \E e \in Profile \cup Admitted : e.host = Dial(a).host
<1>1. ~Refused(a) BY DEF Start, StartLate
<1>2. allowed \subseteq Profile \cup Admitted BY DEF PolicyInv
<1>3. Asserts(Kind(a)) => req[a].target \in Profile \cup Admitted
  BY <1>1, <1>2 DEF Refused, IsAllowed
<1>4. ASSUME ~Admits(Kind(a)) PROVE \E e \in Profile \cup Admitted : e.host = Dial(a).host
  <2>1. req[a] \in Requests /\ Kind(a) \in Kinds BY RequestTypes DEF TypeOK
  <2>2. Dial(a) = req[a].target
    BY <1>4, <2>1, RequestAssumption DEF Admits, Kind, Dial
  <2>3. CASE Kind(a) = "resolve" BY <1>1, <1>2, <2>2, <2>3 DEF Refused, IsHostAllowed
  <2>4. CASE Kind(a) # "resolve"
    <3>1. Asserts(Kind(a)) BY <1>4, <2>1, <2>4 DEF Admits, Asserts, Kinds
    <3> QED BY <1>3, <2>2, <3>1
  <2> QED BY <2>3, <2>4
<1> QED BY <1>3, <1>4

\* A socket is only opened by a call that has been let through and is more than
\* a lookup.
LEMMA OpenedIsPermitted ==
  ASSUME TypeOK, PolicyInv, NEW a \in Attempts, Advance(a)
  PROVE  Dial(a) \in Profile \cup Admitted
<1>1. pos[a] \in 0..4 /\ pos[a] > 0 /\ pos[a] < Len(Phases(Kind(a)))
  BY DEF Advance, InFlight, TypeOK
<1>2. Kind(a) # "resolve"
  <2> DEFINE n == Len(Phases(Kind(a)))
  <2>1. Kind(a) = "resolve" => n = 1 BY PhaseTable
  <2>2. pos[a] \in 0..4 /\ pos[a] > 0 /\ pos[a] < n BY <1>1
  <2> HIDE DEF n
  <2>3. n = 1 => FALSE BY <2>2
  <2> QED BY <2>1, <2>3
<1> QED BY <1>1, <1>2 DEF PolicyInv

\* NetworkGuard's promise: no name is looked up and no socket opened but for
\* what the profile names, what a call made before admitted, or the proxy or PAC
\* server that the call itself is given (guard.ts, assertAllowed, assertHostAllowed
\* and permit, the first statements of every seam).
THEOREM OnlyPermittedContactsHolds == Spec => OnlyPermittedContacts
<1>1. Init => PolicyInv
  BY DEF Init, PolicyInv
<1>2. TypeOK /\ PolicyInv /\ [Next]_vars => PolicyInv'
  <2> SUFFICES ASSUME TypeOK, PolicyInv, [Next]_vars PROVE PolicyInv'
    OBVIOUS
  <2>1. CASE UNCHANGED vars
    BY <2>1 DEF PolicyInv, Admitted, IsHostAllowed, Kind, Dial, vars, attemptVars
  <2>2. CASE Next
    BY <2>2, PolicyStep
  <2> QED BY <2>1, <2>2
<1> DEFINE Permitted(a) ==
  /\ pos[a] = 0 /\ pos'[a] > 0 =>
       /\ Asserts(Kind(a)) => req[a].target \in Profile \cup Admitted
       /\ Admits(Kind(a)) \/ \E e \in Profile \cup Admitted : e.host = Dial(a).host
  /\ sock[a] # "open" /\ sock'[a] = "open" => Dial(a) \in Profile \cup Admitted
<1>3. TypeOK /\ PolicyInv /\ [Next]_vars => [\A a \in Attempts : Permitted(a)]_vars
  <2> SUFFICES ASSUME TypeOK, PolicyInv, Next, NEW a \in Attempts PROVE Permitted(a)
    OBVIOUS
  <2>1. ASSUME ~(pos[a] = 0 /\ pos'[a] > 0), ~(sock[a] # "open" /\ sock'[a] = "open")
        PROVE Permitted(a)
    BY <2>1
  <2>2. ASSUME NEW b \in Attempts, Start(b) \/ StartLate(b) PROVE Permitted(a)
    <3>1. sock' = sock /\ (a # b => pos'[a] = pos[a])
      BY <2>2 DEF Start, StartLate, ArmPhase, TypeOK
    <3>2. CASE a = b BY <2>2, <3>1, <3>2, BegunIsPermitted
    <3>3. CASE a # b BY <2>1, <3>1, <3>3
    <3> QED BY <3>2, <3>3
  <2>3. ASSUME NEW b \in Attempts, Advance(b) PROVE Permitted(a)
    <3>1. pos[b] > 0 /\ (a # b => pos'[a] = pos[a] /\ sock'[a] = sock[a])
      BY <2>3 DEF Advance, ArmPhase, InFlight, TypeOK
    <3>2. CASE a = b BY <2>3, <3>1, <3>2, OpenedIsPermitted
    <3>3. CASE a # b BY <2>1, <3>1, <3>3
    <3> QED BY <3>2, <3>3
  <2>4. CASE Tick BY <2>1, <2>4 DEF Tick, attemptVars
  <2>5. CASE RunAbort
    <3>1. pos' = pos BY <2>5 DEF RunAbort, Settle
    <3>2. sock'[a] = "open" => sock[a] = "open"
      BY <2>5 DEF RunAbort, Settle, SocketAfter, Destroyed
    <3> QED BY <2>1, <3>1, <3>2
  <2>6. ASSUME NEW b \in Attempts, Serve(b) PROVE Permitted(a)
    <3>1. CASE Start(b) \/ StartLate(b) BY <2>2, <3>1
    <3>2. CASE Advance(b) BY <2>3, <3>2
    <3>3. CASE Deny(b) \/ RejectUrl(b) \/ Complete(b) \/ Fail(b) \/ Decline(b)
      <4>1. pos' = pos
        BY <3>3 DEF Deny, RejectUrl, Complete, Fail, Decline, Return, Settle
      <4>2. sock'[a] = "open" => sock[a] = "open"
        BY <3>3 DEF Deny, RejectUrl, Complete, Fail, Decline, Return, Settle, SocketAfter, Destroyed
      <4> QED BY <2>1, <4>1, <4>2
    <3> QED BY <2>6, <3>1, <3>2, <3>3 DEF Serve
  <2>7. ASSUME NEW b \in Attempts, Expire(b) \/ Late(b) PROVE Permitted(a)
    <3>1. pos' = pos BY <2>7 DEF Expire, PhaseTimeout, Return, Settle, Late
    <3>2. sock'[a] = "open" => sock[a] = "open"
      BY <2>7 DEF Expire, PhaseTimeout, Return, Settle, Late, SocketAfter, Destroyed
    <3> QED BY <2>1, <3>1, <3>2
  <2> QED BY <2>4, <2>5, <2>6, <2>7 DEF Next
<1>4. Spec => [][\A a \in Attempts : Permitted(a)]_vars
  BY <1>1, <1>2, <1>3, TypeCorrect, PTL DEF Spec
<1> QED BY <1>4 DEF OnlyPermittedContacts

-----------------------------------------------------------------------------
(***************************************************************************)
(* The seams implement the contract their callers rely on.                 *)
(***************************************************************************)
LEMMA Standings ==
  /\ \A p : Standing(p, Pending) = IF p = 0 THEN "idle" ELSE "pending"
  /\ \A p : Standing(p, Ok) = "answered" /\ Standing(p, Denied) = "denied"
  /\ \A p, q, c : Standing(p, Failed(q, c)) = "refused"
  /\ \A p, q : Standing(p, Aborted(q, "phase-timeout")) = "timedOut"
  /\ \A p, q : Standing(p, Aborted(q, "run-signal")) = "cut"
BY DEF Standing, Pending, Ok, Denied, Failed, Aborted, Outcome

Calls == [a \in Attempts |-> Standing(pos[a], result[a])]

\* A step that changes one call changes one entry of the contract's table.
LEMMA OneCall ==
  ASSUME NEW a \in Attempts, \A b \in Attempts \ {a} : Same(b)
  PROVE  Calls' = [Calls EXCEPT ![a] = Standing(pos'[a], result'[a])]
BY DEF Calls, Same

LEMMA ContractStep ==
  ASSUME TypeOK, Timing, Next
  PROVE  [Contract!Next]_(Contract!vars)
<1> USE OutcomesSettle, Standings
<1>0. \A a \in Attempts : Calls[a] = Standing(pos[a], result[a])
  BY DEF Calls
<1>1. ASSUME Calls' = Calls, runAborted' = runAborted
      PROVE  [Contract!Next]_(Contract!vars)
  BY <1>1 DEF Calls, Contract!vars
<1>2. ASSUME NEW a \in Attempts, NEW s, runAborted' = runAborted,
             Calls' = [Calls EXCEPT ![a] = s],
             \/ Calls[a] = "idle" /\ s = (IF runAborted THEN "cut" ELSE "pending")
             \/ Calls[a] = "idle" /\ s \in {"refused", "denied"}
             \/ Calls[a] = "pending" /\ s \in {"answered", "refused"}
             \/ Calls[a] = "pending" /\ s = "timedOut" /\ ~runAborted
      PROVE  [Contract!Next]_(Contract!vars)
  <2>1. CASE Calls[a] = "idle" /\ s = (IF runAborted THEN "cut" ELSE "pending")
    <3>1. {a} \in SUBSET {b \in Attempts : Calls[b] = "idle"}
      BY <2>1
    <3>2. Calls' = [b \in Attempts |-> IF b \notin {a} THEN Calls[b]
                                      ELSE IF runAborted THEN "cut" ELSE "pending"]
      BY <1>2, <2>1 DEF Calls
    <3> QED BY <1>2, <3>1, <3>2 DEF Calls, Contract!Next, Contract!Begin
  <2> QED
    BY <1>2, <2>1 DEF Calls, Contract!Next, Contract!Reject, Contract!Hear, Contract!TimeOut
<1>3. CASE Tick
  BY <1>1, <1>3 DEF Tick, attemptVars, Calls
<1>4. CASE RunAbort
  <2> DEFINE cut == [a \in CutByRun |-> Aborted(Phase(a), AbortSource(runAborted'))]
  <2>1. Settle(cut) /\ DOMAIN cut = CutByRun /\ runAborted' = TRUE /\ ~runAborted /\ pos' = pos
    BY <1>4 DEF RunAbort, Settle
  <2>2. \A a \in CutByRun : cut[a] = Aborted(Phase(a), "run-signal")
    BY <2>1 DEF AbortSource
  <2> HIDE DEF cut
  <2>3. \A a \in Attempts : result'[a] = IF a \in CutByRun THEN cut[a] ELSE result[a]
    BY <2>1 DEF Settle
  <2>4. \A a \in Attempts : Calls[a] = "pending" <=> a \in CutByRun
    <3> SUFFICES ASSUME NEW a \in Attempts
                 PROVE  Standing(pos[a], result[a]) = "pending" <=> a \in CutByRun
      BY <1>0
    <3>1. CASE result[a] = Pending
      <4>1. pos[a] \in 0..4
        BY DEF TypeOK
      <4> QED BY <3>1, <4>1 DEF CutByRun, InFlight
    <3>2. CASE result[a] # Pending
      BY <3>2 DEF CutByRun, InFlight, Standing
    <3> QED BY <3>1, <3>2
  <2>5. Calls' = [a \in Attempts |-> IF Calls[a] = "pending" THEN "cut" ELSE Calls[a]]
    BY <1>0, <2>1, <2>2, <2>3, <2>4 DEF Calls
  <2> QED BY <2>1, <2>5 DEF Contract!Next, Contract!Cancel, Calls
<1>5. ASSUME NEW a \in Attempts, Serve(a)
      PROVE  [Contract!Next]_(Contract!vars)
  <2>1. runAborted' = runAborted
    BY <1>5 DEF Serve
  <2>2. InFlight(a) => Calls[a] = "pending" /\ ~Settled(a) /\ ~runAborted
    BY <1>0 DEF InFlight, Settled, Timing, RunInv, TypeOK
  <2>3. Waiting(a) => Calls[a] = "idle" /\ ~Settled(a)
    BY <1>0 DEF Waiting, Settled
  <2>4. CASE Deny(a)
    <3>1. Waiting(a) /\ Return(a, Denied)
      BY <2>4 DEF Deny
    <3>2. result'[a] = Denied /\ \A b \in Attempts \ {a} : Same(b)
      BY <2>3, <3>1, ReturnShape
    <3>3. Calls' = [Calls EXCEPT ![a] = "denied"]
      BY <3>2, OneCall
    <3> QED BY <1>2, <2>1, <2>3, <3>1, <3>3
  <2>5. CASE RejectUrl(a)
    <3>1. Waiting(a) /\ Return(a, Failed("dns", "errno"))
      BY <2>5 DEF RejectUrl
    <3>2. result'[a] = Failed("dns", "errno") /\ \A b \in Attempts \ {a} : Same(b)
      BY <2>3, <3>1, ReturnShape
    <3>3. Calls' = [Calls EXCEPT ![a] = "refused"]
      BY <3>2, OneCall
    <3> QED BY <1>2, <2>1, <2>3, <3>1, <3>3
  <2>6. CASE Start(a)
    <3>1. Waiting(a) /\ ~runAborted /\ result'[a] = Pending /\ pos'[a] = 1
      BY <2>6 DEF Start, ArmPhase, Waiting, Settled, TypeOK
    <3>2. \A b \in Attempts \ {a} : Same(b)
      BY <2>6 DEF Start, ArmPhase, Same, TypeOK
    <3>3. Calls' = [Calls EXCEPT ![a] = "pending"]
      BY <3>1, <3>2, OneCall
    <3> QED BY <1>2, <2>1, <2>3, <3>1, <3>3
  <2>7. CASE StartLate(a)
    <3>1. Waiting(a) /\ runAborted /\ result'[a] = Aborted("dns", "run-signal")
      BY <2>7 DEF StartLate, TypeOK
    <3>2. \A b \in Attempts \ {a} : Same(b)
      BY <2>7 DEF StartLate, Same, TypeOK
    <3>3. Calls' = [Calls EXCEPT ![a] = "cut"]
      BY <3>1, <3>2, OneCall
    <3> QED BY <1>2, <2>1, <2>3, <3>1, <3>3
  <2>8. CASE Complete(a)
    <3>1. InFlight(a) /\ Return(a, Ok)
      BY <2>8 DEF Complete
    <3>2. result'[a] = Ok /\ \A b \in Attempts \ {a} : Same(b)
      BY <2>2, <3>1, ReturnShape
    <3>3. Calls' = [Calls EXCEPT ![a] = "answered"]
      BY <3>2, OneCall
    <3> QED BY <1>2, <2>1, <2>2, <3>1, <3>3
  <2>9. CASE Advance(a)
    <3>1. InFlight(a) /\ result'[a] = Pending /\ pos'[a] = pos[a] + 1 /\ pos[a] \in 0..4
      BY <2>9 DEF Advance, ArmPhase, InFlight, TypeOK
    <3>2. \A b \in Attempts \ {a} : Same(b)
      BY <2>9 DEF Advance, ArmPhase, Same, TypeOK
    <3>3. Calls' = [Calls EXCEPT ![a] = "pending"]
      BY <3>1, <3>2, OneCall
    <3>4. Calls' = Calls
      BY <2>2, <3>1, <3>3 DEF Calls
    <3> QED BY <1>1, <2>1, <3>4
  <2>10. CASE Fail(a)
    <3>1. InFlight(a) /\ Return(a, Failed(Phase(a), "errno"))
      BY <2>10 DEF Fail
    <3>2. result'[a] = Failed(Phase(a), "errno") /\ \A b \in Attempts \ {a} : Same(b)
      BY <2>2, <3>1, ReturnShape
    <3>3. Calls' = [Calls EXCEPT ![a] = "refused"]
      BY <3>2, OneCall
    <3> QED BY <1>2, <2>1, <2>2, <3>1, <3>3
  <2>11. CASE Decline(a)
    <3>1. InFlight(a) /\ \E p, c : Return(a, Failed(p, c))
      BY <2>11 DEF Decline
    <3>2. PICK p, c : Return(a, Failed(p, c))
      BY <3>1
    <3>3. result'[a] = Failed(p, c) /\ \A b \in Attempts \ {a} : Same(b)
      BY <2>2, <3>1, <3>2, ReturnShape
    <3>4. Calls' = [Calls EXCEPT ![a] = "refused"]
      BY <3>3, OneCall
    <3> QED BY <1>2, <2>1, <2>2, <3>1, <3>4
  <2> QED BY <1>5, <2>4, <2>5, <2>6, <2>7, <2>8, <2>9, <2>10, <2>11 DEF Serve
<1>6. ASSUME NEW a \in Attempts, Expire(a)
      PROVE  [Contract!Next]_(Contract!vars)
  <2>1. InFlight(a) /\ Return(a, Aborted(Phase(a), AbortSource(runAborted))) /\ runAborted' = runAborted
    BY <1>6 DEF Expire, PhaseTimeout
  <2>2. ~runAborted /\ ~Settled(a) /\ Calls[a] = "pending"
    BY <1>0, <2>1 DEF Timing, RunInv, InFlight, Settled, TypeOK
  <2>3. result'[a] = Aborted(Phase(a), "phase-timeout") /\ \A b \in Attempts \ {a} : Same(b)
    BY <2>1, <2>2, ReturnShape DEF AbortSource
  <2>4. Calls' = [Calls EXCEPT ![a] = "timedOut"]
    BY <2>3, OneCall
  <2> QED BY <1>2, <2>1, <2>2, <2>4
<1>7. ASSUME NEW a \in Attempts, Late(a)
      PROVE  [Contract!Next]_(Contract!vars)
  BY <1>1, <1>7 DEF Late, Calls
<1> QED BY <1>3, <1>4, <1>5, <1>6, <1>7 DEF Next

\* Every behaviour of the seams is one of the contract: one outcome per call,
\* decided once, by the network only while the run is on, and an abort that
\* leaves no call pending.
THEOREM KeepsContractHolds == Spec => KeepsContract
<1>1. Init => Contract!Init
  BY Standings DEF Init, Contract!Init
<1>2. TypeOK /\ Timing /\ [Next]_vars => [Contract!Next]_(Contract!vars)
  <2>1. CASE UNCHANGED vars
    BY <2>1 DEF vars, attemptVars, Contract!vars
  <2> QED BY <2>1, ContractStep
<1> QED BY <1>1, <1>2, TypeCorrect, TimingHolds, PTL DEF Spec, KeepsContract, Contract!Spec

=============================================================================
