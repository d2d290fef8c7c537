------------------------------ MODULE NetSeam ------------------------------
(***************************************************************************)
(* The network seams of src/net: dns.ts, endpoint.ts, proxy-connect.ts,    *)
(* tls-capture.ts and pac-fetch.ts.  Every seam is a straight line of      *)
(* phases.  Each phase races the network against a timer of its own and    *)
(* against the signal of the whole run; whichever comes first settles the  *)
(* call, and a `finally` closes what the call opened.                      *)
(*                                                                         *)
(* A step is one macrotask of the event loop together with the microtasks  *)
(* it drains, so a socket event, the continuation it resumes and the start *)
(* of the next phase are one action, and an abort settles every pending    *)
(* call at once.  Time is in ticks and a timer that is due fires before    *)
(* the clock moves: the loop is taken to be prompt.                        *)
(***************************************************************************)
EXTENDS Naturals, Sequences

CONSTANTS
  Attempts,      \* calls of a seam, made by any probe at any time
  Endpoints,     \* [host, port] records that a call may be aimed at
  Profile,       \* the endpoints and DoH resolvers the profile names
  Requests,      \* what a call may ask for: a seam, a target, and what it dials
  ConnectBudget, \* connectTimeoutMs, which the dns phase borrows
  TlsBudget,     \* tlsTimeoutMs
  HttpBudget,    \* httpTimeoutMs
  Deadline,      \* when the run's own timer aborts the run signal
  MaxTime        \* bound on the clock, for model checking

VARIABLES
  req,        \* the request of each attempt
  now,        \* the clock
  runAborted, \* controller.signal.aborted
  allowed,    \* NetworkGuard's map, as a set of endpoints
  pos,        \* 0 before the call, else the index of the phase it is in or ended in
  began,      \* when the call was made
  due,        \* when the timer of the current phase fires
  sock, secure, \* the TCP socket and the TLS socket over it
  handedOver, \* openTunnel gave its socket to the capture
  lookup,     \* what became of the getaddrinfo call
  result,
  crashed     \* an unhandled rejection took the process down

attemptVars == <<pos, began, due, sock, secure, handedOver, lookup, result>>
vars == <<req, now, runAborted, allowed, attemptVars, crashed>>
-----------------------------------------------------------------------------
\* The phases of each seam, in order.
ResolvePhases == <<"dns">>
EndpointPhases == [endpointTls  |-> <<"dns", "connect", "tls", "http">>,
                   endpointHttp |-> <<"dns", "connect", "http">>,
                   endpointBare |-> <<"dns", "connect">>]
ProxyConnectPhases == <<"dns", "connect", "tunnel">>
\* The first three phases of a capture through a proxy are openTunnel's.
CapturePhases == [captureDirect |-> <<"dns", "connect", "tls">>,
                  captureProxy  |-> <<"dns", "connect", "tunnel", "tls">>]
PacPhases == [pacHttp  |-> <<"dns", "connect", "http">>,
              pacHttps |-> <<"dns", "connect", "tls", "http">>]

EndpointKinds == {"endpointTls", "endpointHttp", "endpointBare"}
CaptureKinds == {"captureDirect", "captureProxy"}
PacKinds == {"pacHttp", "pacHttps"}
Kinds == {"resolve", "proxyConnect"} \cup EndpointKinds \cup CaptureKinds \cup PacKinds

Phases(k) == CASE k = "resolve"        -> ResolvePhases
               [] k = "proxyConnect"   -> ProxyConnectPhases
               [] k \in EndpointKinds  -> EndpointPhases[k]
               [] k \in CaptureKinds   -> CapturePhases[k]
               [] k \in PacKinds       -> PacPhases[k]

PhaseNames == {"dns", "connect", "tls", "http", "tunnel"}

\* A CONNECT borrows the http budget in the proxy probe and the connect
\* budget in openTunnel.
BudgetOf(k, p) == CASE p = "tls"  -> TlsBudget
                    [] p = "http" -> HttpBudget
                    [] p = "tunnel" /\ k = "proxyConnect" -> HttpBudget
                    [] OTHER      -> ConnectBudget

ASSUME BudgetAssumption ==
  /\ ConnectBudget \in Nat \ {0} /\ TlsBudget \in Nat \ {0} /\ HttpBudget \in Nat \ {0}
  /\ Deadline \in Nat /\ MaxTime \in Nat
\* Only a CONNECT dials something other than its target.
ASSUME RequestAssumption ==
  /\ Profile \subseteq Endpoints
  /\ Requests \subseteq [kind : Kinds, target : Endpoints, dial : Endpoints]
  /\ \A r \in Requests : r.kind \notin {"proxyConnect", "captureProxy"} => r.dial = r.target

\* Results.  `code` is "errno" for a machine code the system reported or the
\* seam made up (ENODATA, INVALID_PAC_URL), "status" for HTTP_n.
Outcome(o, p, c, by) == [outcome |-> o, phase |-> p, code |-> c, abortedBy |-> by]
Pending == Outcome("pending", "none", "none", "none")
Ok      == Outcome("ok", "none", "none", "none")
Denied  == Outcome("denied", "none", "none", "none")
Failed(p, c)   == Outcome("failed", p, c, "none")
Aborted(p, by) == Outcome("failed", p, "none", by)
Results == [outcome : {"pending", "ok", "denied", "failed"}, phase : PhaseNames \cup {"none"},
            code : {"none", "errno", "status"}, abortedBy : {"none", "phase-timeout", "run-signal"}]

Kind(a)     == req[a].kind
Dial(a)     == req[a].dial
InFlight(a) == pos[a] > 0 /\ result[a] = Pending
Settled(a)  == result[a] # Pending
Phase(a)    == Phases(Kind(a))[pos[a]]
-----------------------------------------------------------------------------
\* Slip: a connection checked by host alone.
IsAllowedByHost(e) == \E f \in allowed : f.host = e.host

\* NetworkGuard: a lookup is checked by host alone, a connection by host and port.
IsAllowed(e)  == e \in allowed
IsHostAllowed(h) == \E e \in allowed : e.host = h
Permit(e)     == allowed' = allowed \cup {e}

\* The proxy of a CONNECT and the server of a PAC file are discovered at run
\* time and admitted.  What a seam is asked about is in the profile or refused.
Admits(k)  == k \in {"proxyConnect", "captureProxy"} \cup PacKinds
Asserts(k) == k \in EndpointKinds \cup CaptureKinds
Refused(a) == \/ Kind(a) = "resolve" /\ ~IsHostAllowed(req[a].target.host)
              \/ Asserts(Kind(a)) /\ ~IsAllowed(req[a].target)
-----------------------------------------------------------------------------
Init ==
  /\ req \in [Attempts -> Requests]
  /\ now = 0 /\ runAborted = FALSE /\ crashed = FALSE
  /\ allowed = Profile
  /\ pos = [a \in Attempts |-> 0]
  /\ began = [a \in Attempts |-> 0] /\ due = [a \in Attempts |-> 0]
  /\ sock = [a \in Attempts |-> "none"] /\ secure = [a \in Attempts |-> "none"]
  /\ handedOver = [a \in Attempts |-> FALSE]
  /\ lookup = [a \in Attempts |-> "none"]
  /\ result = [a \in Attempts |-> Pending]

Destroyed(s) == IF s = "open" THEN "closed" ELSE s

\* openTunnel's own finally runs for a capture that dies before the tunnel is
\* up, and leaves alone a socket it has given away.
TunnelCloses(a) == Kind(a) = "captureProxy" /\ ~handedOver[a]
\* Slip: the capture leaves a tunnelled socket to openTunnel.
SeamForgetsTunnel(a) == Kind(a) # "captureProxy"
\* The finally of the seam itself.  Until the tunnel is up a capture through a
\* proxy holds no socket of its own.
SeamCloses(a) == Kind(a) # "captureProxy" \/ handedOver[a]
SocketAfter(a) == IF TunnelCloses(a) \/ SeamCloses(a) THEN Destroyed(sock[a]) ELSE sock[a]
SecureAfter(a) == Destroyed(secure[a])

\* Some calls return, each with its outcome, through their finally blocks.
\* The times of a call that is over are of no further use.
Settle(outcome) ==
  LET ends(a) == a \in DOMAIN outcome IN
  /\ result' = [a \in Attempts |-> IF ends(a) THEN outcome[a] ELSE result[a]]
  /\ sock' = [a \in Attempts |-> IF ends(a) THEN SocketAfter(a) ELSE sock[a]]
  /\ secure' = [a \in Attempts |-> IF ends(a) THEN SecureAfter(a) ELSE secure[a]]
  /\ began' = [a \in Attempts |-> IF ends(a) THEN 0 ELSE began[a]]
  /\ due' = [a \in Attempts |-> IF ends(a) THEN 0 ELSE due[a]]
  /\ UNCHANGED <<pos, handedOver>>
Return(a, r) == Settle([b \in {a} |-> r])

\* AbortSignal.any([run signal, AbortSignal.timeout(budget)]) for phase i.
ArmPhase(a, i) ==
  /\ pos' = [pos EXCEPT ![a] = i]
  /\ due' = [due EXCEPT ![a] = now + BudgetOf(Kind(a), Phases(Kind(a))[i])]

Waiting(a) == pos[a] = 0 /\ ~Settled(a)

Deny(a) ==
  /\ Waiting(a)
  /\ Refused(a)
  /\ Return(a, Denied)
  /\ UNCHANGED <<lookup, allowed>>

\* A PAC URL that does not parse names no host to admit.
RejectUrl(a) ==
  /\ Waiting(a)
  /\ Kind(a) \in PacKinds
  /\ Return(a, Failed("dns", "errno"))
  /\ UNCHANGED <<lookup, allowed>>

Admission(a) == IF Admits(Kind(a)) THEN Permit(Dial(a)) ELSE UNCHANGED allowed

\* The call enters its dns phase on a live run signal: a lookup goes to the
\* threadpool and Promise.race keeps a handler on it.
Start(a) ==
  /\ Waiting(a)
  /\ ~Refused(a)
  /\ ~runAborted
  /\ Admission(a)
  /\ ArmPhase(a, 1)
  /\ began' = [began EXCEPT ![a] = now]
  /\ lookup' = [lookup EXCEPT ![a] = "raced"]
  /\ UNCHANGED <<sock, secure, handedOver, result>>

\* Slip: raceAbort without its first line.  A signal that has fired fires no
\* event, so neither the run nor a phase timer ends the wait.
StartLateWaits(a) ==
  /\ Waiting(a) /\ ~Refused(a) /\ runAborted
  /\ Admission(a)
  /\ pos' = [pos EXCEPT ![a] = 1]
  /\ due' = [due EXCEPT ![a] = MaxTime + 1]
  /\ lookup' = [lookup EXCEPT ![a] = "raced"]
  /\ UNCHANGED <<began, sock, secure, handedOver, result>>

\* On a run signal that has fired raceAbort throws at once, but its argument,
\* the lookup, has been evaluated: it is under way and nothing listens to it.
StartLate(a) ==
  /\ Waiting(a)
  /\ ~Refused(a)
  /\ runAborted
  /\ Admission(a)
  /\ pos' = [pos EXCEPT ![a] = 1]
  /\ lookup' = [lookup EXCEPT ![a] = "orphaned"]
  /\ result' = [result EXCEPT ![a] = Aborted("dns", "run-signal")]
  /\ UNCHANGED <<began, due, sock, secure, handedOver>>

\* The lookup has answered when the dns phase is over by anything but an abort.
LookupAnswered(a) == lookup' = [lookup EXCEPT ![a] = "done"]

\* Slip: an answer that comes after the abort is taken all the same.
CompleteAfterAll(a) ==
  /\ pos[a] = Len(Phases(Kind(a))) /\ result[a] # Ok
  /\ Return(a, Ok)
  /\ LookupAnswered(a)
  /\ UNCHANGED allowed

\* The last phase succeeds.
Complete(a) ==
  /\ InFlight(a) /\ pos[a] = Len(Phases(Kind(a)))
  /\ Return(a, Ok)
  /\ LookupAnswered(a)
  /\ UNCHANGED allowed

\* A phase succeeds and the next one begins.
Advance(a) ==
  LET next == Phases(Kind(a))[pos[a] + 1]
      tunnelled == Kind(a) = "captureProxy" /\ Phase(a) = "tunnel" IN
  /\ InFlight(a) /\ pos[a] < Len(Phases(Kind(a)))
  /\ ArmPhase(a, pos[a] + 1)
  /\ handedOver' = [handedOver EXCEPT ![a] = tunnelled]
  /\ sock' = [sock EXCEPT ![a] =
       IF next = "connect" THEN "open"
       ELSE IF tunnelled /\ ~handedOver'[a] THEN Destroyed(@) ELSE @]
  /\ secure' = [secure EXCEPT ![a] = IF next = "tls" THEN "open" ELSE @]
  /\ LookupAnswered(a)
  /\ UNCHANGED <<began, result, allowed>>

\* The network says no: an errno, or for a lookup no address at all.
Fail(a) ==
  /\ InFlight(a)
  /\ Return(a, Failed(Phase(a), "errno"))
  /\ LookupAnswered(a)
  /\ UNCHANGED allowed

\* The peer answers with a status the seam takes for a failure: a CONNECT that
\* is not a 200, or a PAC server that is not.  A CONNECT reply whose status is
\* not a number has no code at all.
Decline(a) ==
  /\ InFlight(a)
  /\ \/ /\ Phase(a) = "tunnel"
        /\ \E c \in {"status", "none"} : Return(a, Failed("tunnel", c))
     \/ /\ Phase(a) = "http" /\ Kind(a) \in PacKinds
        /\ Return(a, Failed("http", "status"))
  /\ UNCHANGED <<lookup, allowed>>

\* An abort abandons a lookup that is still out; Promise.race still listens.
LookupAbandoned(S) ==
  lookup' = [a \in Attempts |-> IF a \in S /\ lookup[a] = "raced" THEN "abandoned" ELSE lookup[a]]

\* Slip: the cause read off the error, which is a timeout's either way.
AbortSourceByError(aborted) == "phase-timeout"
\* abortSource: the run signal is asked first.
AbortSource(aborted) == IF aborted THEN "run-signal" ELSE "phase-timeout"

PhaseTimeout(a) ==
  /\ InFlight(a) /\ due[a] <= now
  /\ Return(a, Aborted(Phase(a), AbortSource(runAborted)))
  /\ LookupAbandoned({a})
  /\ UNCHANGED allowed

\* The calls whose composed signal follows the run signal: all of them.
CutByRun == {a \in Attempts : InFlight(a)}

RunAbort ==
  /\ Deadline <= now /\ ~runAborted
  /\ runAborted' = TRUE
  /\ Settle([a \in CutByRun |-> Aborted(Phase(a), AbortSource(runAborted'))])
  /\ LookupAbandoned(CutByRun)
  /\ UNCHANGED <<req, now, allowed, crashed>>

\* The threadpool answers a lookup nobody waits for any more.
LateAnswer(a) ==
  /\ lookup[a] \in {"abandoned", "orphaned"}
  /\ lookup' = [lookup EXCEPT ![a] = "done"]
  /\ UNCHANGED crashed

LateRejection(a) ==
  /\ lookup[a] \in {"abandoned", "orphaned"}
  /\ lookup' = [lookup EXCEPT ![a] = "done"]
  /\ crashed' = (lookup[a] = "orphaned")

Overdue == (Deadline <= now /\ ~runAborted) \/ \E a \in Attempts : InFlight(a) /\ due[a] <= now

Tick == /\ now < MaxTime /\ ~Overdue
        /\ now' = now + 1
        /\ UNCHANGED <<req, runAborted, allowed, attemptVars, crashed>>

\* What a caller, the network or the phase timer does to one attempt.
Serve(a) ==
  /\ \/ Deny(a) \/ RejectUrl(a) \/ Start(a) \/ StartLate(a)
     \/ Complete(a) \/ Advance(a) \/ Fail(a) \/ Decline(a)
  /\ UNCHANGED <<req, now, runAborted, crashed>>

Expire(a) == PhaseTimeout(a) /\ UNCHANGED <<req, now, runAborted, crashed>>

Late(a) == /\ LateAnswer(a) \/ LateRejection(a)
           /\ UNCHANGED <<req, now, runAborted, allowed, pos, began, due, sock, secure,
                          handedOver, result>>

Next == /\ ~crashed
        /\ \/ Tick \/ RunAbort
           \/ \E a \in Attempts : Serve(a) \/ Expire(a) \/ Late(a)

Spec == Init /\ [][Next]_vars

\* Timers fire and the clock moves; nothing is asked of the network.
LiveSpec == /\ Spec
            /\ WF_vars(~crashed /\ Tick) /\ WF_vars(~crashed /\ RunAbort)
            /\ \A a \in Attempts : WF_vars(~crashed /\ Expire(a))
-----------------------------------------------------------------------------
\* The type of every variable, and that a call is never past its last phase.
TypeOK ==
  /\ req \in [Attempts -> Requests]
  /\ now \in Nat /\ runAborted \in BOOLEAN /\ crashed \in BOOLEAN
  /\ allowed \subseteq Endpoints
  /\ began \in [Attempts -> Nat] /\ due \in [Attempts -> Nat]
  /\ pos \in [Attempts -> 0..4] /\ \A a \in Attempts : pos[a] <= Len(Phases(Kind(a)))
  /\ sock \in [Attempts -> {"none", "open", "closed"}]
  /\ secure \in [Attempts -> {"none", "open", "closed"}]
  /\ handedOver \in [Attempts -> BOOLEAN]
  /\ lookup \in [Attempts -> {"none", "raced", "abandoned", "orphaned", "done"}]
  /\ result \in [Attempts -> Results]

-----------------------------------------------------------------------------
(***************************************************************************)
(* Properties.                                                             *)
(***************************************************************************)

InTls(a) == \E i \in 1..pos[a] : Phases(Kind(a))[i] = "tls"

\* A socket is open exactly while its call needs it: every phase after the
\* lookup runs over a live socket, including the handshake over a socket that
\* openTunnel handed to the capture, and a settled call leaves none open.
TransportOwned == \A a \in Attempts :
  /\ Settled(a) => sock[a] # "open" /\ secure[a] # "open"
  /\ InFlight(a) => /\ sock[a] = "open" <=> pos[a] > 1
                    /\ secure[a] = "open" <=> InTls(a)

\* The reported cause is the one that came first.  "run-signal" is said only
\* once the run is over, "phase-timeout" only at the tick the phase's own timer
\* is due and while the run is not over, and what the network says after the
\* run is over is never reported as the outcome of a call.
CauseIsTruthful == [][\A a \in Attempts : LET r == result'[a] IN
  result[a] = Pending /\ r # Pending =>
    CASE r.abortedBy = "run-signal"    -> runAborted' /\ Deadline <= now
      [] r.abortedBy = "phase-timeout" -> ~runAborted' /\ pos[a] > 0 /\ due[a] = now
      [] OTHER                         -> pos'[a] > 0 => ~runAborted']_vars

\* Once the run signal has fired nothing is pending, whatever phase it was in,
\* and nothing holds a socket.
DeadlineHeld == runAborted => \A a \in Attempts : ~InFlight(a) /\ sock[a] # "open"

\* What the budgets of the phases of a seam add up to.
Allowance ==
  LET C == ConnectBudget  T == TlsBudget  H == HttpBudget IN
  [resolve |-> C, proxyConnect |-> 2 * C + H,
   endpointTls |-> 2 * C + T + H, endpointHttp |-> 2 * C + H, endpointBare |-> 2 * C,
   captureDirect |-> 2 * C + T, captureProxy |-> 3 * C + T,
   pacHttp |-> 2 * C + H, pacHttps |-> 2 * C + T + H]
\* What the budgets of its phases add up to bounds a call, network or no network.
WithinBudget == \A a \in Attempts :
  InFlight(a) => now - began[a] <= Allowance[Kind(a)]

Admitted == {Dial(a) : a \in {b \in Attempts : Admits(Kind(b)) /\ pos[b] > 0}}

\* A call begins on what the profile names or a call made before it admitted: its
\* own admission opens the proxy or the PAC server it is given, and not the target
\* it asks for.  No name is looked up but of such a host and no socket opened but to
\* such a port: a host declared on one port is not thereby open on another.
OnlyPermittedContacts == [][\A a \in Attempts :
  /\ pos[a] = 0 /\ pos'[a] > 0 =>
       /\ Asserts(Kind(a)) => req[a].target \in Profile \cup Admitted
       /\ Admits(Kind(a)) \/ \E e \in Profile \cup Admitted : e.host = Dial(a).host
  /\ sock[a] # "open" /\ sock'[a] = "open" => Dial(a) \in Profile \cup Admitted]_vars

\* dns.ts:89-92, "a late rejection is still handled and never surfaces as an
\* unhandled rejection".
NoUnhandledRejection == ~crashed

\* Every call settles though the network never answers: the timers alone do it.
EveryCallSettles == \A a \in Attempts : InFlight(a) ~> (Settled(a) \/ crashed)

\* What a caller makes of a call.
Standing(p, r) ==
  CASE r = Pending             -> IF p = 0 THEN "idle" ELSE "pending"
    [] r.outcome = "ok"      -> "answered"
    [] r.outcome = "denied"  -> "denied"
    [] r.abortedBy = "phase-timeout" -> "timedOut"
    [] r.abortedBy = "run-signal"    -> "cut"
    [] OTHER                 -> "refused"
Contract == INSTANCE SeamContract WITH
  Calls <- Attempts, call <- [a \in Attempts |-> Standing(pos[a], result[a])], cancelled <- runAborted

\* The seams keep the contract their callers rely on.  Each file under
\* src/net that can wait is one implementation of it.
KeepsContract == Contract!Spec
=============================================================================
