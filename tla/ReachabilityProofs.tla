------------------------- MODULE ReachabilityProofs -------------------------
(***************************************************************************)
(* Theorems about Reachability, for every profile, every network, every    *)
(* size of the thread pool and every budget.                               *)
(***************************************************************************)
EXTENDS Reachability, SequenceTheorems, FiniteSetTheorems, TLAPS

\* What a world says of the name of a call, without the state.
NameOf(w, c) == w.name[c.host]
Served(w, c) == NameOf(w, c).code = "ok" /\ NameOf(w, c).addresses # {}

\* A call that has come to phase p has an answer behind it, and the phases that
\* end it ahead of it.
Passing(w, c, p) == p \in {"connect", "tls", "http"} =>
  /\ c \in Attempts /\ Served(w, c)
  /\ p = "tls" => UsesTls(c) /\ w.path[c].phase # "connect"
  /\ p = "http" => w.path[c].phase \in {"http", "ok"}

\* A result comes from a timer, from the run's signal or from the network.
Earned(w, c, r) ==
  /\ r.phase \in InFlight \cup {"ok"} /\ Passing(w, c, r.phase)
  /\ r.by # "none" => r.phase # "ok" /\ r.code = "null"
  /\ r.by = "none" /\ r.phase = "dns" =>
       \/ NameOf(w, c).code # "ok" /\ r.code = NameOf(w, c).code
       \/ NameOf(w, c).code = "ok" /\ NameOf(w, c).addresses = {} /\ c \in Attempts /\ r.code = "noRecord"
  /\ r.by = "none" /\ r.phase \in {"connect", "tls", "http"} =>
       w.path[c].phase = r.phase /\ r.code = w.path[c].sign
  /\ r.by = "none" /\ r.phase = "ok" =>
       /\ NameOf(w, c).code = "ok"
       /\ c \in Attempts => Served(w, c) /\ w.path[c].phase = "ok" /\ r.code = w.path[c].sign

Course == \A c \in Call :
  /\ phase[c] \in InFlight => Passing(world, c, phase[c])
  /\ Over(c) => Earned(world, c, result[c])

\* The probes take turns, and what was cut stays cut.
Order ==
  /\ stage = "start" => \A c \in Call : phase[c] = "none"
  /\ stage = "dns" => \A c \in Call : phase[c] = "none" <=> ProbeOf(c) = "egress"
  /\ stage \in {"egress", "done"} => \A c \in Call : phase[c] # "none" /\ (ProbeOf(c) = "dns" => Over(c))
  /\ \A c \in Call : Over(c) /\ result[c].by = "run-signal" => aborted
  /\ \A c, d \in Call :
       ProbeOf(c) = "dns" /\ Over(c) /\ result[c].by = "run-signal" /\ ProbeOf(d) = "egress" /\ phase[d] # "none"
         => Over(d) /\ result[d].by = "run-signal"

\* A lookup that waits is in the pool, and one that is answered at once does not
\* keep its thread.
Pool == \A c \in Call :
  /\ phase[c] = "dns" => lookup[c] \in {"queued", "asked"}
  /\ lookup[c] = "asked" /\ Name(c).takes = 0 => until[c] <= now

Starved == Cardinality(Slow) >= Workers
KeptWaiting(c, r) ==
  \/ r.phase = "dns" /\ r.by = "phase-timeout"
  \/ c.kind = "resolve" /\ r.phase = "ok" /\ r.waited >= SlowAfter
\* Waiting for an answer that takes no time is waiting for a thread.
Waits == \A c \in Call : Name(c).takes = 0 =>
  /\ phase[c] = "dns" /\ since[c] < now => Starved
  /\ Over(c) /\ KeptWaiting(c, result[c]) => Starved

Earlier(p) == IF p = "connect" THEN ConnectBudget ELSE IF p = "tls" THEN 2 * ConnectBudget
              ELSE IF p = "http" THEN 2 * ConnectBudget + TlsBudget ELSE 0
\* Each phase is within its budget, and was begun within those before it.
Timing == \A c \in Call : phase[c] \in InFlight =>
  /\ now <= since[c] + Budget(phase[c])
  /\ since[c] <= started[ProbeOf(c)] + Earlier(phase[c])
-----------------------------------------------------------------------------
LEMMA Constants == /\ {Workers, ConnectBudget, TlsBudget, HttpBudget, SlowAfter} \subseteq Nat \ {0}
                   /\ Worlds \subseteq World
                   /\ \A w \in Worlds, c \in Attempts : CanReach(c, w.path[c].phase)
  BY ReachabilityAssumption

LEMMA FiniteDomains == IsFiniteSet(DOMAIN Declared) /\ IsFiniteSet(DOMAIN Resolvers)
  <1>1. DOMAIN Declared = 1..Len(Declared) /\ Len(Declared) \in Nat
    BY ReachabilityAssumption, LenProperties
  <1>2. DOMAIN Resolvers = 1..Len(Resolvers) /\ Len(Resolvers) \in Nat
    BY ReachabilityAssumption, LenProperties
  <1> QED BY <1>1, <1>2, FS_Interval

LEMMA FiniteCalls == IsFiniteSet(Call)
  <1>1. IsFiniteSet(Lookups)
    <2> DEFINE f == [i \in DOMAIN Declared |-> [kind |-> "resolve", host |-> Declared[i].host, at |-> 0]]
    <2>1. f \in Surjection(DOMAIN Declared, Lookups)
      BY DEF Surjection, Lookups
    <2> HIDE DEF f
    <2> QED BY <2>1, FiniteDomains, FS_Surjection
  <1>2. IsFiniteSet(DohChecks)
    <2> DEFINE f == [i \in DOMAIN Resolvers |-> [kind |-> "doh", host |-> Resolvers[i], at |-> i]]
    <2>1. f \in Surjection(DOMAIN Resolvers, DohChecks)
      BY DEF Surjection, DohChecks
    <2> HIDE DEF f
    <2> QED BY <2>1, FiniteDomains, FS_Surjection
  <1>3. IsFiniteSet(Reaches)
    <2> DEFINE f == [i \in DOMAIN Declared |-> [kind |-> "egress", host |-> Declared[i].host, at |-> i]]
    <2>1. f \in Surjection(DOMAIN Declared, Reaches)
      BY DEF Surjection, Reaches
    <2> HIDE DEF f
    <2> QED BY <2>1, FiniteDomains, FS_Surjection
  <1> QED BY <1>1, <1>2, <1>3, FS_Union DEF Call, Attempts

\* The kinds of calls.
LEMMA Kinds == \A c \in Call :
  /\ c.kind \in {"resolve", "doh", "egress"}
  /\ c \in Lookups <=> c.kind = "resolve"
  /\ c \in Attempts <=> c.kind # "resolve"
  /\ c \in Reaches <=> c.kind = "egress"
  BY DEF Call, Attempts, Lookups, DohChecks, Reaches

LEMMA WorldType == ASSUME NEW w \in Worlds, NEW c \in Call
                   PROVE  /\ NameOf(w, c) \in Answer
                          /\ c \in Attempts => w.path[c] \in Way /\ CanReach(c, w.path[c].phase)
  <1>1. w.name \in [{d.host : d \in Call} -> Answer] /\ w.path \in [Attempts -> Way]
    BY Constants DEF World
  <1>2. c.host \in {d.host : d \in Call}
    OBVIOUS
  <1> QED BY <1>1, <1>2, Constants DEF NameOf
-----------------------------------------------------------------------------
\* What the resolver answers is a true result, or the way on.
LEMMA ResolvedTruly ==
  ASSUME NEW w \in Worlds, NEW c \in Call, NEW n
  PROVE  /\ NameOf(w, c).code # "ok" => Earned(w, c, Result("dns", NameOf(w, c).code, "none", n))
         /\ NameOf(w, c).code = "ok" /\ c.kind = "resolve" => Earned(w, c, Result("ok", "null", "none", n))
         /\ NameOf(w, c).code = "ok" /\ c.kind # "resolve" /\ NameOf(w, c).addresses = {}
              => Earned(w, c, Result("dns", "noRecord", "none", n))
         /\ NameOf(w, c).code = "ok" /\ c.kind # "resolve" /\ NameOf(w, c).addresses # {}
              => Passing(w, c, "connect")
  BY Kinds DEF Earned, Passing, Served, Result, InFlight

\* So is what the network answers.
LEMMA TravelsTruly ==
  ASSUME NEW w \in Worlds, NEW c \in Attempts, NEW p \in {"connect", "tls", "http"}, Passing(w, c, p), NEW n
  PROVE  /\ w.path[c].phase = p => Earned(w, c, Result(p, w.path[c].sign, "none", n))
         /\ w.path[c].phase # p /\ After(c, p) # "ok" => After(c, p) \in {"tls", "http"} /\ Passing(w, c, After(c, p))
         /\ w.path[c].phase # p /\ After(c, p) = "ok" =>
              Earned(w, c, Result("ok", IF w.path[c].sign = "intermediary" THEN "intermediary" ELSE "null", "none", n))
  <1>0. c \in Call /\ c.kind # "resolve"
    BY DEF Call, Attempts, DohChecks, Reaches
  <1>1. w.path[c] \in Way /\ CanReach(c, w.path[c].phase)
    BY <1>0, WorldType
  <1>2. CASE p = "connect"
    BY <1>0, <1>1, <1>2 DEF Earned, Passing, Served, Result, InFlight, After, UsesHttp, CanReach, Way
  <1>3. CASE p = "tls"
    BY <1>0, <1>1, <1>3 DEF Earned, Passing, Served, Result, InFlight, After, UsesHttp, CanReach, Way
  <1>4. CASE p = "http"
    BY <1>0, <1>1, <1>4 DEF Earned, Passing, Served, Result, InFlight, After, UsesHttp, CanReach, Way
  <1> QED BY <1>2, <1>3, <1>4

LEMMA CutTruly ==
  ASSUME NEW w, NEW c, NEW p \in InFlight, Passing(w, c, p), NEW by \in {"phase-timeout", "run-signal"}, NEW n
  PROVE  Earned(w, c, Result(p, "null", by, n))
  BY DEF Earned, Result, InFlight
-----------------------------------------------------------------------------
\* The state keeps its type.
LEMMA InitType == Init => TypeOK
  <1> SUFFICES ASSUME Init PROVE TypeOK
    OBVIOUS
  <1>1. Unasked \in Results
    BY DEF Unasked, Result, Results, NameCodes
  <1> QED BY <1>1 DEF Init, TypeOK, Probes, InFlight

LEMMA TypeKept == TypeOK /\ [Next]_vars => TypeOK'
<1> SUFFICES ASSUME TypeOK, [Next]_vars PROVE TypeOK'
  OBVIOUS
<1>0. \A p, code, by, n : p \in InFlight \cup {"ok"} /\ code \in NameCodes \cup PathCodes \cup {"intermediary"}
        /\ by \in {"none", "phase-timeout", "run-signal"} /\ n \in Int => Result(p, code, by, n) \in Results
  BY DEF Result, Results
<1>1. \A c \in Call : now - since[c] \in Int
  BY DEF TypeOK
<1>2. ASSUME NEW p \in Probes, Begin(p) PROVE TypeOK'
  <2>1. result' \in [Call -> Results]
    <3>1. Result("dns", "null", "run-signal", 0) \in Results
      BY <1>0 DEF InFlight, NameCodes
    <3> DEFINE g(c) == IF ProbeOf(c) = p /\ aborted
                       THEN Result("dns", "null", "run-signal", 0) ELSE result[c]
    <3>2. result' = [c \in Call |-> g(c)]
      BY <1>2 DEF Begin
    <3>3. \A c \in Call : g(c) \in Results
      BY <3>1 DEF TypeOK
    <3> HIDE DEF g
    <3> QED BY <3>2, <3>3
  <2>0. \A c \in Call : phase[c] \notin InFlight
    BY <1>2 DEF Begin, TypeOK, Turn, Idle, ProbeOf, Probes
  <2>2. ASSUME NEW c \in Call, phase'[c] \in InFlight
        PROVE  ProbeOf(c) = stage' /\ ~aborted' /\ phase'[c] = "dns"
    <3>1. phase'[c] = IF ProbeOf(c) # p THEN phase[c] ELSE IF aborted THEN "over" ELSE "dns"
      BY <1>2 DEF Begin
    <3>2. stage' = p /\ aborted' = aborted
      BY <1>2 DEF Begin
    <3> QED BY <2>0, <2>2, <3>1, <3>2 DEF InFlight
  <2>3. \A c \in Call : phase'[c] \in {"connect", "tls", "http"} => c \in Attempts /\ lookup'[c] = "answered"
    BY <2>2 DEF InFlight
  <2> QED BY <1>2, <2>1, <2>2, <2>3 DEF Begin, TypeOK, Probes, InFlight
<1>3. ASSUME NEW c \in Call, TakeUp(c) PROVE TypeOK'
  <2>1. now + Name(c).takes \in Nat
    <3>1. NameOf(world, c) \in Answer
      BY WorldType DEF TypeOK
    <3> QED BY <3>1 DEF TypeOK, Name, NameOf, Answer
  <2> QED BY <1>3, <2>1 DEF TakeUp, CanTake, TypeOK, callVars
<1>4. ASSUME NEW c \in Call, Answers(c) PROVE TypeOK'
  <2>1. Name(c) \in Answer
    BY WorldType DEF TypeOK, NameOf, Name
  <2>2. CASE phase[c] = "dns"
    <3>1. lookup[c] = "asked" /\ lookup' = [lookup EXCEPT ![c] = "answered"]
      BY <1>4 DEF Answers, Answerable
    <3>2. ProbeOf(c) = stage /\ ~aborted /\ stage' = stage /\ aborted' = aborted
      BY <1>4, <2>2 DEF TypeOK, Answers, InFlight
    <3>3. ASSUME NEW ph, NEW code \in NameCodes, Settle(c, ph, code, "none"), ph \in {"dns", "ok"} PROVE TypeOK'
      <4>1. result' \in [Call -> Results]
        BY <1>0, <1>1, <3>3 DEF Settle, TypeOK, InFlight
      <4> QED BY <1>4, <3>1, <3>3, <4>1 DEF Settle, Answers, TypeOK, InFlight
    <3>4. ASSUME GoOn(c, "connect"), c.kind # "resolve" PROVE TypeOK'
      BY <1>4, <3>1, <3>2, <3>4, Kinds DEF GoOn, Answers, TypeOK, InFlight
    <3>5. Name(c).code # "ok" => Name(c).code \in NameCodes
      BY <2>1 DEF Answer
    <3> QED BY <1>4, <2>2, <3>3, <3>4, <3>5 DEF Answers, Resolved, NameCodes
  <2>3. CASE phase[c] # "dns"
    BY <1>4, <2>3 DEF Answers, Answerable, TypeOK, callVars
  <2> QED BY <2>2, <2>3
<1>5. ASSUME NEW c \in Call, Travels(c) PROVE TypeOK'
  <2>1. world.path[c] \in Way
    BY <1>5, WorldType DEF TypeOK, Travels
  <2>2. ASSUME NEW ph \in InFlight \cup {"ok"}, NEW code \in PathCodes \cup {"intermediary"}, Settle(c, ph, code, "none")
        PROVE TypeOK'
    <3>1. result' \in [Call -> Results]
      BY <1>0, <1>1, <2>2 DEF Settle, TypeOK
    <3> QED BY <1>5, <2>2, <3>1 DEF Settle, Travels, TypeOK, InFlight, poolVars
  <2>3. ASSUME NEW ph \in {"tls", "http"}, GoOn(c, ph) PROVE TypeOK'
    BY <1>5, <2>3 DEF GoOn, Travels, TypeOK, InFlight, poolVars
  <2>4. After(c, phase[c]) \in {"tls", "http", "ok"}
    BY <1>5 DEF After, Travels
  <2>5. world.path[c].phase = phase[c] => world.path[c].sign \in PathCodes \cup {"silent"}
    BY <1>5, <2>1 DEF Way, Travels
  <2> QED BY <1>5, <2>2, <2>3, <2>4, <2>5 DEF Travels, InFlight, PathCodes
<1>6. ASSUME NEW c \in Call, PhaseTimeout(c) PROVE TypeOK'
  <2>1. result' \in [Call -> Results]
    BY <1>0, <1>1, <1>6 DEF PhaseTimeout, TimerDue, Settle, TypeOK, NameCodes
  <2> QED BY <1>6, <2>1 DEF PhaseTimeout, Settle, TypeOK, InFlight, poolVars
<1>7. CASE RunAbort
  <2>1. result' \in [Call -> Results]
    <3>1. \A c \in Call : phase[c] \in InFlight => Result(phase[c], "null", "run-signal", now - since[c]) \in Results
      BY <1>0, <1>1 DEF NameCodes
    <3> QED BY <1>7, <3>1 DEF RunAbort, TypeOK
  <2>2. \A c \in Call : phase'[c] \notin InFlight /\ (phase'[c] = "none" => phase[c] = "none")
    BY <1>7 DEF RunAbort, TypeOK, InFlight
  <2>3. phase' \in [Call -> {"none", "over"} \cup InFlight]
    BY <1>7 DEF RunAbort, TypeOK
  <2> QED BY <1>7, <2>1, <2>2, <2>3 DEF RunAbort, TypeOK, InFlight, poolVars
<1>8. CASE End
  BY <1>8 DEF End, TypeOK, Idle, InFlight, poolVars, callVars
<1>9. CASE Tick
  BY <1>9 DEF Tick, TypeOK, poolVars, callVars
<1>10. CASE UNCHANGED vars
  BY <1>10 DEF vars, poolVars, callVars, TypeOK
<1> QED BY <1>2, <1>3, <1>4, <1>5, <1>6, <1>7, <1>8, <1>9, <1>10 DEF Next

\* For any profile, network, pool and budgets, the state keeps its type.
THEOREM TypeCorrect == Spec => []TypeOK
<1> QED BY InitType, TypeKept, PTL DEF Spec
-----------------------------------------------------------------------------
\* What a step makes of a call: it stays as it is, goes on, or is over.
LEMMA CourseKept == TypeOK /\ Course /\ [Next]_vars => Course'
<1> SUFFICES ASSUME TypeOK, Course, [Next]_vars, NEW d \in Call
             PROVE  /\ phase'[d] \in InFlight => Passing(world', d, phase'[d])
                    /\ phase'[d] = "over" => Earned(world', d, result'[d])
  BY DEF Course, Over
<1>0. world' = world /\ world \in Worlds
  BY DEF Next, Begin, TakeUp, Answers, Travels, PhaseTimeout, RunAbort, End, Tick, vars, TypeOK
<1>1. ASSUME phase'[d] = phase[d], result'[d] = result[d]
      PROVE  /\ phase'[d] \in InFlight => Passing(world', d, phase'[d])
             /\ phase'[d] = "over" => Earned(world', d, result'[d])
  BY <1>0, <1>1 DEF Course, Over
<1>2. ASSUME NEW p \in Probes, Begin(p)
      PROVE  /\ phase'[d] \in InFlight => Passing(world', d, phase'[d])
             /\ phase'[d] = "over" => Earned(world', d, result'[d])
  <2>1. CASE ProbeOf(d) # p
    BY <1>1, <1>2, <2>1 DEF Begin, TypeOK
  <2>2. CASE ProbeOf(d) = p /\ aborted
    <3>1. phase'[d] = "over" /\ result'[d] = Result("dns", "null", "run-signal", 0)
      BY <1>2, <2>2 DEF Begin
    <3>2. Passing(world, d, "dns")
      BY DEF Passing
    <3> QED BY <1>0, <3>1, <3>2, CutTruly DEF InFlight
  <2>3. CASE ProbeOf(d) = p /\ ~aborted
    <3>1. phase'[d] = "dns"
      BY <1>2, <2>3 DEF Begin
    <3> QED BY <3>1 DEF Passing
  <2> QED BY <2>1, <2>2, <2>3
<1>3. ASSUME NEW c \in Call, Answers(c)
      PROVE  /\ phase'[d] \in InFlight => Passing(world', d, phase'[d])
             /\ phase'[d] = "over" => Earned(world', d, result'[d])
  <2>1. CASE c # d \/ phase[c] # "dns"
    BY <1>1, <1>3, <2>1 DEF Answers, Resolved, Settle, GoOn, callVars, TypeOK
  <2>2. CASE c = d /\ phase[c] = "dns"
    <3>1. ASSUME NEW ph, NEW code, Settle(c, ph, code, "none"), Earned(world, c, Result(ph, code, "none", now - since[c]))
          PROVE  phase'[d] = "over" /\ Earned(world', d, result'[d])
      BY <1>0, <2>2, <3>1 DEF Settle, TypeOK
    <3>2. ASSUME GoOn(c, "connect"), Passing(world, c, "connect")
          PROVE  phase'[d] = "connect" /\ Passing(world', d, phase'[d])
      BY <1>0, <2>2, <3>2 DEF GoOn, TypeOK
    <3>3. Resolved(c) /\ Name(c) = NameOf(world, c)
      BY <1>3, <2>2 DEF Answers, Name, NameOf
    <3> QED BY <1>0, <3>1, <3>2, <3>3, ResolvedTruly DEF Resolved, InFlight
  <2> QED BY <2>1, <2>2
<1>4. ASSUME NEW c \in Call, Travels(c)
      PROVE  /\ phase'[d] \in InFlight => Passing(world', d, phase'[d])
             /\ phase'[d] = "over" => Earned(world', d, result'[d])
  <2>1. CASE c # d
    BY <1>1, <1>4, <2>1 DEF Travels, Settle, GoOn, TypeOK
  <2>2. CASE c = d
    <3>1. ASSUME NEW ph, NEW code, Settle(c, ph, code, "none"), Earned(world, c, Result(ph, code, "none", now - since[c]))
          PROVE  phase'[d] = "over" /\ Earned(world', d, result'[d])
      BY <1>0, <2>2, <3>1 DEF Settle, TypeOK
    <3>2. ASSUME NEW ph \in InFlight, GoOn(c, ph), Passing(world, c, ph)
          PROVE  phase'[d] = ph /\ Passing(world', d, phase'[d])
      BY <1>0, <2>2, <3>2 DEF GoOn, TypeOK
    <3>3. c \in Attempts /\ phase[c] \in {"connect", "tls", "http"} /\ Passing(world, c, phase[c])
      BY <1>4 DEF Travels, Course, InFlight
    <3>4. /\ world.path[c].phase = phase[c] => Earned(world, c, Result(phase[c], world.path[c].sign, "none", now - since[c]))
          /\ world.path[c].phase # phase[c] /\ After(c, phase[c]) # "ok" =>
               After(c, phase[c]) \in {"tls", "http"} /\ Passing(world, c, After(c, phase[c]))
          /\ world.path[c].phase # phase[c] /\ After(c, phase[c]) = "ok" =>
               Earned(world, c, Result("ok", IF world.path[c].sign = "intermediary" THEN "intermediary" ELSE "null",
                                       "none", now - since[c]))
      BY <1>0, <3>3, TravelsTruly
    <3>5. CASE world.path[c].phase = phase[c]
      BY <1>4, <3>1, <3>4, <3>5 DEF Travels, InFlight
    <3>6. CASE world.path[c].phase # phase[c] /\ After(c, phase[c]) # "ok"
      <4>1. GoOn(c, After(c, phase[c])) /\ After(c, phase[c]) \in InFlight
        BY <1>4, <3>4, <3>6 DEF Travels, InFlight
      <4> QED BY <3>2, <3>4, <3>6, <4>1 DEF InFlight
    <3>7. CASE world.path[c].phase # phase[c] /\ After(c, phase[c]) = "ok"
      <4>1. Settle(c, "ok", IF world.path[c].sign = "intermediary" THEN "intermediary" ELSE "null", "none")
        BY <1>4, <3>7 DEF Travels
      <4> QED BY <3>1, <3>4, <3>7, <4>1 DEF InFlight
    <3> QED BY <3>5, <3>6, <3>7
  <2> QED BY <2>1, <2>2
<1>5. ASSUME NEW c \in Call, PhaseTimeout(c)
      PROVE  /\ phase'[d] \in InFlight => Passing(world', d, phase'[d])
             /\ phase'[d] = "over" => Earned(world', d, result'[d])
  <2>1. CASE c # d
    BY <1>1, <1>5, <2>1 DEF PhaseTimeout, Settle, TypeOK
  <2>2. CASE c = d
    <3>1. phase'[d] = "over" /\ result'[d] = Result(phase[d], "null", "phase-timeout", now - since[d])
      BY <1>5, <2>2 DEF PhaseTimeout, Settle, TypeOK
    <3>2. phase[d] \in InFlight /\ Passing(world, d, phase[d])
      BY <1>5, <2>2 DEF PhaseTimeout, TimerDue, Course
    <3> QED BY <1>0, <3>1, <3>2, CutTruly DEF InFlight
  <2> QED BY <2>1, <2>2
<1>6. CASE RunAbort
  <2>1. CASE phase[d] \notin InFlight
    BY <1>1, <1>6, <2>1 DEF RunAbort
  <2>2. CASE phase[d] \in InFlight
    <3>1. phase'[d] = "over" /\ result'[d] = Result(phase[d], "null", "run-signal", now - since[d])
      BY <1>6, <2>2 DEF RunAbort
    <3> QED BY <1>0, <2>2, <3>1, CutTruly DEF InFlight, Course
  <2> QED BY <2>1, <2>2
<1>7. CASE (\E c \in Call : TakeUp(c)) \/ End \/ Tick \/ UNCHANGED vars
  BY <1>1, <1>7 DEF TakeUp, End, Tick, vars, callVars
<1> QED BY <1>2, <1>3, <1>4, <1>5, <1>6, <1>7 DEF Next

LEMMA CourseHolds == Spec => []Course
<1>1. Init => Course
  BY DEF Init, Course, Over, InFlight
<1> QED BY <1>1, CourseKept, TypeCorrect, PTL DEF Spec
-----------------------------------------------------------------------------
\* Only its own steps end a call, and a call that is over stays so.
LEMMA CallSteps ==
  ASSUME TypeOK, NEW c \in Call,
         (\E e \in Call : TakeUp(e) \/ Answers(e) \/ Travels(e) \/ PhaseTimeout(e)) \/ End \/ Tick \/ UNCHANGED vars
  PROVE  /\ phase[c] \notin InFlight => phase'[c] = phase[c] /\ result'[c] = result[c] /\ since'[c] = since[c]
         /\ phase[c] \in InFlight => phase'[c] \in InFlight \cup {"over"}
         /\ phase'[c] = "over" /\ phase[c] # "over" => result'[c].by # "run-signal"
         /\ aborted' = aborted /\ started' = started
  <1>1. ASSUME NEW e \in Call, Answers(e) PROVE
         /\ phase[c] \notin InFlight => phase'[c] = phase[c] /\ result'[c] = result[c] /\ since'[c] = since[c]
         /\ phase[c] \in InFlight => phase'[c] \in InFlight \cup {"over"}
         /\ phase'[c] = "over" /\ phase[c] # "over" => result'[c].by # "run-signal"
    BY <1>1 DEF Answers, Resolved, Settle, GoOn, Result, callVars, TypeOK, InFlight
  <1>2. ASSUME NEW e \in Call, Travels(e) PROVE
         /\ phase[c] \notin InFlight => phase'[c] = phase[c] /\ result'[c] = result[c] /\ since'[c] = since[c]
         /\ phase[c] \in InFlight => phase'[c] \in InFlight \cup {"over"}
         /\ phase'[c] = "over" /\ phase[c] # "over" => result'[c].by # "run-signal"
    BY <1>2 DEF Travels, After, Settle, GoOn, Result, TypeOK, InFlight
  <1>3. ASSUME NEW e \in Call, PhaseTimeout(e) PROVE
         /\ phase[c] \notin InFlight => phase'[c] = phase[c] /\ result'[c] = result[c] /\ since'[c] = since[c]
         /\ phase[c] \in InFlight => phase'[c] \in InFlight \cup {"over"}
         /\ phase'[c] = "over" /\ phase[c] # "over" => result'[c].by # "run-signal"
    BY <1>3 DEF PhaseTimeout, TimerDue, Settle, Result, TypeOK, InFlight
  <1> QED BY <1>1, <1>2, <1>3 DEF Answers, Travels, PhaseTimeout, TakeUp, End, Tick, vars, callVars

LEMMA OrderKept == TypeOK /\ Order /\ [Next]_vars => Order'
<1> SUFFICES ASSUME TypeOK, Order, [Next]_vars PROVE Order'
  OBVIOUS
<1>0. \A c \in Call : ProbeOf(c) \in Probes
  BY DEF ProbeOf, Probes
<1>1. ASSUME NEW p \in Probes, Begin(p) PROVE Order'
  <2>1. \A c \in Call : ProbeOf(c) = p => phase'[c] = IF aborted THEN "over" ELSE "dns"
    BY <1>1 DEF Begin
  <2>2. \A c \in Call : ProbeOf(c) # p => phase'[c] = phase[c] /\ result'[c] = result[c]
    BY <1>1 DEF Begin, TypeOK
  <2>3. \A c \in Call : ProbeOf(c) = p /\ aborted => result'[c].by = "run-signal"
    BY <1>1 DEF Begin, Result
  <2>4. stage' = p /\ aborted' = aborted
    BY <1>1 DEF Begin
  <2>5. CASE p = "dns"
    <3>1. \A c \in Call : phase[c] = "none"
      BY <1>1, <2>5 DEF Begin, Turn, Order
    <3> QED BY <1>0, <2>1, <2>2, <2>3, <2>4, <2>5, <3>1 DEF Order, Over, Probes
  <2>6. CASE p = "egress"
    <3>1. \A c \in Call : ProbeOf(c) = "dns" => phase[c] = "over"
      BY <1>1, <2>6 DEF Begin, Turn, Idle, Order, TypeOK
    <3> QED BY <1>0, <2>1, <2>2, <2>3, <2>4, <2>6, <3>1 DEF Order, Over, Probes
  <2> QED BY <2>5, <2>6 DEF Probes
<1>2. CASE RunAbort
  <2>1. \A c \in Call : phase[c] \in InFlight => phase'[c] = "over" /\ result'[c].by = "run-signal" /\ ProbeOf(c) = stage
    BY <1>2 DEF RunAbort, Result, TypeOK
  <2>2. \A c \in Call : phase[c] \notin InFlight => phase'[c] = phase[c] /\ result'[c] = result[c]
    BY <1>2 DEF RunAbort
  <2>3. aborted' /\ ~aborted /\ stage' = stage
    BY <1>2 DEF RunAbort
  <2>4. \A c \in Call : phase[c] \in InFlight \cup {"none", "over"}
    BY DEF TypeOK
  <2>5. \A c \in Call : phase[c] \in InFlight => phase[c] # "none" /\ phase[c] # "over"
    BY DEF InFlight
  <2>6. ASSUME NEW c \in Call, NEW d \in Call, ProbeOf(c) = "dns", phase'[c] = "over", result'[c].by = "run-signal",
               ProbeOf(d) = "egress", phase'[d] # "none"
        PROVE  phase'[d] = "over" /\ result'[d].by = "run-signal"
    <3>1. phase[c] \notin InFlight => FALSE
      BY <2>2, <2>3, <2>6 DEF Order, Over
    <3>2. stage = "dns" /\ phase[d] = "none"
      BY <2>1, <2>6, <3>1 DEF Order
    <3> QED BY <2>2, <2>5, <2>6, <3>2
  <2> QED BY <2>1, <2>2, <2>3, <2>4, <2>5, <2>6 DEF Order, Over
<1>3. CASE (\E e \in Call : TakeUp(e) \/ Answers(e) \/ Travels(e) \/ PhaseTimeout(e)) \/ End \/ Tick \/ UNCHANGED vars
  <2>1. \A c \in Call :
         /\ phase[c] \notin InFlight => phase'[c] = phase[c] /\ result'[c] = result[c]
         /\ phase[c] \in InFlight => phase'[c] \in InFlight \cup {"over"}
         /\ phase'[c] = "over" /\ phase[c] # "over" => result'[c].by # "run-signal"
         /\ aborted' = aborted
    BY <1>3, CallSteps
  <2>2. stage' = stage \/ (stage = "egress" /\ stage' = "done")
    BY <1>3 DEF TakeUp, Answers, Travels, PhaseTimeout, End, Tick, vars
  <2>3. \A c \in Call : (phase'[c] = "none" <=> phase[c] = "none") /\ (phase[c] = "over" => phase'[c] = "over")
    BY <2>1 DEF InFlight
  <2>4. \A c \in Call : phase'[c] = "over" /\ result'[c].by = "run-signal" =>
          phase[c] = "over" /\ result[c].by = "run-signal"
    BY <2>1 DEF InFlight
  <2>5. \A c \in Call : phase[c] = "over" /\ result[c].by = "run-signal" =>
          phase'[c] = "over" /\ result'[c].by = "run-signal"
    BY <2>1 DEF InFlight
  <2>6. (\A c \in Call : phase'[c] = "over" /\ result'[c].by = "run-signal" => aborted')
    BY <2>1, <2>4 DEF Order, Over
  <2> QED BY <2>2, <2>3, <2>4, <2>5, <2>6 DEF Order, Over, TypeOK
<1> QED BY <1>1, <1>2, <1>3 DEF Next

LEMMA OrderHolds == Spec => []Order
<1>1. Init => Order
  BY DEF Init, Order, Over
<1> QED BY <1>1, OrderKept, TypeCorrect, PTL DEF Spec
-----------------------------------------------------------------------------
LEMMA PoolKept == TypeOK /\ Pool /\ [Next]_vars => Pool'
<1> SUFFICES ASSUME TypeOK, Pool, [Next]_vars, NEW d \in Call
             PROVE  /\ phase'[d] = "dns" => lookup'[d] \in {"queued", "asked"}
                    /\ lookup'[d] = "asked" /\ Name(d)'.takes = 0 => until'[d] <= now'
  BY DEF Pool
<1>0. Name(d)' = Name(d) /\ now' >= now
  BY DEF Name, Next, Begin, TakeUp, Answers, Travels, PhaseTimeout, RunAbort, End, Tick, vars, TypeOK
<1>1. ASSUME NEW p \in Probes, Begin(p)
      PROVE  /\ phase'[d] = "dns" => lookup'[d] \in {"queued", "asked"}
             /\ lookup'[d] = "asked" /\ Name(d)'.takes = 0 => until'[d] <= now'
  <2>1. CASE ProbeOf(d) = p
    BY <1>1, <2>1 DEF Begin
  <2>2. CASE ProbeOf(d) # p
    BY <1>0, <1>1, <2>2 DEF Begin, Pool
  <2> QED BY <2>1, <2>2
<1>2. ASSUME NEW c \in Call, TakeUp(c)
      PROVE  /\ phase'[d] = "dns" => lookup'[d] \in {"queued", "asked"}
             /\ lookup'[d] = "asked" /\ Name(d)'.takes = 0 => until'[d] <= now'
  BY <1>0, <1>2 DEF TakeUp, Pool, TypeOK, callVars
<1>3. ASSUME NEW c \in Call, Answers(c)
      PROVE  /\ phase'[d] = "dns" => lookup'[d] \in {"queued", "asked"}
             /\ lookup'[d] = "asked" /\ Name(d)'.takes = 0 => until'[d] <= now'
  <2>1. lookup' = [lookup EXCEPT ![c] = "answered"] /\ until' = until /\ now' = now
    BY <1>3 DEF Answers
  <2>2. phase'[d] = "dns" => phase[d] = "dns" /\ d # c
    BY <1>3 DEF Answers, Resolved, Settle, GoOn, callVars, TypeOK
  <2> QED BY <1>0, <2>1, <2>2 DEF Pool, TypeOK
<1>4. ASSUME NEW c \in Call, Travels(c)
      PROVE  /\ phase'[d] = "dns" => lookup'[d] \in {"queued", "asked"}
             /\ lookup'[d] = "asked" /\ Name(d)'.takes = 0 => until'[d] <= now'
  <2>1. phase'[d] = "dns" => phase[d] = "dns"
    BY <1>4 DEF Travels, After, Settle, GoOn, TypeOK
  <2> QED BY <1>0, <1>4, <2>1 DEF Travels, Pool, poolVars
<1>5. ASSUME NEW c \in Call, PhaseTimeout(c)
      PROVE  /\ phase'[d] = "dns" => lookup'[d] \in {"queued", "asked"}
             /\ lookup'[d] = "asked" /\ Name(d)'.takes = 0 => until'[d] <= now'
  BY <1>0, <1>5 DEF PhaseTimeout, Settle, Pool, TypeOK, poolVars
<1>6. CASE RunAbort
  BY <1>0, <1>6 DEF RunAbort, Pool, poolVars
<1>7. CASE Tick
  <2>1. now' = now + 1 /\ UNCHANGED <<lookup, until, phase>>
    BY <1>7 DEF Tick, poolVars, callVars
  <2>2. lookup[d] = "asked" /\ Name(d).takes = 0 => until[d] <= now
    BY DEF Pool
  <2>3. until[d] \in Nat /\ now \in Nat
    BY DEF TypeOK
  <2> QED BY <1>0, <2>1, <2>2, <2>3 DEF Pool
<1>8. CASE End \/ UNCHANGED vars
  BY <1>0, <1>8 DEF End, vars, poolVars, callVars, Pool
<1> QED BY <1>1, <1>2, <1>3, <1>4, <1>5, <1>6, <1>7, <1>8 DEF Next

LEMMA PoolHolds == Spec => []Pool
<1>1. Init => Pool
  BY DEF Init, Pool
<1> QED BY <1>1, PoolKept, TypeCorrect, PTL DEF Spec

\* A slow lookup that was begun stays one.
LEMMA StarvedStays == TypeOK /\ Order /\ Starved /\ [Next]_vars => Starved'
<1> SUFFICES ASSUME TypeOK, Order, Starved, [Next]_vars PROVE Starved'
  OBVIOUS
<1>1. \A c \in Call : Name(c)' = Name(c)
  BY DEF Name, Next, Begin, TakeUp, Answers, Travels, PhaseTimeout, RunAbort, End, Tick, vars
<1>2. ASSUME NEW c \in Call, lookup[c] \in {"asked", "answered"} PROVE lookup'[c] \in {"asked", "answered"}
  <2>1. ASSUME NEW p \in Probes, Begin(p) PROVE lookup'[c] \in {"asked", "answered"}
    <3>1. phase[c] # "none"
      BY <1>2 DEF TypeOK
    <3>2. ProbeOf(c) # p
      BY <2>1, <3>1 DEF Begin, Turn, Order, Probes
    <3> QED BY <1>2, <2>1, <3>2 DEF Begin
  <2>2. ASSUME NEW e \in Call, TakeUp(e) \/ Answers(e) PROVE lookup'[c] \in {"asked", "answered"}
    BY <1>2, <2>2 DEF TakeUp, Answers, TypeOK
  <2> QED BY <1>2, <2>1, <2>2 DEF Next, Travels, PhaseTimeout, RunAbort, End, Tick, vars, poolVars
<1>3. Slow \subseteq Slow' /\ Slow' \subseteq Call
  BY <1>1, <1>2 DEF Slow
<1>4. IsFiniteSet(Slow') /\ Slow \in SUBSET (Slow')
  BY <1>3, FiniteCalls, FS_Subset
<1>5. Cardinality(Slow) <= Cardinality(Slow')
  BY <1>4, FS_Subset
<1>6. IsFiniteSet(Slow)
  BY <1>4, FS_Subset
<1>7. Cardinality(Slow) \in Nat /\ Cardinality(Slow') \in Nat /\ Workers \in Nat
  BY <1>4, <1>6, FS_CardinalityType, Constants
<1> QED BY <1>5, <1>7 DEF Starved

\* When the clock moves past a lookup that takes no time, every thread is held
\* by one that does.
LEMMA TickStarves == ASSUME TypeOK, Pool, Tick, NEW c \in Call, phase[c] = "dns", Name(c).takes = 0
                     PROVE  Starved
<1>1. \A d \in Call : ~CanTake(d) /\ ~Answerable(d)
  BY DEF Tick
<1>2. lookup[c] = "queued"
  BY <1>1 DEF Pool, Answerable
<1>3. ~(Cardinality(Asked) < Workers)
  BY <1>1, <1>2 DEF CanTake
<1>4. \A d \in Asked : d \in Slow
  <2> SUFFICES ASSUME NEW d \in Asked PROVE d \in Slow
    OBVIOUS
  <2>1. d \in Call /\ lookup[d] = "asked" /\ Name(d).takes # 0
    BY <1>1 DEF Asked, Pool, Answerable
  <2>2. Name(d).takes \in Nat
    BY <2>1, WorldType DEF TypeOK, NameOf, Name, Answer
  <2> QED BY <2>1, <2>2 DEF Slow
<1>5. Slow \subseteq Call /\ Asked \in SUBSET Slow
  BY <1>4 DEF Slow
<1>6. IsFiniteSet(Slow)
  BY <1>5, FiniteCalls, FS_Subset
<1>7. Cardinality(Asked) <= Cardinality(Slow) /\ IsFiniteSet(Asked)
  BY <1>5, <1>6, FS_Subset
<1>8. Cardinality(Asked) \in Nat /\ Cardinality(Slow) \in Nat /\ Workers \in Nat
  BY <1>6, <1>7, FS_CardinalityType, Constants
<1> QED BY <1>3, <1>7, <1>8 DEF Starved

LEMMA WaitsKept == TypeOK /\ Order /\ Pool /\ Waits /\ [Next]_vars => Waits'
<1> SUFFICES ASSUME TypeOK, Order, Pool, Waits, [Next]_vars PROVE Waits'
  OBVIOUS
<1>n. \A c \in Call : Name(c)' = Name(c)
  BY DEF Name, Next, Begin, TakeUp, Answers, Travels, PhaseTimeout, RunAbort, End, Tick, vars
<1>s. CASE Starved
  BY <1>s, StarvedStays DEF Waits
<1> SUFFICES ASSUME NEW d \in Call, Name(d).takes = 0, ~Starved
             PROVE  /\ phase'[d] = "dns" => ~(since'[d] < now')
                    /\ phase'[d] = "over" => ~KeptWaiting(d, result'[d])
  BY <1>n, <1>s DEF Waits, Over
<1>0. /\ phase[d] = "dns" => ~(since[d] < now)
      /\ phase[d] = "over" => ~KeptWaiting(d, result[d])
  BY DEF Waits, Over
<1>t. now \in Nat /\ since[d] \in Nat /\ ConnectBudget \in Nat \ {0} /\ SlowAfter \in Nat \ {0}
  BY Constants DEF TypeOK
<1>1. ASSUME NEW p \in Probes, Begin(p)
      PROVE  /\ phase'[d] = "dns" => ~(since'[d] < now')
             /\ phase'[d] = "over" => ~KeptWaiting(d, result'[d])
  <2>1. CASE ProbeOf(d) # p
    BY <1>0, <1>1, <2>1 DEF Begin, TypeOK
  <2>2. CASE ProbeOf(d) = p
    <3>1. since'[d] = now /\ now' = now
      BY <1>1, <2>2 DEF Begin
    <3>2. phase'[d] = "over" => result'[d] = Result("dns", "null", "run-signal", 0)
      BY <1>1, <2>2 DEF Begin
    <3>3. ~KeptWaiting(d, Result("dns", "null", "run-signal", 0))
      BY DEF KeptWaiting, Result
    <3> QED BY <1>t, <3>1, <3>2, <3>3
  <2> QED BY <2>1, <2>2
<1>2. ASSUME NEW c \in Call, Answers(c)
      PROVE  /\ phase'[d] = "dns" => ~(since'[d] < now')
             /\ phase'[d] = "over" => ~KeptWaiting(d, result'[d])
  <2>1. CASE c # d \/ phase[c] # "dns"
    BY <1>0, <1>2, <2>1 DEF Answers, Resolved, Settle, GoOn, callVars, TypeOK
  <2>2. CASE c = d /\ phase[c] = "dns"
    <3>1. now - since[d] < SlowAfter
      BY <1>0, <1>t, <2>2
    <3>2. ASSUME NEW ph, NEW code PROVE ~KeptWaiting(d, Result(ph, code, "none", now - since[d]))
      BY <1>t, <3>1 DEF KeptWaiting, Result
    <3>3. phase'[d] # "dns" /\ (phase'[d] = "over" => \E ph, code : result'[d] = Result(ph, code, "none", now - since[d]))
      BY <1>2, <2>2 DEF Answers, Resolved, Settle, GoOn, TypeOK
    <3> QED BY <3>2, <3>3
  <2> QED BY <2>1, <2>2
<1>3. ASSUME NEW c \in Call, Travels(c)
      PROVE  /\ phase'[d] = "dns" => ~(since'[d] < now')
             /\ phase'[d] = "over" => ~KeptWaiting(d, result'[d])
  <2>1. CASE c # d
    BY <1>0, <1>3, <2>1 DEF Travels, Settle, GoOn, TypeOK
  <2>2. CASE c = d
    <3>1. phase'[d] # "dns" /\ (phase'[d] = "over" => \E ph, code : result'[d] = Result(ph, code, "none", now - since[d]))
      BY <1>3, <2>2 DEF Travels, After, Settle, GoOn, TypeOK
    <3>2. d.kind # "resolve"
      BY <1>3, <2>2, Kinds DEF Travels
    <3>3. \A ph, code : ~KeptWaiting(d, Result(ph, code, "none", now - since[d]))
      BY <3>2 DEF KeptWaiting, Result
    <3> QED BY <3>1, <3>3
  <2> QED BY <2>1, <2>2
<1>4. ASSUME NEW c \in Call, PhaseTimeout(c)
      PROVE  /\ phase'[d] = "dns" => ~(since'[d] < now')
             /\ phase'[d] = "over" => ~KeptWaiting(d, result'[d])
  <2>1. CASE c # d
    BY <1>0, <1>4, <2>1 DEF PhaseTimeout, Settle, TypeOK
  <2>2. CASE c = d
    <3>1. phase'[d] = "over" /\ result'[d] = Result(phase[d], "null", "phase-timeout", now - since[d])
      BY <1>4, <2>2 DEF PhaseTimeout, Settle, TypeOK
    <3>2. phase[d] # "dns" /\ phase[d] # "ok"
      <4>1. phase[d] = "dns" => since[d] + ConnectBudget <= now
        BY <1>4, <2>2 DEF PhaseTimeout, TimerDue, Budget
      <4> QED BY <1>0, <1>t, <1>4, <2>2, <4>1 DEF PhaseTimeout, TimerDue, InFlight
    <3>3. ~KeptWaiting(d, Result(phase[d], "null", "phase-timeout", now - since[d]))
      BY <3>2 DEF KeptWaiting, Result
    <3> QED BY <3>1, <3>3
  <2> QED BY <2>1, <2>2
<1>5. CASE RunAbort
  <2>1. phase'[d] # "dns"
    BY <1>5 DEF RunAbort, InFlight
  <2>2. CASE phase[d] \in InFlight
    <3>1. result'[d] = Result(phase[d], "null", "run-signal", now - since[d])
      BY <1>5, <2>2 DEF RunAbort
    <3>2. ~KeptWaiting(d, Result(phase[d], "null", "run-signal", now - since[d]))
      BY <2>2 DEF KeptWaiting, Result, InFlight
    <3> QED BY <2>1, <3>1, <3>2
  <2>3. CASE phase[d] \notin InFlight
    BY <1>0, <1>5, <2>1, <2>3 DEF RunAbort
  <2> QED BY <2>2, <2>3
<1>6. CASE Tick
  <2>1. phase' = phase /\ result' = result
    BY <1>6 DEF Tick, callVars
  <2> QED BY <1>0, <1>6, <2>1, TickStarves
<1>7. CASE (\E c \in Call : TakeUp(c)) \/ End \/ UNCHANGED vars
  BY <1>0, <1>7 DEF TakeUp, End, vars, callVars
<1> QED BY <1>1, <1>2, <1>3, <1>4, <1>5, <1>6, <1>7 DEF Next

LEMMA WaitsHold == Spec => []Waits
<1>1. Init => Waits
  BY DEF Init, Waits, Over
<1> QED BY <1>1, WaitsKept, TypeCorrect, OrderHolds, PoolHolds, PTL DEF Spec

\* A name that is answered at once is blamed for the time a lookup took only if
\* as many slow lookups as there are threads were begun.
THEOREM BystandersAreSparedHolds == Spec => []BystandersAreSpared
<1>1. TypeOK /\ Course /\ Waits => BystandersAreSpared
  <2> SUFFICES ASSUME TypeOK, Course, Waits, NEW c \in Call, Over(c), Healthy(c),
                      NEW f \in About(c), BlamesResolver(f)
               PROVE  Starved
    BY DEF BystandersAreSpared, Starved
  <2> DEFINE r == result[c]
  <2>0. Earned(world, c, r) /\ NameOf(world, c).code = "ok" /\ Name(c) = NameOf(world, c)
    BY DEF Course, Healthy, Name, NameOf
  <2>1. CASE c.kind = "resolve"
    <3>1. f = ResolveVerdict(c) \/ (f.id = "dns.slow-resolution" /\ IsSlow(r))
      <4>1. f \in {ResolveVerdict(c)} \cup SlowResolution(c)
        BY <2>1 DEF About
      <4>2. ASSUME f \in SlowResolution(c)
            PROVE  IsSlow(result[c]) /\ f = Finding("dns.slow-resolution", "degraded", "")
        BY <4>2 DEF SlowResolution
      <4>3. Finding("dns.slow-resolution", "degraded", "").id = "dns.slow-resolution"
        BY DEF Finding
      <4>4. CASE f \in SlowResolution(c)
        BY <4>2, <4>3, <4>4
      <4>5. CASE f \notin SlowResolution(c)
        BY <4>1, <4>5
      <4> QED BY <4>4, <4>5
    <3>2. CASE f = ResolveVerdict(c)
      <4> DEFINE addresses == Name(c).addresses
      <4>0. CASE r.phase = "ok" \/ r.by = "run-signal"
        <5>1. \A id, severity, why : Finding(id, severity, why).id = id /\ Finding(id, severity, why).why = why
          BY DEF Finding
        <5>2. CASE r.by = "run-signal"
          BY <3>2, <5>1, <5>2 DEF ResolveVerdict, BlamesResolver
        <5>3. CASE r.by # "run-signal" /\ addresses = {}
          BY <3>2, <4>0, <5>1, <5>3 DEF ResolveVerdict, BlamesResolver, Blocker
        <5>4. CASE r.by # "run-signal" /\ addresses # {}
          <6>1. f.id \in {"dns.sinkholed", "dns.split-horizon", "dns.resolved"}
            BY <3>2, <4>0, <5>4 DEF ResolveVerdict, Blocker, Finding
          <6> QED BY <6>1 DEF BlamesResolver
        <5> QED BY <5>2, <5>3, <5>4
      <4>1. CASE r.phase # "ok" /\ r.by # "run-signal"
        <5>1. ResolveFailure(r) = "resolver-timeout"
          BY <3>2, <4>1 DEF ResolveVerdict, BlamesResolver, Finding, Blocker
        <5>2. c \notin Attempts
          BY <2>1, Kinds
        <5>3. r.phase = "dns"
          BY <2>0, <4>1, <5>2 DEF Earned, Passing, InFlight
        <5>4. CASE r.by = "none"
          <6>1. r.code = Name(c).code /\ Name(c).code # "ok"
            BY <2>0, <5>2, <5>3, <5>4 DEF Earned
          <6> QED BY <2>0, <6>1
        <5>5. CASE r.by = "phase-timeout"
          BY <5>3, <5>5 DEF Waits, KeptWaiting, Healthy
        <5> QED BY <4>1, <5>4, <5>5 DEF TypeOK, Results
      <4> QED BY <4>0, <4>1
    <3>3. CASE f.id = "dns.slow-resolution" /\ IsSlow(r)
      BY <2>1, <3>3 DEF IsSlow, Waits, KeptWaiting, Healthy
    <3> QED BY <3>1, <3>2, <3>3
  <2>2. CASE c.kind = "doh"
    <3>1. f = DohVerdict(c)
      BY <2>2 DEF About
    <3>2. r.phase = "dns" /\ r.by = "phase-timeout"
      BY <3>1 DEF DohVerdict, EvaluateDoh, BlamesResolver, Finding
    <3> QED BY <3>2 DEF Waits, KeptWaiting, Healthy
  <2>3. CASE c.kind = "egress"
    <3>1. f = Judge(c)
      BY <2>3 DEF About
    <3>2. EgressClass(r) = "timeout" /\ r.phase = "dns"
      BY <3>1 DEF Judge, FailureId, EgressClass, BlamesResolver, Finding, Blocker
    <3>3. r.by = "phase-timeout" \/ r.code = "timedOut"
      BY <3>2 DEF EgressClass
    <3>4. r.code = "timedOut" => FALSE
      BY <2>0, <3>2 DEF Earned, TypeOK, Results
    <3> QED BY <3>2, <3>3, <3>4 DEF Waits, KeptWaiting, Healthy
  <2> QED BY <2>1, <2>2, <2>3, Kinds
<1> QED BY <1>1, TypeCorrect, CourseHolds, WaitsHold, PTL
-----------------------------------------------------------------------------
\* What egress says of an attempt that ended with its lookup, and of no other.
LEMMA JudgedByName ==
  ASSUME NEW c \in Call, result[c].by # "none" => result[c].code = "null"
  PROVE  /\ Judge(c).id = "egress.dns-failure" => IsDnsFailure(result[c]) /\ result[c].by = "none"
         /\ IsDnsFailure(result[c]) => Judge(c).id = "egress.dns-failure"
         /\ result[c].phase = "dns" /\ result[c].by = "phase-timeout"
              => Judge(c).id = "egress.connect-timeout" /\ Judge(c).why = "dns"
         /\ result[c].phase = "dns" /\ result[c].by = "run-signal" => Judge(c).id = "egress.aborted"
<1> DEFINE r == result[c]
<1>1. Judge(c).id = "egress.dns-failure" => EgressClass(r) = "dns" /\ r.by # "run-signal"
  BY DEF Judge, FailureId, EgressClass, Finding, Blocker
<1>2. EgressClass(r) = "dns" => IsDnsFailure(r)
  BY DEF EgressClass
<1>3. IsDnsFailure(r) => r.by = "none" /\ EgressClass(r) = "dns"
  BY DEF EgressClass, IsDnsFailure
<1>4. EgressClass(r) = "dns" /\ r.by = "none" => Judge(c).id = "egress.dns-failure"
  BY DEF Judge, FailureId, Finding, Blocker
<1>5. r.phase = "dns" /\ r.code = "null" => ~IsDnsFailure(r)
  BY DEF IsDnsFailure
<1>6. r.phase = "dns" /\ r.by = "phase-timeout" => EgressClass(r) = "timeout"
  BY <1>5 DEF EgressClass
<1>7. r.phase = "dns" /\ r.by = "run-signal" => EgressClass(r) # "ok"
  BY <1>5 DEF EgressClass
<1>8. EgressClass(r) = "timeout" /\ r.by # "run-signal" /\ r.phase = "dns"
        => Judge(c).id = "egress.connect-timeout" /\ Judge(c).why = "dns"
  BY DEF Judge, FailureId, Finding, Blocker
<1>9. EgressClass(r) # "ok" /\ r.by = "run-signal" => Judge(c).id = "egress.aborted"
  BY DEF Judge, Finding
<1> QED BY <1>1, <1>2, <1>3, <1>4, <1>6, <1>7, <1>8, <1>9

\* What dns says of a lookup.
LEMMA ResolveSays ==
  ASSUME NEW c \in Call, c.kind = "resolve", NEW f \in About(c), f.id = "dns.resolve-failed"
  PROVE  /\ result[c].by # "run-signal"
         /\ \/ result[c].phase # "ok" /\ f.why = ResolveFailure(result[c])
            \/ result[c].phase = "ok" /\ Name(c).addresses = {}
<1>1. f \in {ResolveVerdict(c)} \cup SlowResolution(c)
  BY DEF About
<1>2. ASSUME f \in SlowResolution(c) PROVE f = Finding("dns.slow-resolution", "degraded", "")
  BY <1>2 DEF SlowResolution
<1>3. Finding("dns.slow-resolution", "degraded", "").id # "dns.resolve-failed"
  BY DEF Finding
<1>4. f = ResolveVerdict(c)
  BY <1>1, <1>2, <1>3
<1>5. result[c].by # "run-signal"
  BY <1>4 DEF ResolveVerdict, Finding
<1>6. CASE result[c].phase # "ok"
  BY <1>4, <1>5, <1>6 DEF ResolveVerdict, Finding, Blocker
<1>7. CASE result[c].phase = "ok" /\ Name(c).addresses # {}
  <2>1. f.id \in {"dns.sinkholed", "dns.split-horizon", "dns.resolved"}
    BY <1>4, <1>5, <1>7 DEF ResolveVerdict, Finding, Blocker
  <2> QED BY <2>1
<1> QED BY <1>5, <1>6, <1>7

LEMMA ResolveFails ==
  ASSUME NEW c \in Call, c.kind = "resolve", result[c].by # "run-signal",
         result[c].phase # "ok" \/ Name(c).addresses = {}
  PROVE  Says(c, "dns.resolve-failed")
<1>1. ResolveVerdict(c) \in About(c)
  BY DEF About
<1>2. ResolveVerdict(c).id = "dns.resolve-failed"
  BY DEF ResolveVerdict, Finding, Blocker
<1> QED BY <1>1, <1>2 DEF Says

\* Once the attempts of egress return, the lookups of dns have.
LEMMA DnsComesFirst == ASSUME TypeOK, Order, NEW c \in Lookups, NEW d \in Reaches, Over(d)
                       PROVE  /\ Over(c) /\ c \in Call /\ d \in Call /\ c.kind = "resolve" /\ d.kind = "egress"
                              /\ result[c].by = "run-signal" => result[d].by = "run-signal"
<1>1. c \in Call /\ d \in Call /\ c.kind = "resolve" /\ d.kind = "egress"
  BY DEF Call, Attempts, Lookups, Reaches
<1>2. ProbeOf(c) = "dns" /\ ProbeOf(d) = "egress"
  BY <1>1 DEF ProbeOf
<1>3. phase[d] # "none"
  BY DEF Over
<1>4. stage \in {"egress", "done"}
  BY <1>1, <1>2, <1>3 DEF TypeOK, Order
<1> QED BY <1>1, <1>2, <1>3, <1>4 DEF Order

\* Dns and egress do not disagree about a name.
THEOREM NamesAgreeHolds == Spec => []NamesAgree
<1>1. TypeOK /\ Course /\ Order => NamesAgree
  <2> SUFFICES ASSUME TypeOK, Course, Order, NEW c \in Lookups, NEW d \in Reaches, c.host = d.host, Over(d)
               PROVE  /\ Says(d, "egress.dns-failure") => Says(c, "dns.resolve-failed")
                      /\ \A f \in About(c) :
                           f.id = "dns.resolve-failed" /\ f.why \in {"name-not-found", "no-address-records"}
                           => \E g \in About(d) : \/ g.id \in {"egress.dns-failure", "egress.aborted"}
                                                  \/ g.id = "egress.connect-timeout" /\ g.why = "dns"
    BY DEF NamesAgree
  <2>1. /\ Over(c) /\ c \in Call /\ d \in Call /\ c.kind = "resolve" /\ d.kind = "egress"
        /\ result[c].by = "run-signal" => result[d].by = "run-signal"
    BY DnsComesFirst
  <2> DEFINE n == NameOf(world, c)
  <2>2. Name(c) = n /\ NameOf(world, d) = n
    BY DEF Name, NameOf
  <2>3. Earned(world, c, result[c]) /\ Earned(world, d, result[d])
    BY <2>1 DEF Course
  <2>4. c \notin Attempts /\ d \in Attempts /\ About(d) = {Judge(d)}
    BY <2>1, Kinds DEF About
  <2>5. result[d].by # "none" => result[d].code = "null"
    BY <2>3 DEF Earned
  <2>6. ASSUME Says(d, "egress.dns-failure") PROVE Says(c, "dns.resolve-failed")
    <3>1. IsDnsFailure(result[d]) /\ result[d].by = "none"
      BY <2>1, <2>4, <2>5, <2>6, JudgedByName DEF Says
    <3>2. n.code # "ok" \/ n.addresses = {}
      BY <2>2, <2>3, <3>1 DEF Earned, IsDnsFailure
    <3>3. result[c].phase = "ok" => n.code = "ok"
      BY <2>3 DEF Earned, TypeOK, Results
    <3>4. result[c].by # "run-signal"
      BY <2>1, <3>1
    <3> QED BY <2>1, <2>2, <3>2, <3>3, <3>4, ResolveFails
  <2>7. ASSUME NEW f \in About(c), f.id = "dns.resolve-failed", f.why \in {"name-not-found", "no-address-records"}
        PROVE  \E g \in About(d) : \/ g.id \in {"egress.dns-failure", "egress.aborted"}
                                   \/ g.id = "egress.connect-timeout" /\ g.why = "dns"
    <3>1. /\ result[c].by # "run-signal"
          /\ \/ result[c].phase # "ok" /\ f.why = ResolveFailure(result[c])
             \/ result[c].phase = "ok" /\ n.addresses = {}
      BY <2>1, <2>2, <2>7, ResolveSays
    <3>2. n.code \in {"notFound", "noRecord"} \/ (n.code = "ok" /\ n.addresses = {})
      <4>1. CASE result[c].phase = "ok" /\ n.addresses = {}
        BY <2>2, <2>3, <4>1 DEF Earned
      <4>2. CASE result[c].phase # "ok" /\ f.why = ResolveFailure(result[c])
        <5>1. result[c].code \in {"notFound", "noRecord"}
          BY <2>7, <4>2 DEF ResolveFailure
        <5>2. result[c].by = "none"
          BY <2>3, <5>1 DEF Earned
        <5>3. result[c].phase = "dns"
          BY <2>3, <2>4, <4>2 DEF Earned, Passing, InFlight
        <5> QED BY <2>2, <2>3, <2>4, <5>1, <5>2, <5>3 DEF Earned
      <4> QED BY <3>1, <4>1, <4>2
    <3>3. ~Served(world, d)
      BY <2>2, <3>2 DEF Served
    <3>4. result[d].phase = "dns"
      BY <2>3, <2>4, <3>3 DEF Earned, Passing, InFlight
    <3>j. Judge(d) \in About(d)
      BY <2>4
    <3>5. CASE result[d].by = "none"
      <4>1. result[d].code \in {"notFound", "noRecord"}
        BY <2>2, <2>3, <3>2, <3>4, <3>5 DEF Earned
      <4>2. IsDnsFailure(result[d])
        BY <3>4, <4>1 DEF IsDnsFailure
      <4>3. Judge(d).id = "egress.dns-failure"
        BY <2>1, <2>5, <4>2, JudgedByName
      <4> QED BY <3>j, <4>3
    <3>6. CASE result[d].by = "phase-timeout"
      <4>1. Judge(d).id = "egress.connect-timeout" /\ Judge(d).why = "dns"
        BY <2>1, <2>5, <3>4, <3>6, JudgedByName
      <4> QED BY <3>j, <4>1
    <3>7. CASE result[d].by = "run-signal"
      <4>1. Judge(d).id = "egress.aborted"
        BY <2>1, <2>5, <3>4, <3>7, JudgedByName
      <4> QED BY <3>j, <4>1
    <3> QED BY <2>1, <3>5, <3>6, <3>7 DEF TypeOK, Results
  <2> QED BY <2>6, <2>7
<1> QED BY <1>1, TypeCorrect, CourseHolds, OrderHolds, PTL
-----------------------------------------------------------------------------
LEMMA Budgets == /\ ConnectBudget \in Nat /\ TlsBudget \in Nat /\ HttpBudget \in Nat
                 /\ \A p \in InFlight : Budget(p) \in Nat /\ Earlier(p) \in Nat
  BY Constants DEF Budget, Earlier, InFlight

\* A phase is begun while the one before it is within its budget.
LEMMA Onward == ASSUME NEW p \in InFlight, NEW q \in InFlight, <<p, q>> \in
                         {<<"dns", "connect">>, <<"connect", "tls">>, <<"connect", "http">>, <<"tls", "http">>}
                PROVE  Earlier(p) + Budget(p) <= Earlier(q)
  BY Budgets DEF Earlier, Budget

LEMMA TimingKept == TypeOK /\ Timing /\ [Next]_vars => Timing'
<1> SUFFICES ASSUME TypeOK, Timing, [Next]_vars, NEW d \in Call, phase'[d] \in InFlight
             PROVE  /\ now' <= since'[d] + Budget(phase'[d])
                    /\ since'[d] <= started'[ProbeOf(d)] + Earlier(phase'[d])
  BY DEF Timing
<1>t. /\ now \in Nat /\ since[d] \in Nat /\ started[ProbeOf(d)] \in Nat
      /\ ProbeOf(d) \in Probes
  BY DEF TypeOK, ProbeOf, Probes
<1>b. Budget(phase'[d]) \in Nat /\ Earlier(phase'[d]) \in Nat
  BY Budgets
<1>0. phase[d] \in InFlight => /\ now <= since[d] + Budget(phase[d])
                              /\ since[d] <= started[ProbeOf(d)] + Earlier(phase[d])
  BY DEF Timing
<1>1. ASSUME now' = now, phase'[d] = phase[d], since'[d] = since[d], started'[ProbeOf(d)] = started[ProbeOf(d)]
      PROVE  /\ now' <= since'[d] + Budget(phase'[d])
             /\ since'[d] <= started'[ProbeOf(d)] + Earlier(phase'[d])
  BY <1>0, <1>1
<1>2. ASSUME phase[d] \in InFlight, Earlier(phase[d]) + Budget(phase[d]) <= Earlier(phase'[d]),
             now' = now, since'[d] = now, started' = started
      PROVE  /\ now' <= since'[d] + Budget(phase'[d])
             /\ since'[d] <= started'[ProbeOf(d)] + Earlier(phase'[d])
  <2>1. Budget(phase[d]) \in Nat /\ Earlier(phase[d]) \in Nat
    BY <1>2, Budgets
  <2> DEFINE b == Budget(phase[d])
             e == Earlier(phase[d])
             b2 == Budget(phase'[d])
             e2 == Earlier(phase'[d])
  <2>2. now <= since[d] + b /\ since[d] <= started[ProbeOf(d)] + e /\ e + b <= e2
    BY <1>0, <1>2
  <2>3. b \in Nat /\ e \in Nat /\ b2 \in Nat /\ e2 \in Nat
    BY <1>b, <2>1
  <2> HIDE DEF b, e, b2, e2
  <2>4. now <= now + b2 /\ now <= started[ProbeOf(d)] + e2
    BY <1>t, <2>2, <2>3
  <2> QED BY <1>2, <2>4 DEF b2, e2
<1>3. ASSUME NEW p \in Probes, Begin(p)
      PROVE  /\ now' <= since'[d] + Budget(phase'[d])
             /\ since'[d] <= started'[ProbeOf(d)] + Earlier(phase'[d])
  <2>1. CASE ProbeOf(d) # p
    BY <1>1, <1>3, <2>1, <1>t DEF Begin, TypeOK
  <2>2. CASE ProbeOf(d) = p
    <3>1. now' = now /\ since'[d] = now /\ started'[ProbeOf(d)] = now
      BY <1>3, <1>t, <2>2 DEF Begin, TypeOK
    <3> QED BY <1>t, <1>b, <3>1
  <2> QED BY <2>1, <2>2
<1>4. ASSUME NEW c \in Call, Answers(c)
      PROVE  /\ now' <= since'[d] + Budget(phase'[d])
             /\ since'[d] <= started'[ProbeOf(d)] + Earlier(phase'[d])
  <2>1. CASE c # d \/ phase[c] # "dns"
    BY <1>1, <1>4, <2>1 DEF Answers, Resolved, Settle, GoOn, callVars, TypeOK
  <2>2. CASE c = d /\ phase[c] = "dns"
    <3>1. phase'[d] = "connect" /\ since'[d] = now /\ now' = now /\ started' = started
      BY <1>4, <2>2 DEF Answers, Resolved, Settle, GoOn, TypeOK, InFlight
    <3>2. Earlier(phase[d]) + Budget(phase[d]) <= Earlier(phase'[d])
      BY <2>2, <3>1, Onward DEF InFlight
    <3> QED BY <1>2, <2>2, <3>1, <3>2 DEF InFlight
  <2> QED BY <2>1, <2>2
<1>5. ASSUME NEW c \in Call, Travels(c)
      PROVE  /\ now' <= since'[d] + Budget(phase'[d])
             /\ since'[d] <= started'[ProbeOf(d)] + Earlier(phase'[d])
  <2>1. CASE c # d
    BY <1>1, <1>5, <2>1 DEF Travels, Settle, GoOn, TypeOK
  <2>2. CASE c = d
    <3>1. /\ <<phase[d], phase'[d]>> \in {<<"connect", "tls">>, <<"connect", "http">>, <<"tls", "http">>}
          /\ since'[d] = now /\ now' = now /\ started' = started
      BY <1>5, <2>2 DEF Travels, After, Settle, GoOn, TypeOK, InFlight
    <3>2. phase[d] \in InFlight
      BY <1>5, <2>2 DEF Travels, InFlight
    <3>3. Earlier(phase[d]) + Budget(phase[d]) <= Earlier(phase'[d])
      BY <3>1, <3>2, Onward
    <3> QED BY <1>2, <3>1, <3>2, <3>3
  <2> QED BY <2>1, <2>2
<1>6. ASSUME NEW c \in Call, PhaseTimeout(c)
      PROVE  /\ now' <= since'[d] + Budget(phase'[d])
             /\ since'[d] <= started'[ProbeOf(d)] + Earlier(phase'[d])
  <2>1. c # d
    BY <1>6 DEF PhaseTimeout, Settle, TypeOK, InFlight
  <2> QED BY <1>1, <1>6, <2>1 DEF PhaseTimeout, Settle, TypeOK
<1>7. CASE RunAbort
  BY <1>7 DEF RunAbort, InFlight
<1>8. CASE Tick
  <2>1. now' = now + 1 /\ UNCHANGED <<phase, since, started>> /\ ~TimerDue(d)
    BY <1>8 DEF Tick, callVars
  <2>2. phase[d] \in InFlight /\ Budget(phase[d]) \in Nat /\ Earlier(phase[d]) \in Nat
    BY <2>1, Budgets
  <2>3. ~(since[d] + Budget(phase[d]) <= now)
    BY <2>1, <2>2 DEF TimerDue
  <2>4. now + 1 <= since[d] + Budget(phase[d])
    BY <1>t, <2>2, <2>3
  <2> QED BY <1>0, <2>1, <2>2, <2>4
<1>9. CASE (\E c \in Call : TakeUp(c)) \/ End \/ UNCHANGED vars
  BY <1>1, <1>9 DEF TakeUp, End, vars, callVars
<1> QED BY <1>3, <1>4, <1>5, <1>6, <1>7, <1>8, <1>9 DEF Next

\* Whatever the network does, no call is out for longer than its budgets together.
THEOREM TimeIsSharedHolds == Spec => []TimeIsShared
<1>1. Init => Timing
  BY DEF Init, Timing, InFlight
<1>2. TypeOK /\ Course /\ Timing => TimeIsShared
  <2> SUFFICES ASSUME TypeOK, Course, Timing, NEW c \in Call, phase[c] \in InFlight
               PROVE  now - started[ProbeOf(c)] <= Longest(c)
    BY DEF TimeIsShared
  <2> DEFINE b == Budget(phase[c])
             e == Earlier(phase[c])
             s == started[ProbeOf(c)]
  <2>1. now <= since[c] + b /\ since[c] <= s + e
    BY DEF Timing
  <2>2. now \in Nat /\ since[c] \in Nat /\ s \in Nat
    BY DEF TypeOK, ProbeOf, Probes
  <2>3. b \in Nat /\ e \in Nat
    BY Budgets
  <2>4. e + b <= Longest(c) /\ Longest(c) \in Nat
    <3>1. CASE c.kind = "resolve"
      <4>1. phase[c] = "dns"
        BY <3>1, Kinds DEF Course, Passing, InFlight
      <4> QED BY <3>1, <4>1, Budgets DEF Earlier, Budget, Longest
    <3>2. CASE c.kind # "resolve"
      BY <3>2, Budgets DEF Earlier, Budget, Longest, InFlight
    <3> QED BY <3>1, <3>2
  <2> HIDE DEF b, e, s
  <2>5. now - s <= Longest(c)
    BY <2>1, <2>2, <2>3, <2>4
  <2> QED BY <2>5 DEF s
<1> QED BY <1>1, <1>2, TimingKept, TypeCorrect, CourseHolds, PTL DEF Spec
-----------------------------------------------------------------------------
LEMMA CapsOptional == ASSUME NEW c, NEW id, NEW why
                      PROVE  /\ Blocker(c, id, why).severity \in {"blocker", "degraded"}
                             /\ Blocker(c, id, why).severity = "blocker" => Required(c)
  BY DEF Blocker, Cap, Finding

\* What the three verdicts say of a result, each by its severity.
LEMMA ResolveSeverity ==
  ASSUME NEW c
  PROVE  LET v == ResolveVerdict(c) IN
         /\ v.severity = "ok" => /\ result[c].by # "run-signal" /\ result[c].phase = "ok"
                                 /\ Name(c).addresses # {} /\ Name(c).addresses \cap {"private", "sinkhole"} = {}
         /\ v.severity \in {"degraded", "blocker"} =>
              /\ result[c].by # "run-signal"
              /\ result[c].phase = "ok" /\ Name(c).addresses # {} => Name(c).addresses \cap {"private", "sinkhole"} # {}
         /\ v.severity = "blocker" => Required(c)
<1> DEFINE v == ResolveVerdict(c)
           a == Name(c).addresses
<1>1. CASE result[c].by = "run-signal"
  <2>1. v.severity = "unknown"
    BY <1>1 DEF ResolveVerdict, Finding
  <2> QED BY <2>1
<1>2. CASE result[c].by # "run-signal" /\ (result[c].phase # "ok" \/ a = {})
  <2>1. v.severity \in {"blocker", "degraded"} /\ (v.severity = "blocker" => Required(c))
    BY <1>2, CapsOptional DEF ResolveVerdict
  <2> QED BY <1>2, <2>1
<1>3. CASE result[c].by # "run-signal" /\ result[c].phase = "ok" /\ a # {} /\ "sinkhole" \in a
  <2>1. v.severity \in {"blocker", "degraded"} /\ (v.severity = "blocker" => Required(c))
    BY <1>3, CapsOptional DEF ResolveVerdict
  <2> QED BY <1>3, <2>1
<1>4. CASE result[c].by # "run-signal" /\ result[c].phase = "ok" /\ a # {} /\ "sinkhole" \notin a /\ "private" \in a
  <2>1. v.severity = "degraded"
    BY <1>4 DEF ResolveVerdict, Finding
  <2> QED BY <1>4, <2>1
<1>5. CASE result[c].by # "run-signal" /\ result[c].phase = "ok" /\ a # {} /\ "sinkhole" \notin a /\ "private" \notin a
  <2>1. v.severity = "ok"
    BY <1>5 DEF ResolveVerdict, Finding
  <2> QED BY <1>5, <2>1
<1> QED BY <1>1, <1>2, <1>3, <1>4, <1>5

LEMMA DohSeverity ==
  ASSUME NEW c, result[c].by = "run-signal" => result[c].phase # "ok"
  PROVE  LET v == DohVerdict(c) IN
         /\ v.severity = "ok" => result[c].phase \in {"ok", "http"}
         /\ v.severity = "degraded" => result[c].by # "run-signal" /\ result[c].phase \notin {"ok", "http"}
         /\ v.severity # "blocker"
  BY DEF DohVerdict, EvaluateDoh, Finding

LEMMA EgressSeverity ==
  ASSUME NEW c
  PROVE  LET v == Judge(c) IN
         /\ v.severity = "ok" => EgressClass(result[c]) = "ok"
         /\ v.severity \in {"degraded", "blocker"} => EgressClass(result[c]) # "ok" /\ result[c].by # "run-signal"
         /\ v.severity = "blocker" => Required(c)
<1>1. CASE EgressClass(result[c]) = "ok" \/ result[c].by = "run-signal" \/ EgressClass(result[c]) = "unclassified"
  BY <1>1 DEF Judge, Finding
<1>2. CASE EgressClass(result[c]) # "ok" /\ result[c].by # "run-signal" /\ EgressClass(result[c]) # "unclassified"
  <2>1. Judge(c).severity \in {"blocker", "degraded"} /\ (Judge(c).severity = "blocker" => Required(c))
    BY <1>2, CapsOptional DEF Judge
  <2> QED BY <1>2, <2>1
<1> QED BY <1>1, <1>2

LEMMA EgressOk == ASSUME NEW r PROVE EgressClass(r) = "ok" <=> r.phase = "ok" /\ r.code # "intermediary"
  BY DEF EgressClass

\* What the report says of a name or an endpoint is true of the network.
THEOREM VerdictsAreEarnedHolds == Spec => []VerdictsAreEarned
<1>1. TypeOK /\ Course => VerdictsAreEarned
  <2> SUFFICES ASSUME TypeOK, Course, NEW c \in Call, Over(c), NEW f \in About(c)
               PROVE  /\ f.severity = "ok" => Good(c)
                      /\ f.severity \in {"degraded", "blocker"} =>
                           /\ result[c].by # "run-signal"
                           /\ Good(c) => result[c].by = "phase-timeout" \/ IsSlow(result[c])
                      /\ f.severity = "blocker" => Required(c)
    BY DEF VerdictsAreEarned
  <2> DEFINE r == result[c]
  <2>0. /\ Earned(world, c, r) /\ r.by \in {"none", "phase-timeout", "run-signal"}
        /\ NameOf(world, c) = Name(c)
    BY DEF Course, TypeOK, Results, Name, NameOf
  <2>e. r.by # "none" => r.phase # "ok"
    BY <2>0 DEF Earned
  <2>1. CASE c.kind = "resolve"
    <3>1. c \notin Attempts
      BY <2>1, Kinds
    <3>2. r.phase \in {"dns", "ok"}
      BY <2>0, <3>1 DEF Earned, Passing, InFlight
    <3>3. CASE f = ResolveVerdict(c)
      <4>1. f.severity = "ok" => Good(c)
        BY <2>0, <2>1, <2>e, <3>3, ResolveSeverity DEF Earned, Good
      <4>2. f.severity \in {"degraded", "blocker"} /\ Good(c) => r.by = "phase-timeout"
        <5>1. CASE r.phase = "ok"
          BY <2>1, <3>3, <5>1, ResolveSeverity DEF Good
        <5>2. CASE r.phase = "dns" /\ r.by = "none"
          BY <2>0, <3>1, <5>2 DEF Earned, Good
        <5>3. CASE r.by = "run-signal"
          BY <3>3, <5>3, ResolveSeverity
        <5> QED BY <2>0, <3>2, <5>1, <5>2, <5>3
      <4> QED BY <3>3, <4>1, <4>2, ResolveSeverity
    <3>4. CASE f \in SlowResolution(c)
      <4>1. IsSlow(r) /\ f = Finding("dns.slow-resolution", "degraded", "")
        BY <3>4 DEF SlowResolution
      <4>2. f.severity = "degraded"
        BY <4>1 DEF Finding
      <4>3. r.by = "none"
        BY <2>0, <2>e, <4>1 DEF IsSlow
      <4> QED BY <4>1, <4>2, <4>3
    <3> QED BY <2>1, <3>3, <3>4 DEF About
  <2>2. CASE c.kind = "doh"
    <3>1. f = DohVerdict(c) /\ c \in Attempts
      BY <2>2, Kinds DEF About
    <3>2. f.severity = "ok" => Good(c)
      <4>1. CASE r.phase = "ok"
        BY <2>0, <2>2, <2>e, <3>1, <4>1 DEF Earned, Served, Good
      <4>2. CASE r.phase = "http"
        BY <2>0, <2>2, <3>1, <4>2 DEF Earned, Passing, Served, Good
      <4> QED BY <2>e, <3>1, <4>1, <4>2, DohSeverity
    <3>3. f.severity = "degraded" /\ r.by = "none" => ~Good(c)
      <4>1. ASSUME f.severity = "degraded", r.by = "none" PROVE r.phase \in {"dns", "connect", "tls"}
        BY <2>0, <2>e, <3>1, <4>1, DohSeverity DEF Earned, InFlight
      <4>2. ASSUME r.by = "none", r.phase = "dns" PROVE ~Good(c)
        BY <2>0, <4>2 DEF Earned, Good
      <4>3. ASSUME r.by = "none", r.phase \in {"connect", "tls"} PROVE ~Good(c)
        BY <2>0, <2>2, <4>3 DEF Earned, Good
      <4> QED BY <4>1, <4>2, <4>3
    <3> QED BY <2>0, <2>e, <3>1, <3>2, <3>3, DohSeverity
  <2>3. CASE c.kind = "egress"
    <3>1. f = Judge(c) /\ c \in Attempts
      BY <2>3, Kinds DEF About
    <3>2. f.severity = "ok" => Good(c)
      <4>1. f.severity = "ok" => r.phase = "ok" /\ r.code # "intermediary" /\ r.by = "none"
        BY <2>0, <2>e, <3>1, EgressSeverity, EgressOk
      <4> QED BY <2>0, <2>3, <3>1, <4>1 DEF Earned, Served, Good
    <3>3. f.severity \in {"degraded", "blocker"} /\ r.by = "none" => ~Good(c)
      <4>1. ASSUME f.severity \in {"degraded", "blocker"} PROVE r.phase # "ok" \/ r.code = "intermediary"
        BY <3>1, <4>1, EgressSeverity, EgressOk
      <4>2. ASSUME r.by = "none", r.phase = "dns" PROVE ~Good(c)
        BY <2>0, <4>2 DEF Earned, Good
      <4>3. ASSUME r.by = "none", r.phase \in {"connect", "tls", "http"} PROVE ~Good(c)
        BY <2>0, <2>3, <4>3 DEF Earned, Good
      <4>4. ASSUME r.by = "none", r.phase = "ok", r.code = "intermediary" PROVE ~Good(c)
        BY <2>0, <2>3, <3>1, <4>4 DEF Earned, Good
      <4> QED BY <2>0, <4>1, <4>2, <4>3, <4>4 DEF Earned, InFlight
    <3> QED BY <2>0, <3>1, <3>2, <3>3, EgressSeverity
  <2> QED BY <2>1, <2>2, <2>3, Kinds
<1> QED BY <1>1, TypeCorrect, CourseHolds, PTL
-----------------------------------------------------------------------------
(* The contract of the seams, kept by the calls of the two probes. *)

StandingOf(ph, r) ==
  IF ph = "none" THEN "idle" ELSE IF ph # "over" THEN "pending"
  ELSE IF r.by = "run-signal" THEN "cut" ELSE IF r.by = "phase-timeout" THEN "timedOut"
  ELSE IF r.phase = "ok" THEN "answered" ELSE "refused"
Standings == [c \in Call |-> StandingOf(phase[c], result[c])]

LEMMA StandingFacts ==
  /\ \A r : StandingOf("none", r) = "idle"
  /\ \A p \in InFlight : \A r : StandingOf(p, r) = "pending"
  /\ \A p, code, n : StandingOf("over", Result(p, code, "run-signal", n)) = "cut"
  /\ \A p, code, n : StandingOf("over", Result(p, code, "phase-timeout", n)) = "timedOut"
  /\ \A p, code, n : StandingOf("over", Result(p, code, "none", n)) \in {"answered", "refused"}
  BY DEF StandingOf, Result, InFlight

\* A call waits exactly while a phase of it runs.
LEMMA PendingIsInFlight ==
  ASSUME TypeOK, NEW c \in Call
  PROVE  Standings[c] = "pending" <=> phase[c] \in InFlight
  BY DEF TypeOK, Standings, StandingOf, InFlight

\* What settles a call, or takes it to its next phase, changes one entry.
LEMMA SettleStanding ==
  ASSUME TypeOK, NEW c \in Call, NEW p, NEW code, NEW by, Settle(c, p, code, by)
  PROVE  Standings' = [Standings EXCEPT ![c] = StandingOf("over", Result(p, code, by, now - since[c]))]
  BY DEF Settle, Standings, TypeOK

LEMMA GoOnStanding ==
  ASSUME TypeOK, NEW c \in Call, phase[c] \in InFlight, NEW p \in InFlight, GoOn(c, p)
  PROVE  Standings' = Standings
  <1>1. \A d \in Call : result'[d] = result[d] /\ phase'[d] = IF d = c THEN p ELSE phase[d]
    BY DEF GoOn, TypeOK
  <1> QED BY <1>1, StandingFacts DEF Standings

LEMMA ContractStep ==
  ASSUME TypeOK, Order, [Next]_vars
  PROVE  [Contract!Next]_(Contract!vars)
<1> DEFINE Step == [Contract!Next]_(Contract!vars)
<1>0. [c \in Call |-> Standing(c)] = Standings /\ [c \in Call |-> Standing(c)]' = Standings'
  BY DEF Standing, Over, Standings, StandingOf
<1>1. Standings' = Standings /\ aborted' = aborted => Step
  BY <1>0 DEF Contract!vars
<1>2. ASSUME NEW c \in Call, phase[c] \in InFlight, aborted' = aborted, NEW s \in {"answered", "refused"},
             Standings' = [Standings EXCEPT ![c] = s]
      PROVE  Step
  BY <1>0, <1>2, PendingIsInFlight DEF Contract!Next, Contract!Hear
<1>3. ASSUME NEW p \in Probes, Begin(p) PROVE Step
  <2> DEFINE together == {c \in Call : ProbeOf(c) = p}
  <2>1. \A c \in Call : ProbeOf(c) = p => phase[c] = "none"
    BY <1>3 DEF Begin, Turn, Order, Probes
  <2>2. together \in SUBSET {c \in Call : Standings[c] = "idle"}
    BY <2>1, StandingFacts DEF Standings
  <2>3. ASSUME NEW c \in Call
        PROVE  StandingOf(phase'[c], result'[c]) =
                 IF c \notin together THEN Standings[c] ELSE IF aborted THEN "cut" ELSE "pending"
    <3>1. CASE c \notin together
      BY <1>3, <3>1 DEF Begin, Standings
    <3>2. CASE c \in together /\ aborted
      BY <1>3, <3>2, StandingFacts DEF Begin
    <3>3. CASE c \in together /\ ~aborted
      BY <1>3, <3>3, StandingFacts DEF Begin, InFlight
    <3> QED BY <3>1, <3>2, <3>3
  <2>4. Standings' = [c \in Call |-> IF c \notin together THEN Standings[c]
                                     ELSE IF aborted THEN "cut" ELSE "pending"]
    BY <2>3 DEF Standings
  <2>5. aborted' = aborted
    BY <1>3 DEF Begin
  <2> HIDE DEF together
  <2>6. Contract!Begin(together)
    BY <1>0, <2>4, <2>5 DEF Contract!Begin
  <2> QED BY <1>0, <2>2, <2>6 DEF Contract!Next
<1>4. ASSUME NEW c \in Call, Answers(c) PROVE Step
  <2>1. aborted' = aborted
    BY <1>4 DEF Answers
  <2>2. CASE phase[c] # "dns"
    BY <1>1, <1>4, <2>1, <2>2 DEF Answers, callVars, Standings
  <2>3. CASE phase[c] = "dns"
    <3>1. Resolved(c) /\ phase[c] \in InFlight
      BY <1>4, <2>3 DEF Answers, InFlight
    <3>2. CASE GoOn(c, "connect")
      BY <1>1, <2>1, <3>1, <3>2, GoOnStanding DEF InFlight
    <3>3. ASSUME NEW ph, NEW code, Settle(c, ph, code, "none") PROVE Step
      BY <1>2, <2>1, <3>1, <3>3, SettleStanding, StandingFacts
    <3> QED BY <3>1, <3>2, <3>3 DEF Resolved
  <2> QED BY <2>2, <2>3
<1>5. ASSUME NEW c \in Call, Travels(c) PROVE Step
  <2>1. aborted' = aborted /\ phase[c] \in InFlight /\ phase[c] \in {"connect", "tls", "http"}
    BY <1>5 DEF Travels, InFlight
  <2>2. ASSUME NEW ph, NEW code, Settle(c, ph, code, "none") PROVE Step
    BY <1>2, <2>1, <2>2, SettleStanding, StandingFacts
  <2>3. CASE world.path[c].phase # phase[c] /\ After(c, phase[c]) # "ok"
    <3>1. GoOn(c, After(c, phase[c])) /\ After(c, phase[c]) \in InFlight
      BY <1>5, <2>1, <2>3 DEF Travels, After, InFlight
    <3> QED BY <1>1, <2>1, <3>1, GoOnStanding
  <2> QED BY <1>5, <2>2, <2>3 DEF Travels
<1>6. ASSUME NEW c \in Call, PhaseTimeout(c) PROVE Step
  <2>1. phase[c] \in InFlight /\ Settle(c, phase[c], "null", "phase-timeout") /\ aborted' = aborted
    BY <1>6 DEF PhaseTimeout, TimerDue
  <2>2. ~aborted /\ Standings[c] = "pending"
    BY <2>1, PendingIsInFlight DEF TypeOK
  <2>3. Standings' = [Standings EXCEPT ![c] = "timedOut"]
    BY <2>1, SettleStanding, StandingFacts
  <2> QED BY <1>0, <2>1, <2>2, <2>3 DEF Contract!Next, Contract!TimeOut
<1>7. CASE RunAbort
  <2>1. ASSUME NEW c \in Call
        PROVE  StandingOf(phase'[c], result'[c]) = IF Standings[c] = "pending" THEN "cut" ELSE Standings[c]
    <3>1. CASE phase[c] \in InFlight
      BY <1>7, <3>1, PendingIsInFlight, StandingFacts DEF RunAbort
    <3>2. CASE phase[c] \notin InFlight
      BY <1>7, <3>2, PendingIsInFlight DEF RunAbort, Standings
    <3> QED BY <3>1, <3>2
  <2>2. Standings' = [c \in Call |-> IF Standings[c] = "pending" THEN "cut" ELSE Standings[c]]
    BY <2>1 DEF Standings
  <2> QED BY <1>0, <1>7, <2>2 DEF RunAbort, Contract!Next, Contract!Cancel
<1>8. CASE (\E c \in Call : TakeUp(c)) \/ End \/ Tick \/ UNCHANGED vars
  BY <1>1, <1>8 DEF TakeUp, End, Tick, vars, callVars, Standings
<1> QED BY <1>3, <1>4, <1>5, <1>6, <1>7, <1>8 DEF Next

\* Every behaviour of the two probes over their pool of threads is one of the
\* contract: the calls of a probe are promised together, each is decided once and
\* for one cause, and none is out once the signal has come.
THEOREM KeepsContractHolds == Spec => KeepsContract
<1>1. Init => Contract!Init
  BY DEF Init, Contract!Init, Standing
<1> QED BY <1>1, ContractStep, TypeCorrect, OrderHolds, PTL DEF Spec, KeepsContract, Contract!Spec
=============================================================================
