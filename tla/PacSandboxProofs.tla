-------------------------- MODULE PacSandboxProofs --------------------------
(***************************************************************************)
(* Theorems about PacSandbox, for any number of evaluations, any budget    *)
(* and any grace.                                                          *)
(***************************************************************************)
EXTENDS PacSandbox, TLAPS

USE SandboxAssumption

\* What is delivered of each kind of mail, and what is left of it.
LEMMA MailOrder ==
  ASSUME NEW m \in Mails, m # <<>>
  PROVE  /\ Tail(m) \in Mails
         /\ Head(m) = "message" <=> m = Replied
         /\ m # Replied => Tail(m) # Replied
         /\ m = Replied => Tail(m) # Replied
  <1>1. CASE m = Replied
    BY <1>1 DEF Replied, Mails
  <1>2. CASE m = <<"exit0">>
    BY <1>2 DEF Replied, Mails
  <1>3. CASE m = Broken
    BY <1>3 DEF Replied, Broken, Mails
  <1>4. CASE m = <<"exit1">>
    BY <1>4 DEF Replied, Mails
  <1> QED BY <1>1, <1>2, <1>3, <1>4 DEF Mails

(***************************************************************************)
(* The state of one call: not begun, out with a watchdog that is set for   *)
(* the end of its time, or answered with the watchdog unset.               *)
(***************************************************************************)
Stage(c) ==
  /\ thread[c] = "none" => kills[c] = 0 /\ due[c] = Off /\ mail[c] = <<>>
  /\ Pending(c) => /\ due[c] = began[c] + TimeoutMs + GraceMs
                   /\ kills[c] = 0 /\ now <= due[c] /\ began[c] <= now
  /\ answer[c] # "none" => due[c] = Off
  /\ thread[c] # "none" /\ answer[c] # "none" => kills[c] = 1
Serial == \A c, d \in Call : d < c /\ thread[c] # "none" => answer[d] # "none"
Inv == TypeOK /\ Serial /\ \A c \in Call : Stage(c)

\* An event of a call touches that call alone.
Elsewhere(c) == \A d \in Call \ {c} : /\ answer'[d] = answer[d] /\ began'[d] = began[d]
                                      /\ due'[d] = due[d] /\ thread'[d] = thread[d]
                                      /\ mail'[d] = mail[d] /\ kills'[d] = kills[d]

LEMMA CallsAreApart ==
  ASSUME Inv, NEW c \in Call, Elsewhere(c), now' = now, TypeOK', Stage(c)',
         answer[c] # "none" => answer'[c] # "none",
         thread[c] = "none" /\ thread'[c] # "none" => \A d \in Call : d < c => answer[d] # "none"
  PROVE  Inv'
<1>1. Serial'
  <2> SUFFICES ASSUME NEW e \in Call, NEW d \in Call, d < e, thread'[e] # "none"
               PROVE  answer'[d] # "none"
    BY DEF Serial
  <2>1. d # e
    BY DEF Call
  <2>2. answer[d] # "none"
    BY <2>1 DEF Serial, Inv, Elsewhere
  <2> QED BY <2>2 DEF Elsewhere
<1>2. \A d \in Call : Stage(d)'
  <2> SUFFICES ASSUME NEW d \in Call, d # c PROVE Stage(d)'
    OBVIOUS
  <2> QED BY DEF Inv, Elsewhere, Stage, Pending
<1> QED BY <1>1, <1>2 DEF Inv

\* finish, seen from the call it answers.
LEMMA Finished ==
  ASSUME Inv, NEW c \in Call, NEW v \in {"script", "error"}, thread[c] # "none", Finish(c, v)
  PROVE  /\ answer' \in [Call -> {"none", "script", "error"}]
         /\ due' \in [Call -> Nat] /\ kills' \in [Call -> {0, 1}]
         /\ answer'[c] # "none" /\ due'[c] = Off /\ kills'[c] = 1
         /\ \A d \in Call \ {c} : answer'[d] = answer[d] /\ due'[d] = due[d] /\ kills'[d] = kills[d]
<1>1. CASE answer[c] = "none"
  <2>1. kills[c] = 0
    BY <1>1 DEF Inv, Stage, Pending
  <2> QED BY <1>1, <2>1 DEF Finish, Inv, TypeOK, Off
<1>2. CASE answer[c] # "none"
  BY <1>2 DEF Finish, Inv, TypeOK, Stage
<1> QED BY <1>1, <1>2

LEMMA InvInitially == Init => Inv
BY DEF Init, Inv, TypeOK, Serial, Stage, Pending, Off, Mails

LEMMA InvKept == Inv /\ [Next]_vars => Inv'
<1> SUFFICES ASSUME Inv, [Next]_vars PROVE Inv'
  OBVIOUS
<1>1. CASE Tick
  <2>1. /\ answer' = answer /\ began' = began /\ due' = due /\ thread' = thread
        /\ mail' = mail /\ kills' = kills /\ cut' = cut
    BY <1>1 DEF Tick, perCall
  <2>2. now' = now + 1 /\ now \in Nat /\ \A c \in Call : ~Fires(c)
    BY <1>1 DEF Tick, Inv, TypeOK
  <2>3. ASSUME NEW c \in Call PROVE Stage(c)'
    <3>1. Pending(c) => now' <= due[c]
      <4> SUFFICES ASSUME Pending(c) PROVE now' <= due[c]
        OBVIOUS
      <4>1. due[c] = began[c] + TimeoutMs + GraceMs /\ due[c] \in Nat /\ began[c] \in Nat
        BY DEF Inv, Stage, TypeOK
      <4>2. due[c] > now
        BY <2>2, <4>1 DEF Fires, Off
      <4> QED BY <2>2, <4>1, <4>2
    <3>2. Pending(c) => began[c] <= now'
      BY <2>2 DEF Inv, Stage, TypeOK
    <3> QED BY <2>1, <3>1, <3>2 DEF Inv, Stage, Pending
  <2> QED BY <2>1, <2>2, <2>3 DEF Inv, TypeOK, Serial
<1>2. ASSUME NEW c \in Call, Evaluate(c) PROVE Inv'
  <2>1. Elsewhere(c) /\ now' = now
    BY <1>2 DEF Evaluate, Elsewhere, Inv, TypeOK
  <2>2. Watchdog \in Nat /\ Watchdog = now + TimeoutMs + GraceMs /\ now <= Watchdog
    BY DEF Watchdog, Inv, TypeOK
  <2>3. TypeOK'
    BY <1>2, <2>2 DEF Evaluate, Inv, TypeOK, Alive
  <2>4. kills[c] = 0 /\ mail[c] = <<>> /\ answer[c] = "none"
    BY <1>2 DEF Evaluate, Turn, Inv, Stage
  <2>5. Stage(c)'
    BY <1>2, <2>2, <2>4 DEF Evaluate, Stage, Pending, Inv, TypeOK
  <2> QED BY <1>2, <2>1, <2>3, <2>5, CallsAreApart DEF Evaluate, Turn
<1>3. ASSUME NEW c \in Call, SpawnThrows(c) PROVE Inv'
  <2>1. Elsewhere(c) /\ now' = now /\ TypeOK'
    BY <1>3 DEF SpawnThrows, Elsewhere, Inv, TypeOK
  <2>2. Stage(c)'
    BY <1>3 DEF SpawnThrows, Turn, Stage, Pending, Inv, TypeOK
  <2> QED BY <1>3, <2>1, <2>2, CallsAreApart DEF SpawnThrows, Turn, Inv, TypeOK
<1>4. ASSUME NEW c \in Call, Loads(c) \/ Posts(c) \/ Breaks(c) \/ Killed(c) PROVE Inv'
  <2>1. /\ answer' = answer /\ began' = began /\ due' = due /\ kills' = kills /\ now' = now /\ cut' = cut
        /\ thread[c] \in Alive /\ thread'[c] \in {"running", "dead"}
    BY <1>4 DEF Loads, Posts, Breaks, Killed, Alive, Inv, TypeOK
  <2>2. thread' \in [Call -> {"none", "dead"} \cup Alive] /\ mail' \in [Call -> Mails]
    <3>1. CASE Loads(c)
      BY <3>1 DEF Loads, Alive, Inv, TypeOK
    <3>2. CASE Posts(c)
      BY <3>2 DEF Posts, Mails, Inv, TypeOK
    <3>3. CASE Breaks(c)
      BY <3>3 DEF Breaks, Mails, Inv, TypeOK
    <3>4. CASE Killed(c)
      BY <3>4 DEF Killed, Mails, Inv, TypeOK
    <3> QED BY <1>4, <3>1, <3>2, <3>3, <3>4
  <2>a. TypeOK'
    BY <2>1, <2>2 DEF Inv, TypeOK
  <2>b. \A d \in Call \ {c} : thread'[d] = thread[d] /\ mail'[d] = mail[d]
    BY <1>4 DEF Loads, Posts, Breaks, Killed, Inv, TypeOK
  <2>3. Elsewhere(c) /\ TypeOK'
    BY <2>1, <2>a, <2>b DEF Elsewhere
  <2>4. Stage(c)'
    BY <2>1 DEF Stage, Pending, Inv, Alive
  <2> QED BY <2>1, <2>3, <2>4, CallsAreApart DEF Alive
<1>5. ASSUME NEW c \in Call, Deliver(c) PROVE Inv'
  <2>1. /\ now' = now /\ cut' = cut /\ began' = began /\ thread' = thread /\ mail[c] # <<>> /\ mail[c] \in Mails
        /\ mail' = [mail EXCEPT ![c] = Tail(mail[c])]
    BY <1>5 DEF Deliver, Inv, TypeOK
  <2>2. thread[c] # "none"
    BY <2>1 DEF Inv, Stage
  <2>3. mail' \in [Call -> Mails]
    BY <2>1, MailOrder DEF Inv, TypeOK
  <2>4. Finish(c, "script") \/ Finish(c, "error") \/ UNCHANGED <<answer, due, kills>>
    BY <1>5 DEF Deliver
  <2>5. CASE Finish(c, "script") \/ Finish(c, "error")
    <3>1. /\ answer' \in [Call -> {"none", "script", "error"}]
          /\ due' \in [Call -> Nat] /\ kills' \in [Call -> {0, 1}]
          /\ answer'[c] # "none" /\ due'[c] = Off /\ kills'[c] = 1
          /\ \A d \in Call \ {c} : answer'[d] = answer[d] /\ due'[d] = due[d] /\ kills'[d] = kills[d]
      BY <2>2, <2>5, Finished
    <3>2. TypeOK' /\ Elsewhere(c)
      BY <2>1, <2>3, <3>1 DEF Inv, TypeOK, Elsewhere
    <3>3. Stage(c)'
      BY <2>1, <2>2, <3>1 DEF Stage, Pending
    <3> QED BY <2>1, <3>1, <3>2, <3>3, CallsAreApart
  <2>6. CASE UNCHANGED <<answer, due, kills>>
    <3>1. TypeOK' /\ Elsewhere(c)
      BY <2>1, <2>3, <2>6 DEF Inv, TypeOK, Elsewhere
    <3>2. Stage(c)'
      BY <2>1, <2>2, <2>6 DEF Inv, Stage, Pending
    <3> QED BY <2>1, <2>6, <3>1, <3>2, CallsAreApart
  <2> QED BY <2>4, <2>5, <2>6
<1>6. ASSUME NEW c \in Call, WatchdogFires(c) PROVE Inv'
  <2>1. UNCHANGED <<now, cut, began, thread, mail>> /\ Finish(c, "error")
    BY <1>6 DEF WatchdogFires
  <2>2. thread[c] # "none"
    BY <1>6 DEF WatchdogFires, Fires, Inv, Stage
  <2>3. /\ answer' \in [Call -> {"none", "script", "error"}]
        /\ due' \in [Call -> Nat] /\ kills' \in [Call -> {0, 1}]
        /\ answer'[c] # "none" /\ due'[c] = Off /\ kills'[c] = 1
        /\ \A d \in Call \ {c} : answer'[d] = answer[d] /\ due'[d] = due[d] /\ kills'[d] = kills[d]
    BY <2>1, <2>2, Finished
  <2>4. TypeOK' /\ Elsewhere(c)
    BY <2>1, <2>3 DEF Inv, TypeOK, Elsewhere
  <2>5. Stage(c)'
    BY <2>1, <2>2, <2>3 DEF Stage, Pending
  <2> QED BY <2>1, <2>3, <2>4, <2>5, CallsAreApart
<1>7. CASE RunCut
  <2>1. UNCHANGED <<now, perCall>> /\ TypeOK'
    BY <1>7 DEF RunCut, perCall, Inv, TypeOK
  <2> QED BY <2>1 DEF perCall, Inv, Serial, Stage, Pending
<1>8. CASE UNCHANGED vars
  BY <1>8 DEF vars, perCall, Inv, TypeOK, Serial, Stage, Pending
<1> QED BY <1>1, <1>2, <1>3, <1>4, <1>5, <1>6, <1>7, <1>8 DEF Next

\* The invariant of the sandbox.
THEOREM InvHolds == Spec => []Inv
BY InvInitially, InvKept, PTL DEF Spec

\* The state keeps its type; in particular no call terminates its thread twice.
THEOREM TypeCorrect == Spec => []TypeOK
<1>1. Inv => TypeOK
  BY DEF Inv
<1> QED BY <1>1, InvHolds, PTL

\* A call is out for at most the budget of the script and the grace.
THEOREM AnswerInTimeHolds == Spec => []AnswerInTime
<1>1. Inv => AnswerInTime
  BY DEF Inv, Stage, AnswerInTime
<1> QED BY <1>1, InvHolds, PTL

Each == TimeoutMs + GraceMs
\* The calls are made in order; one that is left when the run is cut is begun
\* when those before it have had their time, and no later.
Spent ==
  /\ \A c, d \in Call : d < c /\ answer[c] # "none" => answer[d] # "none"
  /\ cut.on => \A c \in Call :
       /\ Pending(c) => due[c] <= cut.at + (c - cut.done) * Each
       /\ Turn(c) => now <= cut.at + (c - 1 - cut.done) * Each

LEMMA OneMore == ASSUME NEW n \in Int PROVE (n - 1) * Each + Each = n * Each /\ n * Each \in Int /\ Each \in Nat
<1>1. Each \in Nat
  BY DEF Each
<1> DEFINE e == Each
<1> HIDE DEF e
<1>2. e \in Nat => (n - 1) * e + e = n * e /\ n * e \in Int
  OBVIOUS
<1> QED BY <1>1, <1>2 DEF e

\* The call that comes next when one is answered.
LEMMA NextTurn ==
  ASSUME Inv, Spent, NEW c \in Call, answer[c] = "none", NEW e \in Call, Turn(e)',
         thread' = thread, answer'[c] # "none", \A d \in Call \ {c} : answer'[d] = answer[d],
         thread[c] # "none" \/ Turn(c)
  PROVE  e = c + 1
<1>1. e # c => answer[e] = "none" /\ thread[e] = "none"
  BY DEF Turn
<1>2. \A d \in Call : d < c => answer[d] # "none"
  BY DEF Turn, Inv, Serial
<1>3. \A d \in Call : d # c /\ d < e => answer[d] # "none"
  BY DEF Turn
<1>4. \A d \in Call : c < d => answer[d] = "none"
  BY DEF Spent
<1>5. e # c => e > c
  BY <1>1, <1>2 DEF Call
<1>6. ~(e > c + 1)
  <2> SUFFICES ASSUME e > c + 1 PROVE FALSE
    OBVIOUS
  <2>1. c + 1 \in Call
    BY DEF Call
  <2> QED BY <1>3, <1>4, <2>1 DEF Call
<1>7. e # c
  BY DEF Turn
<1> QED BY <1>5, <1>6, <1>7 DEF Call

\* A call that is answered leaves the rest as it was, and is followed by the next.
LEMMA AnsweredInTime ==
  ASSUME Inv, Spent, NEW c \in Call, answer[c] = "none", thread[c] # "none" \/ Turn(c),
         answer'[c] # "none", \A d \in Call \ {c} : answer'[d] = answer[d] /\ due'[d] = due[d],
         thread' = thread, now' = now, cut' = cut
  PROVE  Spent'
<1>1. \A d \in Call : d < c => answer[d] # "none"
  BY DEF Turn, Inv, Serial
<1>2. ASSUME NEW d \in Call, NEW e \in Call, e < d, answer'[d] # "none" PROVE answer'[e] # "none"
  <2>1. CASE d = c
    BY <1>1, <1>2, <2>1 DEF Call
  <2>2. CASE d # c
    BY <1>2, <2>2 DEF Spent
  <2> QED BY <2>1, <2>2
<1>3. ASSUME cut.on, NEW e \in Call, Pending(e)' PROVE due'[e] <= cut.at + (e - cut.done) * Each
  <2>1. e # c
    BY <1>3 DEF Pending
  <2> QED BY <1>3, <2>1 DEF Pending, Spent
<1>4. ASSUME cut.on, NEW e \in Call, Turn(e)' PROVE now <= cut.at + (e - 1 - cut.done) * Each
  <2>1. e = c + 1
    BY <1>4, NextTurn
  <2>2. now \in Nat /\ cut.at \in Nat /\ cut.done \in Nat /\ c \in Nat /\ due[c] \in Nat
    BY DEF Inv, TypeOK, Call
  <2> DEFINE n == c - cut.done
  <2>3. n \in Int
    BY <2>2
  <2>4. (n - 1) * Each + Each = n * Each /\ n * Each \in Int /\ Each \in Nat /\ (n - 1) * Each \in Int
    <3>1. n - 1 \in Int
      BY <2>3
    <3> QED BY <2>3, <3>1, OneMore
  <2>5. e - 1 - cut.done = n /\ c - 1 - cut.done = n - 1
    BY <2>1, <2>2
  <2>6. CASE thread[c] # "none"
    <3>1. now <= due[c] /\ due[c] <= cut.at + n * Each
      BY <1>4, <2>6 DEF Inv, Stage, Pending, Spent
    <3> QED BY <2>2, <2>4, <2>5, <3>1
  <2>7. CASE Turn(c)
    <3>1. now <= cut.at + (n - 1) * Each
      BY <1>4, <2>5, <2>7 DEF Spent
    <3> QED BY <2>2, <2>4, <2>5, <3>1
  <2> QED BY <2>6, <2>7
<1> QED BY <1>2, <1>3, <1>4 DEF Spent

LEMMA SpentKept == Inv /\ Spent /\ [Next]_vars => Spent'
<1> SUFFICES ASSUME Inv, Spent, [Next]_vars PROVE Spent'
  OBVIOUS
<1>t. now \in Nat /\ cut.at \in Nat /\ cut.done \in Nat
  BY DEF Inv, TypeOK
<1>1. ASSUME UNCHANGED <<answer, due, thread, cut>>, now' = now PROVE Spent'
  BY <1>1 DEF Spent, Pending, Turn
<1>2. CASE Tick
  <2>1. UNCHANGED <<answer, due, thread, cut>> /\ (cut.on => \A c \in Call : ~Turn(c))
    BY <1>2 DEF Tick, Waiting, perCall
  <2> QED BY <2>1 DEF Spent, Pending, Turn
<1>3. CASE RunCut
  <2>1. PICK n \in 0..Calls : (\A c \in Call : answer[c] # "none" <=> c <= n) /\ cut' = [on |-> TRUE, at |-> now, done |-> n]
    BY <1>3 DEF RunCut
  <2>2. UNCHANGED <<now, answer, due, thread>>
    BY <1>3 DEF RunCut, perCall
  <2>3. \A c, d \in Call : d < c /\ answer'[c] # "none" => answer'[d] # "none"
    BY <2>2 DEF Spent
  <2>4. ASSUME NEW c \in Call, answer[c] = "none", \A d \in Call : d < c => answer[d] # "none" PROVE c = n + 1
    <3>1. c > n
      BY <2>1, <2>4 DEF Call
    <3>2. ~(c > n + 1)
      <4> SUFFICES ASSUME c > n + 1 PROVE FALSE
        OBVIOUS
      <4>1. n + 1 \in Call /\ n + 1 < c
        BY DEF Call
      <4> QED BY <2>1, <2>4, <4>1 DEF Call
    <3> QED BY <3>1, <3>2 DEF Call
  <2>5. 1 * Each = Each /\ 0 * Each = 0 /\ Each \in Nat
    BY DEF Each
  <2>6. ASSUME NEW c \in Call, Pending(c) PROVE due[c] <= now + (c - n) * Each
    <3>1. c = n + 1
      BY <2>4, <2>6 DEF Pending, Inv, Serial
    <3>2. due[c] = began[c] + Each /\ began[c] <= now /\ began[c] \in Nat /\ due[c] \in Nat
      BY <2>6 DEF Inv, Stage, TypeOK, Each
    <3>3. c - n = 1
      BY <3>1
    <3> QED BY <1>t, <2>5, <3>2, <3>3
  <2>7. ASSUME NEW c \in Call, Turn(c) PROVE now <= now + (c - 1 - n) * Each
    <3>1. c = n + 1
      BY <2>4, <2>7 DEF Turn
    <3>2. c - 1 - n = 0
      BY <3>1
    <3> QED BY <1>t, <2>5, <3>2
  <2> QED BY <2>1, <2>2, <2>3, <2>6, <2>7 DEF Spent, Pending, Turn
<1>4. ASSUME NEW c \in Call, Evaluate(c) PROVE Spent'
  <2>1. /\ Turn(c) /\ answer' = answer /\ now' = now /\ cut' = cut
        /\ due' = [due EXCEPT ![c] = now + Each] /\ thread' = [thread EXCEPT ![c] = "loading"]
    <3>1. Watchdog = now + Each
      BY <1>t DEF Watchdog, Each
    <3> QED BY <1>4, <3>1 DEF Evaluate
  <2>2. \A d, e \in Call : e < d /\ answer'[d] # "none" => answer'[e] # "none"
    BY <2>1 DEF Spent
  <2>3. ASSUME cut.on, NEW d \in Call, Turn(d)' PROVE now <= cut.at + (d - 1 - cut.done) * Each
    BY <2>1, <2>3 DEF Turn, Spent, Inv, TypeOK
  <2>4. ASSUME cut.on, NEW d \in Call, Pending(d)' PROVE due'[d] <= cut.at + (d - cut.done) * Each
    <3>1. CASE d # c
      BY <2>1, <2>4, <3>1 DEF Pending, Spent, Inv, TypeOK
    <3>2. CASE d = c
      <4>1. now <= cut.at + (c - 1 - cut.done) * Each
        BY <2>1, <2>4 DEF Spent
      <4> DEFINE n == c - cut.done
      <4>2. n \in Int /\ n - 1 \in Int /\ c - 1 - cut.done = n - 1
        BY <1>t DEF Call
      <4>3. (n - 1) * Each + Each = n * Each /\ n * Each \in Int /\ Each \in Nat /\ (n - 1) * Each \in Int
        BY <4>2, OneMore
      <4>4. now + Each <= cut.at + n * Each
        BY <1>t, <4>1, <4>2, <4>3
      <4>5. due'[c] = now + Each
        BY <2>1 DEF Inv, TypeOK
      <4> QED BY <3>2, <4>4, <4>5
    <3> QED BY <3>1, <3>2
  <2> QED BY <2>1, <2>2, <2>3, <2>4 DEF Spent
<1>5. ASSUME NEW c \in Call, SpawnThrows(c) PROVE Spent'
  <2>1. Turn(c) /\ answer[c] = "none" /\ answer'[c] # "none"
    BY <1>5 DEF SpawnThrows, Turn, Inv, TypeOK
  <2>2. (\A d \in Call \ {c} : answer'[d] = answer[d] /\ due'[d] = due[d]) /\ thread' = thread /\ now' = now /\ cut' = cut
    BY <1>5 DEF SpawnThrows, Inv, TypeOK
  <2> QED BY <2>1, <2>2, AnsweredInTime
<1>6. ASSUME NEW c \in Call, Deliver(c) \/ WatchdogFires(c) PROVE Spent'
  <2>1. thread' = thread /\ now' = now /\ cut' = cut /\ thread[c] # "none"
    BY <1>6 DEF Deliver, WatchdogFires, Fires, Inv, Stage
  <2>2. CASE UNCHANGED <<answer, due, kills>>
    BY <1>1, <2>1, <2>2
  <2>3. CASE Finish(c, "script") \/ Finish(c, "error")
    <3>1. CASE answer[c] # "none"
      BY <1>1, <2>1, <2>3, <3>1 DEF Finish
    <3>2. CASE answer[c] = "none"
      <4>1. answer'[c] # "none" /\ \A d \in Call \ {c} : answer'[d] = answer[d] /\ due'[d] = due[d]
        BY <2>1, <2>3, Finished
      <4> QED BY <2>1, <3>2, <4>1, AnsweredInTime
    <3> QED BY <3>1, <3>2
  <2> QED BY <1>6, <2>2, <2>3 DEF Deliver, WatchdogFires
<1>7. ASSUME NEW c \in Call, Loads(c) \/ Posts(c) \/ Breaks(c) \/ Killed(c) PROVE Spent'
  <2>1. /\ answer' = answer /\ due' = due /\ now' = now /\ cut' = cut
        /\ \A d \in Call : thread'[d] = "none" <=> thread[d] = "none"
    BY <1>7 DEF Loads, Posts, Breaks, Killed, Alive, Inv, TypeOK
  <2> QED BY <2>1 DEF Spent, Pending, Turn
<1>8. CASE UNCHANGED vars
  BY <1>1, <1>8 DEF vars, perCall
<1> QED BY <1>2, <1>3, <1>4, <1>5, <1>6, <1>7, <1>8 DEF Next

\* After the deadline, each call that was left takes at most its time.
THEOREM OverrunBoundedHolds == Spec => []OverrunBounded
<1>1. Init => Spent
  BY DEF Init, Spent, Pending, Turn
<1>2. Inv /\ Spent => OverrunBounded
  <2> SUFFICES ASSUME Inv, Spent, cut.on, NEW c \in Call, Pending(c)
               PROVE  now <= cut.at + (c - cut.done) * Each
    BY DEF OverrunBounded, Each
  <2>1. now <= due[c] /\ due[c] <= cut.at + (c - cut.done) * Each
    BY DEF Inv, Stage, Spent
  <2>2. now \in Nat /\ due[c] \in Nat /\ cut.at \in Nat /\ c - cut.done \in Int
    BY DEF Inv, TypeOK, Call
  <2>3. (c - cut.done) * Each \in Int
    BY <2>2, OneMore
  <2> QED BY <2>1, <2>2, <2>3
<1> QED BY <1>1, <1>2, SpentKept, InvHolds, PTL DEF Spec

\* A thread is terminated exactly once, when its call is answered.
THEOREM TerminatedOnceHolds == Spec => []TerminatedOnce
<1>1. Inv => TerminatedOnce
  BY DEF Inv, TypeOK, Stage, Pending, TerminatedOnce
<1> QED BY <1>1, InvHolds, PTL

\* At most one thread is alive that has not been told to stop, and it is the
\* one whose call is out.
THEOREM NoThreadForgottenHolds == Spec => []NoThreadForgotten
<1>1. Inv => NoThreadForgotten
  <2> SUFFICES ASSUME Inv, NEW c \in Call, thread[c] \in Alive, kills[c] # 1
               PROVE  Pending(c) /\ \A d \in Call : thread[d] \in Alive /\ kills[d] = 0 => d = c
    BY DEF NoThreadForgotten
  <2>1. \A d \in Call : thread[d] \in Alive /\ kills[d] # 1 => thread[d] # "none" /\ answer[d] = "none"
    BY DEF Inv, Stage, Alive
  <2>2. ASSUME NEW d \in Call, thread[d] \in Alive, kills[d] = 0 PROVE d = c
    BY <2>1, <2>2 DEF Inv, Serial, Call
  <2> QED BY <2>1, <2>2 DEF Pending
<1> QED BY <1>1, InvHolds, PTL

\* A verdict that was posted is only lost to a watchdog that is due.
THEOREM ScriptIsHeardHolds == Spec => ScriptIsHeard
<1>1. Inv /\ [Next]_vars =>
        [\A c \in Call : answer[c] = "none" /\ answer'[c] = "error" /\ mail[c] = Replied =>
           now >= began[c] + TimeoutMs + GraceMs]_vars
  <2> SUFFICES ASSUME Inv, Next, NEW c \in Call,
                      answer[c] = "none", answer'[c] = "error", mail[c] = Replied
               PROVE  now >= began[c] + TimeoutMs + GraceMs
    BY DEF vars
  <2>0. thread[c] # "none"
    <3>1. Replied # <<>>
      BY DEF Replied
    <3>2. thread[c] = "none" => mail[c] = <<>>
      BY DEF Inv, Stage
    <3> QED BY <3>1, <3>2
  <2>1. ASSUME NEW d \in Call, Deliver(d) PROVE FALSE
    <3>1. d = c
      BY <2>1 DEF Deliver, Finish, Inv, TypeOK
    <3>2. Head(mail[c]) = "message"
      BY DEF Replied
    <3> QED BY <2>1, <3>1, <3>2 DEF Deliver, Finish, Inv, TypeOK
  <2>2. ASSUME NEW d \in Call, WatchdogFires(d) PROVE now >= began[c] + TimeoutMs + GraceMs
    <3>1. d = c
      BY <2>2 DEF WatchdogFires, Finish, Inv, TypeOK
    <3>2. due[c] <= now
      BY <2>2, <3>1 DEF WatchdogFires, Fires
    <3>3. due[c] = began[c] + TimeoutMs + GraceMs
      BY <2>0 DEF Inv, Stage, Pending
    <3> QED BY <3>2, <3>3 DEF Inv, TypeOK
  <2>3. ASSUME NEW d \in Call, SpawnThrows(d) PROVE FALSE
    BY <2>0, <2>3 DEF SpawnThrows, Turn, Inv, TypeOK
  <2>4. CASE Tick \/ RunCut \/ \E d \in Call : Evaluate(d) \/ Loads(d) \/ Posts(d) \/ Breaks(d) \/ Killed(d)
    BY <2>4 DEF Tick, RunCut, perCall, Evaluate, Loads, Posts, Breaks, Killed
  <2> QED BY <2>1, <2>2, <2>3, <2>4 DEF Next
<1> QED BY <1>1, InvHolds, PTL DEF Spec, ScriptIsHeard
-----------------------------------------------------------------------------
(* The evaluations, as calls in turn. *)

Out == {c \in Call : Pending(c)}

\* At most one call is out; while it is some call's turn, none is.
LEMMA OneIsOut ==
  ASSUME Inv, NEW c \in Call
  PROVE  /\ Pending(c) => Out = {c}
         /\ Turn(c) => Out = {}
<1>1. ASSUME NEW d \in Call, Pending(d), Pending(c) PROVE d = c
  BY <1>1 DEF Pending, Inv, Serial, Call
<1>2. ASSUME NEW d \in Call, Pending(d), Turn(c) PROVE FALSE
  BY <1>2 DEF Pending, Turn, Inv, Serial, Call
<1> QED BY <1>1, <1>2 DEF Out

LEMMA TurnIsTurn ==
  ASSUME Inv, NEW c \in Call, Turn(c)
  PROVE  InTurn!Turn(c)
BY OneIsOut DEF Turn, Out, InTurn!Turn, InTurn!Call, Call

\* An event that answers is the answer of the call that is out; any other is none.
LEMMA FinishIsSettle ==
  ASSUME Inv, NEW c \in Call, NEW v \in {"script", "error"}, thread[c] # "none", Finish(c, v), thread' = thread
  PROVE  [InTurn!Next]_(InTurn!vars)
<1>1. CASE answer[c] = "none"
  <2>1. Out = {c}
    BY <1>1, OneIsOut DEF Pending
  <2>2. answer' = [answer EXCEPT ![c] = v] /\ \A d \in Call : thread'[d] = thread[d]
    BY <1>1 DEF Finish
  <2>3. Out' = {}
    BY <2>1, <2>2 DEF Out, Pending, Inv, TypeOK
  <2>4. InTurn!Settle(c)
    BY <2>1, <2>2, <2>3 DEF Out, InTurn!Settle, InTurn!Tell
  <2> QED BY <2>4 DEF InTurn!Next, InTurn!Call, Call
<1>2. CASE answer[c] # "none"
  BY <1>2 DEF Finish, InTurn!vars, Pending
<1> QED BY <1>1, <1>2

LEMMA TurnsStep ==
  ASSUME Inv, [Next]_vars
  PROVE  [InTurn!Next]_(InTurn!vars)
<1>1. ASSUME answer' = answer, \A c \in Call : thread'[c] = "none" <=> thread[c] = "none"
      PROVE  [InTurn!Next]_(InTurn!vars)
  BY <1>1 DEF InTurn!vars, Pending
<1>2. ASSUME NEW c \in Call, Evaluate(c) PROVE [InTurn!Next]_(InTurn!vars)
  <2>1. Turn(c) /\ answer' = answer /\ thread' = [thread EXCEPT ![c] = "loading"]
    BY <1>2 DEF Evaluate
  <2>2. Out = {} /\ answer[c] = "none"
    BY <2>1, OneIsOut DEF Turn
  <2>3. Out' = {c}
    BY <2>1, <2>2 DEF Out, Pending, Inv, TypeOK
  <2>4. InTurn!Make(c)
    BY <2>1, <2>3, TurnIsTurn DEF Out, InTurn!Make
  <2> QED BY <2>4 DEF InTurn!Next, InTurn!Call, Call
<1>3. ASSUME NEW c \in Call, SpawnThrows(c) PROVE [InTurn!Next]_(InTurn!vars)
  <2>1. Turn(c) /\ answer' = [answer EXCEPT ![c] = "error"] /\ thread' = thread
    BY <1>3 DEF SpawnThrows
  <2>2. Out = {} /\ thread[c] = "none"
    BY <2>1, OneIsOut DEF Turn
  <2>3. Out' = {}
    BY <2>1, <2>2 DEF Out, Pending, Inv, TypeOK
  <2>4. InTurn!Settle(c)
    BY <2>1, <2>3, TurnIsTurn DEF Out, InTurn!Settle, InTurn!Tell
  <2> QED BY <2>4 DEF InTurn!Next, InTurn!Call, Call
<1>4. ASSUME NEW c \in Call, Loads(c) \/ Posts(c) \/ Breaks(c) \/ Killed(c)
      PROVE  [InTurn!Next]_(InTurn!vars)
  BY <1>1, <1>4 DEF Loads, Posts, Breaks, Killed, Alive, Inv, TypeOK
<1>5. ASSUME NEW c \in Call, Deliver(c) PROVE [InTurn!Next]_(InTurn!vars)
  <2>1. thread[c] # "none" /\ thread' = thread
    BY <1>5 DEF Deliver, Inv, Stage
  <2> QED BY <1>1, <1>5, <2>1, FinishIsSettle DEF Deliver
<1>6. ASSUME NEW c \in Call, WatchdogFires(c) PROVE [InTurn!Next]_(InTurn!vars)
  <2>1. thread[c] # "none" /\ thread' = thread
    BY <1>6 DEF WatchdogFires, Fires, Inv, Stage
  <2> QED BY <1>6, <2>1, FinishIsSettle DEF WatchdogFires
<1>7. CASE Tick \/ RunCut \/ UNCHANGED vars
  BY <1>1, <1>7 DEF Tick, RunCut, vars, perCall
<1> QED BY <1>2, <1>3, <1>4, <1>5, <1>6, <1>7 DEF Next

\* For any number of evaluations: each is answered once, by an event of its own
\* thread or by its own watchdog, after all before it and before any after it.
THEOREM AnswersInTurnHolds == Spec => AnswersInTurn
<1>1. Init => InTurn!Init
  BY DEF Init, InTurn!Init, InTurn!Call, Call, Pending
<1> QED BY <1>1, TurnsStep, InvHolds, PTL DEF Spec, AnswersInTurn, InTurn!Spec
=============================================================================
