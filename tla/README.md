# A TLA+ model of portcall

`portcall check` is run once, on somebody else's machine, to say whether a tool
will work there: it looks up names, opens connections, captures certificate
chains, tries the configured proxies and compares trust stores, and prints one
report with an exit code. Most of what can go wrong with it goes wrong between
two timers: every network call races a timer of its own and the deadline of the
whole run, and what came first decides whether the report blames the network or
the clock. This directory models that, checks it with TLC and proves the
important parts with TLAPS for every value of the constants.

Paths below are relative to `src/src/`.

## The parts of the system

| part | state | operations | talks to |
|---|---|---|---|
| network guard (`net/guard.ts`) | the map of permitted hosts and ports | constructor, `permit`, `isAllowed`, `isHostAllowed`, `assert*` | every seam, before its first phase |
| seams (`net/dns.ts`, `endpoint.ts`, `proxy-connect.ts`, `tls-capture.ts`, `pac-fetch.ts`) | per call: the phase, its timer, a TCP and a TLS socket, a lookup in the threadpool | `resolve`, `attempt`, `connectDetailed`, `openTunnel`, `capture`, `fetch` | the run signal, the guard, the network |
| engine (`engine/index.ts`, `registry.ts`, `rollup.ts`, `probe-error.ts`) | findings so far, the run's timer and signal, `observedAnchors` | `run`, `runProbe`, roll-up | calls the five probes in order |
| command line (`cli/*.ts`) | the exit code | `main`, `check`, `writeReport` | loader, engine, redaction, renderer |
| dns and egress probes (`probes/dns/`, `probes/egress/`) | one promise per host, DoH resolver and endpoint; their lookups in Node's thread pool | `runDns`, `checkHost`, `checkDoh`, `runEgress`, `reach`, the classifiers | resolver and endpoint seams, the pool |
| tls probe (`probes/tls/index.ts`) | one promise per target and path | `runTls`, `checkTarget` | capture seam; pushes into `observedAnchors` |
| proxy probe (`probes/proxy/`) | routes, a worker thread for the PAC script | discovery, PAC evaluation, CONNECTs one by one | PAC fetch, CONNECT and resolver seams |
| OS trust store reader (`net/os-truststore.ts`) | one child process at a time: output, kill reason, timer | `read`, `readOneStore`, `readLinuxCaBundle` | the run signal and the run's deadline |
| runtime store readers (`net/runtime-stores.ts`, `java-keystore.ts`) | none between reads | one read per runtime and store | the file system |
| truststore probe (`probes/truststore/`) | none | `runTruststore`, `crossCheck`, the findings about read failures | both readers, `observedAnchors` |
| chain evaluation (`probes/tls/evaluate.ts`, `public-roots.ts`) | none | `evaluateChain`, `compareChains` | the tls probe |
| profiles, redaction, renderers, argument parser | none | pure functions around the run | the command line |

What is hard about them, and what makes each correct:

* **seams**: five files, one discipline. A phase timer, the run signal and the
  network race in every phase; a lookup cannot be cancelled and answers later; a
  socket changes hands between `openTunnel` and `capture`; the allowlist grows
  while calls are on. Correct means: a call settles once, in bounded time, with
  the cause that came first; nothing is pending or open once the run is over;
  nothing is contacted that was not permitted.
* **engine**: `Promise.all` lets a throw overtake checks that are still running; the deadline
  fires anywhere; tls fills an array truststore reads. Correct means: a report accounts for
  every check, exit 0 means every check came to `ok`, and the cross-check reads what tls saw,
  all of it. The one thing that defeats it is a lookup begun after the deadline, which nobody
  handles and whose failure ends the process.
* **dns and egress probes**: everything is asked at once, over a pool of few threads
  that a lookup holds until the resolver answers, though nobody waits any more; codes,
  timers and the run's signal are weighed in an order. Correct means: what is said of a
  name or a path is true of it, the two probes do not contradict one another, and a name
  that is slow or silent takes neither the run nor other names with it.
* **OS trust store reader**: a child's exit, output, error, timer and the run's abort race;
  slices are cut from what is left by a clock that may be set. Correct means: slices leave the
  reserve, a verdict is about a child that ended in time, and the advice on a timeout ("raise
  `--timeout`" or "that would not help") is the right one.
* **proxy probe**: three ways to find a proxy shadow each other, every await may be
  the one the deadline cuts, lookups are cached and failures clustered. Correct
  means: no endpoint vanishes between discovery and report, a cluster says what is
  true of each of its endpoints, a required endpoint is never graded down, and what
  was cut proves nothing.
* **PAC sandbox**: a worker's message, error and exit race a watchdog, and the thread
  of one call may outlive its answer. Correct means: one answer in bounded time, one
  `terminate()`, a verdict that was posted is heard, and a run that is cut ends soon.
* **chain evaluation**: a peer sends certificates in any order, with loops and
  padding. Correct means: the verdict is about the way from the leaf, and silence
  means a chain a client would take.
* **cross-check**: which roots a runtime trusts depends on replace/add rules and
  on reads that failed, were capped or cut; whether a missing root is a blocker
  depends on anchors another probe observed. Correct means: `roots-present`, a
  blocker and a report that is ok all over are each earned.

## The modules

| module | what it is |
|---|---|
| `SeamContract` | what every seam promises its caller: idle, pending, then one of answered, refused, timedOut, cut, denied; a cancelled run leaves nothing pending |
| `SerialCalls` | what a loop that awaits its calls one by one may rely on: each is answered once, in order, at most one is out, and a signal that is heeded answers those that are left |
| `RunContract` | what a run promises to whoever reads its report or its exit code: probes reported in order and whole, one result for each check, one exit code, the worst of the report or 3; or, once the deadline has passed, the process dies with 1 of a lookup that nobody handles |
| `NetSeam` | the guard and the five seam files; refines `SeamContract` (`KeepsContract`) |
| `NetSeamProofs` | its theorems |
| `Engine` | one run, from the profile to the exit code; refines `RunContract` (`KeepsContract`) |
| `EngineProofs` | its theorems |
| `Reachability` | the dns and the egress probe over the pool of lookups, and their findings; its calls refine `SeamContract` too |
| `ReachabilityProofs` | its theorems |
| `OsTrustStore` | the OS trust store reader and the advice about timeouts; refines `SerialCalls` (`RowsInTurn`) |
| `OsTrustStoreProofs` | its theorems |
| `ProxyProbe` | discovery, PAC evaluation, CONNECTs and the clustered report |
| `ProxyProbeProofs` | its theorems |
| `PacSandbox` | the worker threads, their mail and the watchdog; refines `SerialCalls` (`AnswersInTurn`) |
| `PacSandboxProofs` | its theorems |
| `TlsVerdict` | what is said of one captured chain, as operators |
| `TlsVerdictProofs` | theorems about the walk of a chain, of any length |
| `Keystore` | what `readKeystore` takes from a JDK's `cacerts`, as operators |
| `CrossCheck` | captures, anchors, the two readers and `crossCheck`; extends `TlsVerdict` and `Keystore` |
| `CrossCheckProofs` | its theorems |
| `MCNetSeam`, `MCEngine`, `MCReachability`, `MCOsTrustStore`, `MCProxyProbe`, `MCPacSandbox`, `MCCrossCheck` | the instances TLC checks |

The modules fit together as the code does: `NetSeam` proves of a single call what `Engine` takes
for granted of it (a call settles, and an abort cuts everything that is out at once:
`DeadlineHeld`), and `OsTrustStore` what `ReadStores` of `Engine` takes for granted
(`ReadReturns`). `ProxyProbe` lets an awaited call settle with anything `NetSeam` and
`PacSandbox` can answer, and `ProbeReturns` is what the proxy check of `Engine` takes for
granted. The orphaned lookup of `NetSeam` (`StartLate`) is `loose` in `Engine`, with the death
of the process that it may come to. `CrossCheck` is the inside of the tls and truststore checks
of `Engine`: which anchors, which stores, which findings. `Reachability` is the inside of its
dns and egress checks, with the seams of `NetSeam` as phases that have a timer, and composes the
two probes through what they share, the threads and the clock. Whether and when checks run is
said once, in `Engine`.

Three abstract specifications say what the parts promise one another, and the whole its
user. `SeamContract` is
a network call as its caller sees it; `NetSeam` implements it with every phase, socket and
late lookup, and `Reachability` implements it again with the calls of two probes made
together (`Begin(together)`) over one pool of threads: what the pool adds is invisible to a
caller. `SerialCalls` is a loop that awaits its calls one by one; the rows of the trust
store's table and the evaluations of a PAC script implement it, though a child's `close` or
a thread's `exit` may come long after its answer. The mappings say how the two differ: a row
is answered `aborted` by the run's signal; a Linux bundle and `sandbox.evaluate` heed no
signal, so for them the signal of the loop never fires.
`RunContract` is a run without its stages, timers, captures and anchors; `Engine` implements
it. A check's result is open there until it settles, whichever of an answer, a throw, the
deadline or a refused host settles it, and a probe is in the report, with all its checks or
as an error, from the moment `cur` has gone past it. A contract that the code kept without
exception would have no `Die`; the code has it, so `RunContract` says how narrow it is: the
deadline has passed, a probe other than the last began a lookup after that, and the exit
code is 1.

### NetSeam

A call is a record of `Requests`: the seam, what is asked about (`target`) and
what is dialled (`dial`, the proxy for a CONNECT). `Phases` is the straight line
of phases each file walks; `BudgetOf` the timer of each phase, with the
borrowings of the code (dns runs on the connect budget; CONNECT on the http
budget in `connectDetailed` and on the connect budget in `openTunnel`).

* `Start` is a call up to its first await: guard, `permit`, `phaseSignal`, and the
  `lookup` handed to the threadpool. `StartLate` is the same call on a run signal
  that has fired: `raceAbort` throws on its first line, but its argument has been
  evaluated. `Deny` is a guard that throws, `RejectUrl` a PAC URL that does not
  parse.
* `Advance`, `Complete`, `Fail`, `Decline` are the network's answers; `Advance`
  into the tls phase of a tunnelled capture is the hand-over of the socket.
* `PhaseTimeout` and `RunAbort` fire the signals. One step is a macrotask with
  the microtasks it drains, so an abort settles every pending call at once and
  runs every `finally` (`SocketAfter`, `SecureAfter`).
* `LateAnswer` and `LateRejection` are the threadpool answering a call that is
  over. `crashed` is Node's default for a rejection nobody handles. Nothing follows a crash,
  so `KeepsContract` holds there only because it asks nothing more; what a crash means for
  the run is said in `Engine`.

Timers are prompt: one that is due fires before the clock moves (`Tick`). The
model therefore says nothing of an event loop that is blocked for long.

### Engine

`work` says what became of each check (a host to look up, an endpoint, a tls
target, and one each for proxy and truststore), `leg` of the two captures of a
target. The guard refusing a host is a check that throws before anything else
(`BeginProbe`). `ProbeReturns` and `ProbeThrows` are `runProbe`; what a probe that
threw left behind goes on as a straggler. `Expire` is the deadline: it cuts
every lookup, attempt and capture; `ReadStores`, `CrossCheck` and the proxy check
go on. A check that begins after it is cut, but its lookup has been started and nobody
handles it (`net/dns.ts:95,131`, the run `netseam_unhandled`): `loose`, set by `BeginProbe`
(`StrandsLookup`) and by a proxy probe that goes on (`ProxyGoesOn`). `LooseAnswers` clears it,
`LooseFails` ends the process with exit code 1 and stage `died`, at any moment and also
after the report was written, as Node does by default. `PipeHeld` is an OS reader whose
child left its output to a descendant: `close` does not come, whatever the deadline does,
until `PipeReleased`. `FinishProbes` includes `assertRemediable`, which may throw out of `run`.
Findings are `[from, severity]`: the wording is left out and `Verdicts` says which
severities a check may come to, `unknown` always among them. A check that makes
several findings is represented by one.

### Reachability

A call is a lookup of a host (`resolve`), a check of a DoH resolver (`doh`) or an attempt
at an endpoint (`egress`); `Begin` starts all calls of a probe and `End` or the next
`Begin` waits for all (`Promise.all`, and the engine's loop). `phase` is how far a call
has come and `since` when its timer was set; `result` is what `EndpointAttempt` and
`DnsOutcome` keep of it. `lookup` is the other half of the dns phase: the `getaddrinfo` in
the pool, `queued`, `asked` (it holds a thread) or `answered`. `raceAbort` settles the call
and not the lookup, so `PhaseTimeout` and `RunAbort` leave `lookup` alone and
`Answers` frees a thread whether or not its call still waits. A probe that begins on
a run that is over starts its lookups all the same.

`world` says of each name how long the resolver takes, what it answers and with what
addresses, and of each attempt the phase it ends in and how; it does not change
during the run. Codes are the classes the two classifiers tell apart, addresses the
classes of `classifyAddress`. The findings are operators on `result`, in the order of the
code: `ResolveVerdict`, `EvaluateDoh`, `EgressClass`, `Judge`. The threads are Node's and
the one thing here that is not in the repository: `Workers` of them (libuv's default
is four, and nothing in the repository sets it), any waiting lookup first.

### OsTrustStore

`at` walks the rows of the command table (or `path` the Linux bundles). The loop never yields
between an outcome and the next row's first await, so no timer fires there (`Busy`). `child` is
none, live, or dead with its `close` event to come; `killed` is the first reason. A spawn that
fails is the `error` event (`SpawnFails`); a `spawn` that throws synchronously rejects `read`
and is the throw of `ReadStores` in `Engine`. SIGKILL is always delivered, but when the child
dies of it is open; a process it left behind may hold its output open (`held`), and `close` does
not come before `PipeIsClosed`. Timers and the abort count `now`, the deadline and durations are
read off `Wall`, and `ClockStep` sets the machine's clock once, at any moment; the invariants
state what that costs (`Back`, `Ahead`). The files of the Linux branch do not change during the
read, and that branch has no timer: neither has the code.

### ProxyProbe

The probe has one thread of control and `pc` is the call it awaits: the fetch of
the script, a lookup, an evaluation, a CONNECT. `Start` is `runProxy` up to its
first await and picks the leg (configured PAC, environment, WPAD); `FetchReturns`,
`ResolveReturns`, `Evaluated` and `ConnectReturns` are what follows each await, up
to the next. `RunAbort` may fall at any of them; calls made later are cut too
(`Answers`), but `sandbox.evaluate` takes no signal and goes on. `cache` is
`resolvedCache`, where null is an answer. `via` is what discovery said of each
endpoint and `attempt` what the CONNECT of its route came to. The findings are
`Report`, a value of that state: nothing reads them before the probe is done. A
finding keeps the endpoints it names, its id and its severity; a destination named
by host alone has port 0.

### PacSandbox

A call has a thread (`loading`, `running`, `dead`), a queue of the events that the
main thread has not handled yet (`mail`) and a watchdog (`due`). Node delivers the
message of a worker before its exit, which `Replied` says; a script that posts may
find the watchdog due before its message is handled, and `ScriptIsHeard` is about
that. `Finish` answers once, clears the watchdog and terminates. `Killed` is
`terminate()` taking effect, at any time after. `RunCut` is the deadline, which no call
hears of; but between two calls there is only a lookup, which a signal that has fired
settles at once, so the clock does not move then (`Waiting`).

### TlsVerdict, Keystore and CrossCheck

A certificate is its names, dates and identity; two are the same bytes exactly when
they are equal, and `Junk` stands for bytes that do not parse. No signature is looked
at: neither does the code. `IssuancePath` is the walk of `issuancePath`, first
match, no certificate twice; `Class`, `Anchor` and the `...Findings` operators are
the functions of the same names. Times are in half days around the run, so that
"expired", "expires within the warning" and both their edges are there.

A keystore is its format and its parts in the order of the file: certificates that lie open,
those of a key's chain (`rider`, open bags of PKCS#12; in JKS the chain is a part of the key's
entry), keys, sealed certificates, or the reason why the walk breaks at a part that makes no
sense. `Reached` is how far the two walks go, `ReadKeystore` what they make of it: a defect
costs everything, sealed contents only themselves, and the walk stops at `MaxCertificates`.
Where bytes stop making sense is data.

In `CrossCheck`, `world` is what lies on the machine: the OS stores, the files that
the variables point at, the certifi bundles and the keystores, each with a state
(unset, absent, unreadable, too large, there) and its blocks or parts. `CaptureSettles` and
`CheckTarget` are `checkTarget` of the tls probe, two captures for a target, in any
order over all targets. `ReadOsStore` is one row of the OS reader and may be cut short;
`ReadRuntime` is `runtimeStoreReader.read` for one runtime; `Compare` is `crossCheck`,
whose report is `threw` when a block does not parse. `TrustSets` is the replace/add
rule. Readers and comparison take their input as parameters, as the functions of the
code do, which is also what makes them easy to prove about.

## What TLC checks

| run | instance | what it shows |
|---|---|---|
| `netseam` | two calls out of eleven kinds, three endpoints (one declared, one port of the same host undeclared, one proxy), deadline 3, clock to 4; 181 842 states | `TransportOwned`, `OnlyPermittedContacts`, `CauseIsTruthful`, that the seams implement `SeamContract`, and `EveryCallSettles` though the network never answers |
| `netseam_unhandled` | one call | finds the unhandled rejection of a late resolve |
| `engine` | one host, two tls targets with two captures each, every severity, a lookup begun after the deadline, a held pipe; 1 269 494 states | `ReportIsComplete`, `ExitCodeHonest`, `AnchorsComplete`, `NothingOutlivesTheDeadline`, that the engine implements `RunContract`, and `RunEnds` (or the pipe is held for good) |
| `reachability` | two hosts, three endpoints (443, 5432, 80; one required), a DoH resolver, so six lookups over two threads; 54 networks; clock to 12; 464 392 states | `BystandersAreSpared`, `VerdictsAreEarned`, `NamesAgree`, `TimeIsShared`, that the calls implement `SeamContract`, and `ProbesReturn` |
| `os_truststore` | two rows with ceilings 3 and 2, reserve 2, deadline 8, two Linux paths, the clock set back by 3 or ahead by 1; 875 549 states | `ReserveKept`, `AbortedMeansUnread`, `VerdictsAreInTime`, `AdviceIsRight`, `RowsInTurn`, `ReadReturns` |
| `proxy_probe` | three endpoints of one host (443 optional, 443 required, 80), two proxies, 37 environments; 176 349 states | `EveryEndpointReported`, `ClustersAreTrue`, `RequiredIsLoud`, `AllClearIsEarned`, `EachOnce`, `ProbeReturns` |
| `proxy_none_configured` | the same | finds a lookup that was cut and is read as "no proxy is configured" |
| `proxy_rejected` | the same | finds a proxy that never answered and is said to have refused |
| `pac_sandbox` | two evaluations, budget 2, grace 1, clock to 8; 54 863 states | `OverrunBounded`, `ScriptIsHeard`, `AnswersInTurn`, `EveryThreadEnds` |
| `cross_check` | one target on two paths, 15 captures, 31 machines, four runtimes, two entries of a listing, two certificates of a keystore; 121 006 states | `PresentIsEarned`, `BlockerIffServed`, `AllClearIsEarned`, `ThrowsOnlyForJunk`, `QuietMeansAcceptable`, `PaddingChangesNothing`, `OrderChangesNothing` |
| `cross_check_silent` | one Linux machine whose certifi bundle cannot be read, and is otherwise plain | finds a report that is ok all over, names Node, Go and Java and says nothing of Python nor of its bundle |
| `cross_check_dir` | two Linux machines with a certificate directory of three and of two files, of which two are opened | finds a blocker for Go for a root that lies in a file that was not opened |

Why the bounds are enough. Calls of a seam share only the clock, the run signal and the
allowlist, so two of them show every interaction there is; the budgets 1, 2, 1 make each phase's
timer due at, before and after a deadline of 3, and every phase of the longest seam is reached.
In the engine one host and two targets give fan-outs of one and two, two captures each, so that
one can throw while three are out; the deadline is not timed and fires in every state. The
reader is called at every tick from 0 to past the deadline, so that both, one or no ceiling
fits; more rows repeat the same loop; the clock is set back by more than the reserve, or ahead
by less. In `reachability` two threads serve six lookups, so that one probe can fill them,
abandon them and leave the next one waiting; names take no time, long enough to be slow, or for
ever, each of the three of them, and beside these networks there is one for each thing a name
may be and each way an attempt may end. The proxy probe needs a host on two ports to tell
caching by host from routing by endpoint, an endpoint declared twice to tell `required` merged
from `required` overwritten, and two proxies to tell clusters apart; the 37 environments are
every mixture of unset, junk and set variables with every bypass. Two evaluations show a thread
that lives on into the next call. One target has two captures, which is where order matters, for
judged targets only add to a set; the 31 machines differ from a plain one in what one or two
stores hold, so that each rule (replaces, adds, capped, partial, sealed, a defect, absent,
unreadable, too large, junk) decides a verdict of its own, and the 15 captures do the same for
the walk. The theorems do away with all of these bounds. In the runs the clock stops at
`MaxTime` and a run that is over stops, which is why they do not check for deadlock.

Fairness. `netseam` asks only that the clock moves and timers fire, which the event loop does.
`engine` asks that every call settles (that is `EveryCallSettles`), that the readers come back
as long as no pipe is held (`ReadReturns`, which has the same condition) and that runnable code
runs; not that the deadline ever fires, that a held pipe is let go (`PipeReleased`), nor that a
loose lookup answers or fails. So `RunEnds` has two ends: an exit code, or a reader that is held
for good. `reachability` asks that the clock moves, timers fire, threads take and deliver what
they can and the probe loop goes on; nothing of the network and not that the deadline comes.
`os_truststore` asks the same of the loop and of timers, and that a child that was killed ends
and its `close` event comes when its output is closed; nothing of a child that was not killed,
nor of a process that holds the output, which `ReadReturns` has as its condition. `proxy_probe`
asks that a call that is awaited settles and the code after it runs (`EveryCallSettles`,
`AnswerInTime`), not that the abort comes. `pac_sandbox` asks that timers and queued events are
handled and that a thread that was told to terminate does; not that a script ever returns.

## What is proved

All theorems hold for any number of calls, endpoints, targets or rows and any
budgets and deadlines, from the assumptions named in the modules
(`BudgetAssumption`, `RequestAssumption`, `ChecksAssumption`, `VerdictsAssumption`,
`ReachabilityAssumption`, `TableAssumption`, `SettingAssumption`, `SandboxAssumption`,
`CertAssumption`, `CapAssumption`, `MachineAssumption`). Every invariant and every action
property that a run checks is a theorem, and so are the five refinements. The type
invariants are theorems of every module (`TypeCorrect`) and in no run.

* `NetSeamProofs`: type correctness; `TransportOwned` from an invariant that ties each socket to
  the phase and to its owner; `WithinBudget` and `DeadlineHeld` from `Timing` (the time spent is
  at most the budgets of the phases behind, the timer of the current phase is still ahead, and
  after the abort nothing is pending); `CauseIsTruthful` action by action from the same
  invariant, which is needed to know that a timer cannot be late; `OnlyPermittedContacts` from
  what is known of `allowed` before each call (`PolicyInv`, `BegunIsPermitted`,
  `OpenedIsPermitted`): `permit` is global and permanent, so what is shown is that a call begins
  on what the profile names or some call made before admitted, not that it admitted it itself;
  and `KeepsContract`: every step of the seams is a step of `SeamContract` or none.
* `EngineProofs`: `Ledger` says that probes behind the current one are accounted
  for, those ahead are untouched and what a check came to is kept. It is needed
  because findings say nothing of stragglers: `ReportIsComplete` and
  `StragglersBelongToErrors` follow. `Observed` (the anchors are those of judged
  captures), `Reading` and `ReadWhole` give `AnchorsComplete`; `Decided` gives
  `ExitCodeHonest`; `NothingOutlivesTheDeadline` is inductive with the types.
  `NothingTakenBack` puts together what each step keeps (`Kept`, `LegsKept`, `Grows`), which
  needs `Untouched` and `Waiting` of the ledger: a probe that begins overwrites the state of
  its checks, a capture that throws that of its target. `NeverStuck` follows from `Entered`
  (a target that runs has its captures made and none has thrown, truststore is at a store).
  `KeepsContract` comes step by step: `Untouched` says that no check settles before the turn
  of its probe and `Kept` that none settles twice (`ComesOrStays`, which covers the deadline,
  stragglers and the start of a probe at once), `Order` that the exit code is told once and
  only at the two moments where there may be no report (`ExitsInTurn`). The lookups that nobody
  handles are followed by `LooseLeaves`, `LooseComesLate` and `DiesAdrift`: `loose` comes up
  only past the deadline, before the last probe and before there is an exit code, and only a
  process with one out can die.
* `ReachabilityProofs`: `Course` (a call that is out, or over, has behind it what the network
  made of it, a timer or the signal), `Order` (the probes take turns, and once a call was
  cut so is every later one) and `Pool` (a call in its dns phase has its lookup in the pool)
  go with the types. `VerdictsAreEarned` and `NamesAgree` follow from the first two by the
  cases of the classifiers. `BystandersAreSpared` needs `Waits`: time can only pass while
  a lookup that would be answered at once is waiting if every thread is with a slow one
  (`TickStarves`, by the cardinality of the pool), and slow lookups only become more
  (`StarvedStays`). `TimeIsShared` is `Timing`: how long a call is out before each phase is
  at most the budgets behind it. `KeepsContract` maps each step to one of the contract, with
  `Order` to know that a call that begins is idle.
* `OsTrustStoreProofs`: `Cut` (output past the limit has killed the child) makes the types
  inductive. `Work` says of a living child what its slice was cut from and where the clock is in
  it, so that the abort of a run finds a child that nothing has killed only where the clock was
  set back by the reserve: `ReserveKept`. `Told` says that the outcomes are the table's rows so
  far and each is fair to its row: `AbortedMeansUnread`, `VerdictsAreInTime`, `AdviceIsRight`.
  `RowsInTurn` maps each step to one of `SerialCalls`; it needs `OneFile` besides: a bundle is
  the one call of its platform, and a child that the signal killed was killed after it.
* `ProxyProbeProofs`: `Progress` ties `via` to the leg and to how far the probe is: while
  it asks, the endpoints behind are decided and those ahead are not; when it
  connects, every routed one has an attempt or is still ahead. It is needed because the
  report is made from the last state: `EveryEndpointReported`, `RequiredIsLoud` and
  `AllClearIsEarned` are facts about a finished probe. `Shared` (endpoints of one route
  have one attempt) gives `CutProvesNothing`, `Uncached` gives `OneAnswerPerHost`; the two of
  them and `Progress` give `EachOnce`, for a tunnel that is tried is tried for all that
  share it and a lookup that is made was not made before. `NeverStuck` follows from `Left`
  by taking the least of the endpoints that are left (`LeastEndpoint`).
* `PacSandboxProofs`: `Serial` (only the last call that began is open) and, per call, `Stage`: a
  call that is out has its watchdog set for the end of its time, which the clock has not passed,
  and was never told to terminate; one that was answered has none, and was told once. Without it
  the types are not inductive (a second `terminate()` could not be ruled out), and
  `AnswerInTime` follows from it. `Spent` counts the watchdogs since the cut, one for each call:
  `OverrunBounded`. `AnswersInTurn` maps each step to one of `SerialCalls`: `Serial` says that
  the call that is answered is the one that is out, and events of threads whose call is over map
  to no step.
* `TlsVerdictProofs`: the walk of `issuancePath` over a chain of any length. `Walk` is a
  recursive function of the number of turns, so each theorem is an induction over turns, which
  is made with the set of the numbers for which the fact holds (`NatSetInduction`, from the
  well-foundedness of `<`), because the library's induction theorem takes an operator. The
  path is a way by issuer and subject that visits nothing twice (`IssuancePathIsWay`), hence
  no longer than the chain, hence ended by as many turns as there are certificates
  (`IssuancePathEnds`, by counting); `PublicIsProved`; what comes behind a chain that ends
  in a self-signed certificate is never reached (`PaddingIsIgnored`); a chain about which
  nothing but ok is said is valid and leads to a bundled root (`QuietChainHolds`); and two
  orders of the same certificates take the walk to the same ones, turn by turn
  (`OrderIsIgnored`). The last one has a hypothesis, that no two certificates of the chain bear
  the same name, and does not hold without: of `<<Under, Sub, Cross, Root>>` in `MCCrossCheck`
  `Class` is `public`, and with `Sub` and `Cross` swapped it is `private`.
* `CrossCheckProofs`: `Sources` says where what is held comes from: each store is what the
  machine has or was cut, and a report is the comparison of exactly these stores with exactly
  these anchors. The types alone do not say it. From there each property is a fact about one
  state, from lemmas on the readers (`ReadPemFacts`, `ReadDirFacts`, `ReadKeystoreFacts`,
  `ReadJavaCacertsFacts`, `OutcomeStored`), the sets (`TrustSetFacts`, `TrustSetsNamed`: no two
  sets of a runtime are called the same, so a finding belongs to one of them), the roots
  (`LocallyAddedIs`) and the anchors (`CorrelatedIsServed`: the match by bytes adds nothing to
  the match by name of a private chain). `ThrowsOnlyForJunk` follows the junk from the set that
  holds it to the store it was read from. `QuietMeansAcceptable`, `PaddingChangesNothing` and
  `OrderChangesNothing` are the theorems of `TlsVerdictProofs` about the chains that were
  captured; the others use the walk by name only and hold whatever `IssuancePath` computes.
  `KeystoreIsReadWhole` is about `ReadKeystore` alone, for keystores of any number of parts: a
  walk that met no defect and is not full has come to every part, by the least part it did not
  come to (`WalkIsWhole`), and it is never more than full (`CapIsKept`). So a keystore without a
  failure is all there or is at its cap, and its cap is what `partial` does not tell (see
  below).

Proved and in no run, because a property of a run implies them or another one is the better
test: `DeadlineHeld` (every call ends with the run) and `WithinBudget` of `NetSeam`,
`StragglersBelongToErrors`, `NothingTakenBack` and `NeverStuck` of `Engine`, `CutProvesNothing`,
`OneAnswerPerHost` and `NeverStuck` of `ProxyProbe`, `AnswerInTime`, `TerminatedOnce` and
`NoThreadForgotten` of `PacSandbox`, the types, `KeystoreIsReadWhole` and the theorems of
`TlsVerdictProofs`.

Only model-checked: the liveness properties (`EveryCallSettles`, `RunEnds`, `ProbesReturn`,
`ReadReturns`, `ProbeReturns`, `EveryThreadEnds`), which need fairness. Of `RunEnds` and
`ProbeReturns` the halves that need none are proved: nothing is waited for that cannot come
(`NeverStuck`), and no step is taken back or made twice (`NothingTakenBack`, `EachOnce`).
That the steps that are left are then taken is fairness, and TLC's.

## What the runs found

* `netseam_unhandled`: `raceAbort` (`net/dns.ts:94-95`) throws before it races when
  the signal has fired already, and its comment's promise that a late rejection
  "never surfaces as an unhandled rejection" fails: the lookup was started by its
  argument and nothing listens to it. Any lookup begun after the deadline is one; in `Engine` its
  failure ends the process with exit code 1 and, if that is before the report, none is written.
* `proxy_none_configured`: every WPAD fetch that fails in phase dns becomes the ok
  finding `proxy.none-configured` (`probes/proxy/index.ts:179`), also one whose lookup
  was cut with the run or by its own timer.
* `proxy_rejected`: `classifyConnect` (`probes/proxy/index.ts:351`) calls every failure in
  phase tunnel but a 407 `rejected`, silence until the timer fired included, and the
  finding says that the proxy answered.
* `cross_check_silent`: a certifi bundle that was found and cannot be used counts as
  located, so `store-not-found` is withheld, and has no finding of its own
  (`probes/truststore/evaluate.ts:977`). In the trace Python has no other store and is not
  in the report, which is ok all over.
* `cross_check_dir`: `certDirStore` (`net/runtime-stores.ts:333`) opens no more than its limit
  of files and skips those it cannot read without saying `partial`, so a root in a file that was
  not opened is reported as missing, and as a blocker. In the trace the second of three files
  cannot be read and the third, which holds the root, is past the limit.

Differences met on the way that no run is about: "the four earlier probes" in the text about a
store that was skipped (`probes/truststore/evaluate.ts:284`), when the first store of the reader
itself may have spent the time; `certificateIndex` (`probes/shared/root-index.ts:81`) throws on
one certificate that does not parse, which costs the findings of the whole probe (modelled as
`IndexThrows`); a variable that does not parse takes its endpoints out of the report without a
word (the exception `EveryEndpointReported` names); a lookup that was cut hands the PAC script
the null of a name that does not exist; of two certificates with the same name `issuancePath`
(`probes/tls/public-roots.ts:90`) takes the first and never goes back, so the two cross-signed
CAs of `test/tls-public-roots.test.ts:208-222` in the other order lead to an issuer that was not
presented and the chain is called private, though the comment there says that "following either
reaches the same bundled root"; a keystore walk that stops at `MAX_KEYSTORE_CERTIFICATES`
(`net/java-keystore.ts:320`) does not say `partial`, the same gap as that of `cross_check_dir`,
so a blocker for Java may be about a root that was not come to; `extractCertFromBag`
(`net/java-keystore.ts:282-300`) takes every open certificate bag of a PKCS#12 file, those of a
private key's chain among them, though the head comment (`:17-20`) says of that chain that it
"is plain DER too, and is still skipped": Java does not take it for an anchor, so
`roots-present` may be said of a root that Java does not trust (`Riders`, the exception that
`PresentIsEarned`, `AllClearIsEarned` and `ThrowsOnlyForJunk` make). "The watchdog firing is
itself the observation: the resolver never answered" (`probes/dns/index.ts:195`) is not so for a
name whose lookup never left the queue of the pool: `BystandersAreSpared` says when that is.
"`malformed` cannot appear here" (`probes/dns/index.ts:170`) rests on `isIP`, which takes an
IPv6 address with a zone that `classifyAddress` does not, so such an answer is said to be a
public address. `readMs` is a difference of wall-clock times and may be negative after a clock
step.

## What is not modelled

* Argument parsing and help end before any state exists; redaction and the renderers are
  pure functions of a finished report. Nothing in them is ordered or concurrent, and
  their subject is text.
* Texts: the wording of findings, their evidence beyond what a property tells apart, the
  order of a report (`sortFindings`).
* Bytes: DER and PEM, the framing of CONNECT, HTTP headers, the parsing of addresses, of
  `NO_PROXY`, of proxy URLs and of schemes. The models take what such a parser may
  answer; what it answers for which text is a question for a unit test.
* The evaluation of a PAC script, which answers anything, and the body of a PAC fetch
  as it arrives (`NetSeam` takes it as one phase).
* The network and the machine do not change during a run: names resolve to the same
  answer for both probes, and the readers of `CrossCheck` read files that stay as they are.
* The machine's clock steps at most once in a run.
* The event loop is never blocked for long: timers that are due fire before the clock moves.

## Plan

Done, in the order of their weight: `NetSeam`, `Engine`, `OsTrustStore`, `ProxyProbe` with
`PacSandbox`, `TlsVerdict` and `Keystore` with `CrossCheck`, `Reachability`, each with its
runs and its proofs. Left, in this order:

1. `Reachability` over `NetSeam`: the same calls with their sockets on one clock, so that
   the phases it takes for granted are checked by composition and not by reading.
2. An abstract specification of the proxy probe (every routed endpoint gets exactly
   one verdict, in time) that `ProxyProbe` over `PacSandbox` implements.
3. The PAC fetch: the body as it arrives, against `maxBytes` and the timer
   (`net/pac-fetch.ts`).
4. A run for the comment at `probes/dns/index.ts:195`, and readers with files that
   change during the run.
5. Proofs: of `ReadReturns` and `EveryThreadEnds`, the halves that need no fairness, as for
   `RunEnds` (that of `ProbesReturn` is `TimeIsShared`: each call has a timer that is due).
