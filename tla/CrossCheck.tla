---------------------------- MODULE CrossCheck ----------------------------
(***************************************************************************)
(* From the captured chains to what the report says each runtime trusts:   *)
(* checkTarget of probes/tls/index.ts, the runtime store readers           *)
(* (net/runtime-stores.ts) and probes/truststore/evaluate.ts.              *)
(*                                                                         *)
(* world is what lies on the machine; nothing changes it during the run.   *)
(* The captures settle in any order and any of them may fail; then the OS  *)
(* stores are read, each of which may be cut short; then the stores of     *)
(* each runtime; then everything is compared.                              *)
(***************************************************************************)
EXTENDS TlsVerdict, Keystore

CONSTANTS
  Targets,    \* the hosts whose chains are captured
  Required,   \* those the profile calls required
  Captures,   \* what a capture may come to when it does not fail
  Runtimes,   \* profile.runtimes
  Worlds,     \* the machines
  MaxMatches  \* MAX_DISCOVERY_MATCHES

VARIABLES
  world,
  proxied,    \* whether a proxy variable was found
  pending,    \* captures that are out
  capture,    \* what became of each
  unchecked,  \* targets checkTarget has not returned for
  observed,   \* context.observedAnchors
  said,       \* the findings of the tls probe
  os,         \* the outcomes of the OS store reader
  stores,     \* the outcomes of the runtime store reader, by runtime
  report      \* what crossCheck returned

vars == <<world, proxied, pending, capture, unchecked, observed, said, os, stores, report>>

Bytes == Certs \cup {Junk}
FileStates == {"unset", "absent", "unreadable", "huge", "there"}
File == [state : FileStates, blocks : SUBSET Bytes]
Cacerts == [state : FileStates, format : Formats, parts : Seq([kind : PartKinds, der : Bytes])]
World == [platform : {"linux", "darwin", "win32", "other"}, keychains : Seq(File),
          nodeExtra : File, sslFile : File, requests : File,
          sslDir : [state : FileStates, files : Seq(File)],
          certifi : Seq(File), cacerts : Seq(Cacerts)]
Paths == {"direct", "proxy"}
Failed == [ok |-> FALSE, chain |-> <<>>, rank |-> -1, sni |-> <<>>]
CaptureType == [ok : BOOLEAN, chain : Seq(Bytes), rank : -1..4, sni : Seq(STRING)]

ASSUME MachineAssumption ==
  /\ Required \subseteq Targets /\ Captures \subseteq CaptureType
  /\ \A c \in Captures : c.ok
  /\ Bundled # {} /\ Runtimes # <<>> /\ Runtimes \in Seq({"node", "go", "python", "java"})
  /\ Worlds \subseteq World /\ MaxMatches \in Nat \ {0}
-----------------------------------------------------------------------------
(* Reading the stores of a runtime. *)

FailureOf(state) ==
  IF state = "unset" THEN "not-configured" ELSE IF state = "absent" THEN "not-found"
  ELSE IF state = "huge" THEN "output-too-large" ELSE "unreadable"
Failures == {"none", "not-configured", "not-found", "unreadable", "output-too-large",
             "no-certificates", "encrypted", "cut"} \cup Defects
ContentsType == [pems : SUBSET Bytes, failure : Failures, partial : BOOLEAN]
Contents(pems, failure, partial) == [pems |-> pems, failure |-> failure, partial |-> partial]
NotFound == Contents({}, "not-found", FALSE)

\* readPemFile, and envFileStore for a variable that may be unset.
ReadPem(f) ==
  IF f.state # "there" THEN Contents({}, FailureOf(f.state), FALSE)
  ELSE Contents(f.blocks, IF f.blocks = {} THEN "no-certificates" ELSE "none", FALSE)

ReadJavaCacerts(k) ==
  IF k.state # "there" THEN Contents({}, FailureOf(k.state), FALSE)
  ELSE LET read == ReadKeystore(k.format, k.parts)
       IN Contents(read.certificates, read.failure, read.partial)

EnvKinds == {"node-extra-ca", "go-ssl-cert-file", "go-ssl-cert-dir",
             "python-ssl-cert-file", "python-requests-ca-bundle"}
Kinds == EnvKinds \cup {"node-bundled", "platform-verifier", "go-system-bundle", "python-certifi", "java-cacerts"}
Outcomes == [kind : Kinds, at : Nat, combines : {"standalone", "adds-to", "replaces"},
             pems : SUBSET Bytes, failure : Failures, partial : BOOLEAN]
Outcome(kind, at, combines, c) ==
  [kind |-> kind, at |-> at, combines |-> combines,
   pems |-> c.pems, failure |-> c.failure, partial |-> c.partial]

\* The entries of a listing that are looked at.
Capped(listing) == {i \in DOMAIN listing : i <= MaxMatches}

\* certDirStore: what could be read of the first files, as one store.
ReadDir(d) ==
  LET pems == UNION {ReadPem(d.files[i]).pems : i \in Capped(d.files)}
  IN IF d.state # "there" THEN Contents({}, FailureOf(d.state), FALSE)
     ELSE Contents(pems, IF pems = {} THEN "no-certificates" ELSE "none", FALSE)

NodeStores(w) ==
  {Outcome("node-bundled", 0, "standalone",
           Contents(Bundled, IF Bundled = {} THEN "no-certificates" ELSE "none", FALSE)),
   Outcome("node-extra-ca", 0, "adds-to", ReadPem(w.nodeExtra))}

Overridden(w) == w.sslFile.state # "unset" \/ w.sslDir.state # "unset"
\* On linux Go reads the very file the OS reader does.
GoStores(w) ==
  {Outcome("go-ssl-cert-file", 0, "replaces", ReadPem(w.sslFile)),
   Outcome("go-ssl-cert-dir", 0, "replaces", ReadDir(w.sslDir))}
  \cup (IF ~Overridden(w) /\ w.platform \in {"darwin", "win32"}
        THEN {Outcome("platform-verifier", 0, "standalone", Contents({}, "none", FALSE))} ELSE {})
  \cup (IF ~Overridden(w) /\ w.platform = "linux"
        THEN {Outcome("go-system-bundle", 0, "standalone",
                      IF w.keychains = <<>> THEN NotFound ELSE ReadPem(w.keychains[1]))}
        ELSE {})

CertifiStores(w) ==
  IF w.certifi = <<>> THEN {Outcome("python-certifi", 0, "standalone", NotFound)}
  ELSE {Outcome("python-certifi", i, "standalone", ReadPem(w.certifi[i])) : i \in Capped(w.certifi)}
PythonStores(w) ==
  {Outcome("python-ssl-cert-file", 0, "replaces", ReadPem(w.sslFile)),
   Outcome("python-requests-ca-bundle", 0, "replaces", ReadPem(w.requests))} \cup CertifiStores(w)

JavaStores(w) ==
  IF w.cacerts = <<>> THEN {Outcome("java-cacerts", 0, "standalone", NotFound)}
  ELSE {Outcome("java-cacerts", i, "standalone", ReadJavaCacerts(w.cacerts[i])) : i \in Capped(w.cacerts)}

StoresOf(w, r) == IF r = "node" THEN NodeStores(w) ELSE IF r = "go" THEN GoStores(w)
               ELSE IF r = "python" THEN PythonStores(w) ELSE JavaStores(w)
-----------------------------------------------------------------------------
(* The cross-check. *)

Says(id, severity, r, o) ==
  [id |-> id, severity |-> severity, runtime |-> r, kind |-> o.kind, at |-> o.at]
Whole == [kind |-> "", at |-> 0] \* a finding about no store in particular

OsRead(reads) == {k \in DOMAIN reads : reads[k].failure = "none"}
\* locallyAdded: what the OS stores that were read hold and the bundle does not.
LocallyAdded(reads) == (UNION {reads[k].pems : k \in OsRead(reads)}) \ (Bundled \cup {Junk})

\* trustSets: replaces shadows standalone, adds-to joins every set.
TrustSets(outcomes) ==
  LET readable  == {o \in outcomes : o.failure = "none" /\ o.kind # "platform-verifier"}
      additions == {o \in readable : o.combines = "adds-to"}
      replacing == {o \in readable : o.combines = "replaces"}
      bases == IF replacing # {} THEN replacing ELSE {o \in readable : o.combines = "standalone"}
  IN {[kind |-> b.kind, at |-> b.at, pems |-> b.pems \cup UNION {o.pems : o \in additions},
       partial |-> b.partial \/ \E o \in additions : o.partial] : b \in bases}

\* Slip: a root that has been issued anew taken for the one in the set.
MissingByName(added, set) == {m \in added : \A c \in set.pems \ {Junk} : c.subject # m.subject}
Missing(added, set) == added \ set.pems

\* Slip: the name of an anchor that may be public counted as well.
CorrelatedByName(anchors, missing) == \E a \in anchors : \E m \in missing : a.der = m \/ m.subject = a.issuer
\* correlate: by the bytes, or by the name of a chain that is private.
Correlated(anchors, missing) ==
  \E a \in anchors : \E m \in missing : a.der = m \/ (a.class = "private" /\ m.subject = a.issuer)

MissingRoot(added, anchors, r, set) ==
  Says("missing-root",
       IF set.partial \/ ~Correlated(anchors, Missing(added, set)) THEN "degraded" ELSE "blocker", r, set)
SetFindings(added, anchors, r, set) ==
  IF Missing(added, set) # {} THEN {MissingRoot(added, anchors, r, set)}
  ELSE IF set.partial THEN {} ELSE {Says("roots-present", "ok", r, set)}

OsFindings(reads) ==
  {Says("os-read", "ok", "", [kind |-> "os", at |-> k]) : k \in OsRead(reads)}
  \cup {Says("os-unread", "unknown", "", [kind |-> "os", at |-> k]) : k \in DOMAIN reads \ OsRead(reads)}
  \cup (IF reads = <<>> THEN {Says("unsupported-platform", "unknown", "", Whole)} ELSE {})

\* extraCaFindings
ExtraCa(r, o) ==
  IF o.kind \notin EnvKinds \/ o.failure = "not-configured" THEN {}
  ELSE IF o.failure = "none" THEN {Says("extra-ca-configured", "ok", r, o)}
  ELSE {Says("extra-ca-unreadable", "degraded", r, o)}
\* javaStoreUnreadableFinding
KeystoreFindings(r, o) ==
  IF o.kind = "java-cacerts" /\ (o.partial \/ o.failure \notin {"none", "not-found"})
  THEN {Says("store-unreadable", "unknown", r, o)} ELSE {}

\* Slip: a store that is not there taken for one that was located.
LocatedAnyway(outcomes) == \E o \in outcomes : o.failure # "not-configured"
Located(outcomes) == \E o \in outcomes : o.failure \notin {"not-configured", "not-found"}
Verifies(outcomes) == \E o \in outcomes : o.kind = "platform-verifier"

\* The verdicts of a runtime, or why there is none.
Verdicts(reads, anchors, r, outcomes) ==
  IF Verifies(outcomes) THEN {Says("platform-verifier", "ok", r, Whole)}
  ELSE IF TrustSets(outcomes) = {}
  THEN IF Located(outcomes) THEN {} ELSE {Says("store-not-found", "unknown", r, Whole)}
  ELSE IF OsRead(reads) = {} THEN {}
  ELSE UNION {SetFindings(LocallyAdded(reads), anchors, r, set) : set \in TrustSets(outcomes)}
RuntimeFindings(reads, anchors, r, outcomes) ==
  Verdicts(reads, anchors, r, outcomes) \cup UNION {ExtraCa(r, o) \cup KeystoreFindings(r, o) : o \in outcomes}

\* Slip: the certificates of the OS stores indexed in the same way.
IndexThrowsOnAny(reads, outcomes) ==
  \/ \E k \in OsRead(reads) : Junk \in reads[k].pems
  \/ ~Verifies(outcomes) /\ OsRead(reads) # {} /\ \E set \in TrustSets(outcomes) : Junk \in set.pems
\* certificateIndex throws on the first block of a set that does not parse.
IndexThrows(reads, outcomes) ==
  /\ ~Verifies(outcomes) /\ OsRead(reads) # {}
  /\ \E set \in TrustSets(outcomes) : Junk \in set.pems

CrossChecked(reads, read, anchors) ==
  IF \E i \in DOMAIN read : IndexThrows(reads, read[i]) THEN [state |-> "threw", findings |-> {}]
  ELSE [state |-> "delivered",
        findings |->
          OsFindings(reads)
          \cup (UNION {RuntimeFindings(reads, anchors, Runtimes[i], read[i]) : i \in DOMAIN read})
          \cup (IF OsRead(reads) = {} THEN {Says("indeterminate", "unknown", "", Whole)} ELSE {})]
-----------------------------------------------------------------------------
Attempted(p) == p = "direct" \/ proxied
Init ==
  /\ world \in Worlds /\ proxied \in BOOLEAN
  /\ pending = Targets \X {p \in Paths : Attempted(p)}
  /\ capture = [x \in Targets \X Paths |-> Failed]
  /\ unchecked = Targets /\ observed = {} /\ said = {}
  /\ os = <<>> /\ stores = <<>>
  /\ report = [state |-> "none", findings |-> {}]

CaptureSettles(t, p, c) ==
  /\ <<t, p>> \in pending /\ c \in Captures \cup {Failed}
  /\ pending' = pending \ {<<t, p>>}
  /\ capture' = [capture EXCEPT ![<<t, p>>] = c]
  /\ UNCHANGED <<world, proxied, unchecked, observed, said, os, stores, report>>

AllChecked == unchecked = {}

Observes(t) == UNION {Anchors(capture[<<t, p>>]) : p \in Paths}
Tagged(t, p, findings) == {[target |-> t, path |-> p, id |-> f.id, severity |-> f.severity] : f \in findings}
PathFindings(t, p) ==
  IF ~Attempted(p) THEN {}
  ELSE IF ~capture[<<t, p>>].ok THEN {Said("capture-failed", "unknown")}
  ELSE EvaluateChain(capture[<<t, p>>], t \in Required)
\* checkTarget once both of its captures are in.
CheckTarget(t) ==
  /\ t \in unchecked /\ \A p \in Paths : <<t, p>> \notin pending
  /\ unchecked' = unchecked \ {t} /\ observed' = observed \cup Observes(t)
  /\ said' = said \cup Tagged(t, "both", CompareChains(capture[<<t, "direct">>], capture[<<t, "proxy">>]))
                  \cup UNION {Tagged(t, p, PathFindings(t, p)) : p \in Paths}
  /\ UNCHANGED <<world, proxied, pending, capture, os, stores, report>>

\* The next store of the OS reader, which a timer or the run may cut short.
ReadOsStore ==
  /\ AllChecked /\ stores = <<>> /\ report.state = "none" /\ Len(os) < Len(world.keychains)
  /\ \E outcome \in {ReadPem(world.keychains[Len(os) + 1]), Contents({}, "cut", FALSE)} :
       os' = Append(os, outcome)
  /\ UNCHANGED <<world, proxied, pending, capture, unchecked, observed, said, stores, report>>

ReadRuntime ==
  /\ AllChecked /\ Len(os) = Len(world.keychains) /\ Len(stores) < Len(Runtimes)
  /\ stores' = Append(stores, StoresOf(world, Runtimes[Len(stores) + 1]))
  /\ UNCHANGED <<world, proxied, pending, capture, unchecked, observed, said, os, report>>

Compare ==
  /\ report.state = "none" /\ AllChecked
  /\ Len(os) = Len(world.keychains) /\ Len(stores) = Len(Runtimes)
  /\ report' = CrossChecked(os, stores, observed)
  /\ UNCHANGED <<world, proxied, pending, capture, unchecked, observed, said, os, stores>>

Next ==
  \/ \E t \in Targets, p \in Paths, c \in Captures \cup {Failed} : CaptureSettles(t, p, c)
  \/ \E t \in Targets : CheckTarget(t)
  \/ ReadOsStore \/ ReadRuntime \/ Compare

Spec == Init /\ [][Next]_vars
-----------------------------------------------------------------------------
Findings ==
  [id : {"os-read", "os-unread", "unsupported-platform", "indeterminate", "extra-ca-configured",
         "extra-ca-unreadable", "store-unreadable", "store-not-found", "platform-verifier",
         "missing-root", "roots-present"},
   severity : {"ok", "unknown", "degraded", "blocker"},
   runtime : {"", "node", "go", "python", "java"}, kind : Kinds \cup {"", "os"}, at : Nat]
\* The types of what a run holds.  What was observed is what the judged chains
\* end in, and no store is read before every chain is judged.
TypeOK ==
  /\ world \in Worlds /\ proxied \in BOOLEAN
  /\ pending \subseteq Targets \X Paths /\ unchecked \subseteq Targets
  /\ capture \in [Targets \X Paths -> CaptureType]
  /\ observed = UNION {Anchors(capture[x]) : x \in (Targets \ unchecked) \X Paths}
  /\ os \in Seq(ContentsType)
  /\ stores \in Seq(SUBSET Outcomes)
  /\ Len(os) <= Len(world.keychains) /\ Len(stores) <= Len(Runtimes)
  /\ report \in [state : {"none", "threw", "delivered"}, findings : SUBSET Findings]
  /\ os # <<>> \/ stores # <<>> \/ report.state # "none" => pending = {} /\ unchecked = {}

\* The certificates of the parts of a keystore that are of these kinds.
DersOf(k, kinds) == {k.parts[i].der : i \in {j \in DOMAIN k.parts : k.parts[j].kind \in kinds}}
\* What a runtime that uses the store finds in it, read by portcall or not.  A JVM has the
\* password of its keystore.
Stored(kind, at) ==
  CASE kind = "node-bundled" -> Bundled \cup ReadPem(world.nodeExtra).pems
    [] kind \in {"go-ssl-cert-file", "python-ssl-cert-file"} -> ReadPem(world.sslFile).pems
    [] kind = "go-ssl-cert-dir" -> UNION {ReadPem(world.sslDir.files[i]).pems : i \in DOMAIN world.sslDir.files}
    [] kind = "python-requests-ca-bundle" -> ReadPem(world.requests).pems
    [] kind = "go-system-bundle" -> ReadPem(world.keychains[1]).pems
    [] kind = "python-certifi" -> ReadPem(world.certifi[at]).pems
    [] kind = "java-cacerts" -> DersOf(world.cacerts[at], {"cert", "sealed"})
    [] OTHER -> {}
\* What is read of a Java store and Java does not take for an anchor: the chain of a key
\* in a PKCS#12 file.
Riders(kind, at) ==
  IF kind = "java-cacerts" THEN DersOf(world.cacerts[at], {"rider"}) ELSE {}
Held(kind, at) == Stored(kind, at) \cup Riders(kind, at)
\* The roots of the machine that are not the runtime's own, as far as they were read.
MachineRoots == {c \in Certs \ Bundled : \E k \in OsRead(os) : c \in world.keychains[k].blocks}

\* roots-present is only said of a store that holds every root that the OS
\* stores which were read add, by its bytes, and only when one was read: the
\* verdict comes from reads that were cut, capped, shadowed and joined.  But for the
\* chain of a key in a PKCS#12 file, which the store holds and Java does not trust.
PresentIsEarned ==
  \A f \in report.findings : f.id = "roots-present" =>
     OsRead(os) # {} /\ MachineRoots \subseteq Held(f.kind, f.at)

\* A chain that this run captured ends in root m, or names it as its issuer,
\* and is known not to be public.
Served(m) ==
  \E x \in Targets \X Paths :
     /\ capture[x].ok /\ Readable(capture[x])
     /\ Class(capture[x].chain) = "private" /\ Terminus(capture[x].chain).issuer = m.subject

\* A missing root is a blocker exactly when a captured chain hangs on one of
\* the missing roots and the set was not known to be read in part: neither a
\* hypothetical failure nor one a live chain proves is graded as the other.
BlockerIffServed ==
  \A i \in DOMAIN stores : \A set \in TrustSets(stores[i]) :
     report.state = "delivered" /\ ~Verifies(stores[i]) =>
       ((\E f \in report.findings : /\ f.id = "missing-root" /\ f.severity = "blocker"
                                   /\ f.runtime = Runtimes[i] /\ f.kind = set.kind /\ f.at = set.at)
        <=> (~set.partial /\ \E m \in MachineRoots \ set.pems : Served(m)))

\* The certifi bundles of a machine, not one of them of use.
CertifiUnusable ==
  world.certifi # <<>> /\ \A i \in Capped(world.certifi) : ReadPem(world.certifi[i]).failure # "none"
\* A truststore report that is ok all over means that the whole OS store was
\* read and that each runtime has every root of it, or asks the OS itself;
\* but for a Python all of whose bundles are there and of no use, and for a Java
\* that has some of them in the chain of a key.
AllClearIsEarned ==
  report.state = "delivered" /\ (\A f \in report.findings : f.severity = "ok") =>
    /\ os # <<>> /\ OsRead(os) = DOMAIN os
    /\ \A i \in DOMAIN stores :
         \/ Verifies(stores[i])
         \/ /\ TrustSets(stores[i]) # {}
            /\ \A set \in TrustSets(stores[i]) : MachineRoots \subseteq Held(set.kind, set.at)
         \/ Runtimes[i] = "python" /\ CertifiUnusable

\* A certificate that does not parse costs the whole report only when it lies in
\* a store that a runtime of the profile is compared by: neither the OS stores,
\* nor a store that another one replaces, nor one of a runtime that asks the OS
\* can take the report with it, and without an OS store nothing can.
ThrowsOnlyForJunk ==
  report.state = "threw" =>
    /\ OsRead(os) # {}
    /\ \E i \in DOMAIN Runtimes : LET outcomes == StoresOf(world, Runtimes[i]) IN
         ~Verifies(outcomes) /\ \E set \in TrustSets(outcomes) : Junk \in Held(set.kind, set.at)

\* A way from the leaf by issuer and subject to a bundled root, the long way round.
LeadsToBundled(chain) ==
  \E n \in 1..Len(chain) : \E way \in [1..n -> DOMAIN chain] :
     /\ way[1] = 1 /\ chain[way[n]] \in Bundled
     /\ \A k \in 1..n-1 : chain[way[k]].issuer = chain[way[k+1]].subject
Acceptable(c) ==
  /\ Readable(c) /\ LeadsToBundled(c.chain) /\ c.rank >= Floor
  /\ \A i \in DOMAIN c.chain : /\ c.chain[i].from <= Now
                              /\ c.chain[i].until > Now + EXPIRY_WARNING_DAYS * Day
  /\ c.sni # <<>> => \E pattern \in c.chain[1].names : MatchesDnsName(c.sni, pattern)

\* When the tls probe comes to say nothing but ok of a capture, a client would
\* take the chain: it leads to a bundled root, every certificate in it is valid
\* today and for the days of warning, the name is one of the leaf's and the
\* version is no lower than the profile's.
QuietMeansAcceptable ==
  [][said' # said =>
       \A x \in (unchecked \ unchecked') \X Paths :
         capture[x].ok /\ (\A f \in said' : f.target = x[1] /\ f.path = x[2] => f.severity = "ok")
           => Acceptable(capture[x])]_vars

\* Nothing that a peer appends to a chain that already ends in a self-signed
\* certificate changes what the chain is taken for or which anchor is observed.
PaddingChangesNothing ==
  [][\A t \in unchecked \ unchecked' : \A p \in Paths : \A pad \in Certs :
       LET chain == capture[<<t, p>>].chain
       IN Readable(capture[<<t, p>>]) /\ SelfSigned(Terminus(chain)) =>
            /\ Class(Append(chain, pad)) = Class(chain)
            /\ Anchor(Append(chain, pad)) = Anchor(chain)]_vars

\* A capture with two of its certificates in the place of one another.
Swapped(c, j, k) == [c EXCEPT !.chain = [@ EXCEPT ![j] = c.chain[k], ![k] = c.chain[j]]]

\* "A peer sends whatever it likes, in whatever order" (public-roots.ts:63-64): where no
\* two of a chain bear the same name, the order of those behind the leaf changes neither
\* what is said of the chain nor the anchor that is handed on.
OrderChangesNothing ==
  [][\A t \in unchecked \ unchecked' : \A p \in Paths :
       LET c == capture[<<t, p>>]
       IN Readable(c) /\ OneName(c.chain) =>
            \A j, k \in 2..Len(c.chain) :
               /\ EvaluateChain(Swapped(c, j, k), t \in Required) = EvaluateChain(c, t \in Required)
               /\ Anchors(Swapped(c, j, k)) = Anchors(c)]_vars

\* "As against located and unreadable, which the findings above have already
\* reported" (evaluate.ts:974-976): where an OS store was read, so that the runtimes are
\* compared, every store that was located and is of no use is named by a finding.
UnusableIsReported ==
  report.state = "delivered" /\ OsRead(os) # {} =>
    \A i \in DOMAIN stores : \A o \in stores[i] :
       o.failure \notin {"none", "not-configured", "not-found"} =>
         \E f \in report.findings : f.runtime = Runtimes[i] /\ f.kind = o.kind /\ f.at = o.at

\* "Not proof strong enough to call a blocker when the unread half of that same
\* set could hold the anchor after all" (evaluate.ts:765-766).
BlockerOutlivesTheUnread ==
  \A f \in report.findings : f.id = "missing-root" /\ f.severity = "blocker" =>
     \E m \in MachineRoots \ Stored(f.kind, f.at) : Served(m)
=============================================================================
