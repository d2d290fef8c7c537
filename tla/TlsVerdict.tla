---------------------------- MODULE TlsVerdict ----------------------------
(***************************************************************************)
(* What the tls probe says of the certificate chains it captured:          *)
(* probes/tls/public-roots.ts and probes/tls/evaluate.ts, as operators.    *)
(* No signature is looked at: a chain is names and bytes.  A certificate   *)
(* here is a record and two of them have the same bytes exactly when they  *)
(* are equal.                                                              *)
(***************************************************************************)
EXTENDS Integers, Sequences, FiniteSetsExt

CONSTANTS
  Certs,     \* the certificates there are
  Junk,      \* bytes that do not parse as one
  Bundled,   \* PUBLIC_ROOT_CA_PEMS
  Starred,   \* the labels of a name that have an asterisk in them
  Floor,     \* profile.tls.min_version, as a rank
  Tolerated  \* profile.tls.interception_tolerated

\* Times are in half days, seen from the moment of the run.
Now == 0
Day == 2
EXPIRY_WARNING_DAYS == 30

ASSUME CertAssumption ==
  /\ Certs \subseteq [id : STRING, subject : STRING, issuer : STRING, from : Int, until : Int,
                      san : BOOLEAN, names : SUBSET Seq(STRING)]
  /\ Junk \notin Certs /\ Bundled \subseteq Certs
  /\ Floor \in 1..4 /\ Tolerated \in BOOLEAN
-----------------------------------------------------------------------------
SelfSigned(c) == c.subject = c.issuer
BundledSubjects == {c.subject : c \in Bundled}

\* The certificate a path ends in, and those that may have issued it: the first
\* that is not on the path yet is where the way goes on.
EndOf(chain, path) == chain[path[Len(path)]]
Issuers(chain, path) == {i \in 1..Len(chain) : /\ chain[i].subject = EndOf(chain, path).issuer
                                               /\ \A k \in 1..Len(path) : path[k] # i}
\* Slip: the order of the array taken for that of issuance.
ExtendedInTurn(chain, path) ==
  IF SelfSigned(EndOf(chain, path)) \/ Len(path) = Len(chain) THEN path
  ELSE Append(path, Len(path) + 1)
Extended(chain, path) ==
  IF SelfSigned(EndOf(chain, path)) \/ Issuers(chain, path) = {} THEN path
  ELSE Append(path, Min(Issuers(chain, path)))

\* issuancePath: from the leaf by issuer and subject, the first that fits, to
\* a self-signed certificate or as far as it goes.  Walk is its turns.
Walk(chain) ==
  LET walk[n \in 0..Len(chain)] == IF n = 0 THEN <<1>> ELSE Extended(chain, walk[n-1])
  IN walk
IssuancePath(chain) == Walk(chain)[Len(chain)]

OnPath(chain) == {chain[IssuancePath(chain)[k]] : k \in 1..Len(IssuancePath(chain))}
\* The end of the path, which is what a verdict is about.
Terminus(chain) == EndOf(chain, IssuancePath(chain))

\* No two of a chain bear the same name, so that a way has no choice.
OneName(chain) == \A i, j \in 1..Len(chain) : chain[i].subject = chain[j].subject => i = j

\* Slip: a bundled root looked for among all that was presented.
ClassAnywhere(chain) ==
  IF \E i \in 1..Len(chain) : chain[i] \in Bundled THEN "public"
  ELSE IF SelfSigned(Terminus(chain)) \/ Terminus(chain).issuer \notin BundledSubjects
  THEN "private" ELSE "indeterminate"

\* classifyRoot: bytes prove a root public, names can only rule it out.
Class(chain) ==
  IF OnPath(chain) \cap Bundled # {} THEN "public"
  ELSE IF SelfSigned(Terminus(chain)) \/ Terminus(chain).issuer \notin BundledSubjects
  THEN "private" ELSE "indeterminate"

\* observedAnchor, for a chain that is not public; Junk where no anchor was sent.
Anchor(chain) ==
  [der |-> IF SelfSigned(Terminus(chain)) THEN Terminus(chain) ELSE Junk,
   issuer |-> Terminus(chain).issuer, class |-> Class(chain)]
-----------------------------------------------------------------------------
\* A name is the sequence of its labels.
MatchesDnsName(name, pattern) ==
  IF Len(pattern) > 1 /\ Head(pattern) = "*"
  THEN /\ Len(pattern) > 2 /\ Len(name) > 1
       /\ Tail(name) = Tail(pattern)
       /\ \A k \in 2..Len(pattern) : pattern[k] \notin Starred
  ELSE name = pattern /\ \A k \in 1..Len(pattern) : pattern[k] \notin Starred

Said(id, severity) == [id |-> id, severity |-> severity]
Cap(severity, required) ==
  IF ~required /\ severity = "blocker" THEN "degraded" ELSE severity
Blocks(id, required) == {Said(id, Cap("blocker", required))}

RootFindings(chain, required) ==
  IF Class(chain) = "public" THEN {Said("public-root", "ok")}
  ELSE IF Class(chain) = "indeterminate" THEN {Said("root-indeterminate", "unknown")}
  ELSE IF Tolerated THEN {Said("private-root", "degraded")}
  ELSE Blocks("private-root", required)

\* A rank on the scale of PROTOCOL_RANK; -1 for a name that is not on it.
ProtocolFindings(rank, required) ==
  IF rank = -1 THEN {Said("protocol-unknown", "unknown")}
  ELSE IF rank >= Floor THEN {Said("protocol", "ok")}
  ELSE Blocks("protocol-below-minimum", required)

DaysUntil(t) == (t - Now) \div Day
\* Slip: the leaf taken for the whole chain.
EarliestOfLeaf(chain) == chain[1].until
EarliestExpiring(chain) == Min({chain[i].until : i \in 1..Len(chain)})

ValidityFindings(chain, required) ==
  (IF \E i \in 1..Len(chain) : chain[i].from > Now
   THEN Blocks("chain-not-yet-valid", required) ELSE {})
  \cup
  (IF EarliestExpiring(chain) <= Now THEN Blocks("chain-expired", required)
   ELSE IF DaysUntil(EarliestExpiring(chain)) <= EXPIRY_WARNING_DAYS
   THEN {Said("chain-expiring-soon", "degraded")} ELSE {})

NameFindings(leaf, sni, required) ==
  IF sni = <<>> THEN {}
  ELSE IF ~leaf.san THEN Blocks("leaf-no-san", required)
  ELSE IF \E pattern \in leaf.names : MatchesDnsName(sni, pattern) THEN {}
  ELSE Blocks("sni-mismatch", required)

Readable(capture) == capture.chain # <<>> /\ \A i \in DOMAIN capture.chain : capture.chain[i] # Junk

\* evaluateChain: the findings of one captured chain.
EvaluateChain(capture, required) ==
  IF capture.chain = <<>> THEN {Said("chain-empty", "unknown")}
  ELSE IF ~Readable(capture) THEN {Said("chain-unparseable", "unknown")}
  ELSE RootFindings(capture.chain, required) \cup ProtocolFindings(capture.rank, required)
       \cup ValidityFindings(capture.chain, required)
       \cup NameFindings(capture.chain[1], capture.sni, required)

\* Its anchor, if it has one that is of interest.
Anchors(capture) ==
  IF Readable(capture) /\ Class(capture.chain) # "public" THEN {Anchor(capture.chain)} ELSE {}

\* compareChains: the bytes of the two leaves.
CompareChains(direct, proxied) ==
  IF direct.chain = <<>> \/ proxied.chain = <<>> THEN {}
  ELSE IF direct.chain[1] = proxied.chain[1] THEN {Said("chain-consistent", "ok")}
  ELSE {Said("intercepted-via-proxy", "degraded")}
=============================================================================
