------------------------- MODULE CrossCheckProofs -------------------------
(***************************************************************************)
(* What the cross-check says is earned, for any machine, chains and order. *)
(* What the walk of a chain comes to is taken from TlsVerdictProofs.        *)
(***************************************************************************)
EXTENDS CrossCheck, TlsVerdictProofs, SequenceTheorems, TLAPS

RuntimeNames == {"node", "go", "python", "java"}

\* What reading a file comes to.
LEMMA ReadPemFacts ==
  ASSUME NEW f \in File
  PROVE  /\ ReadPem(f) \in ContentsType
         /\ ReadPem(f).pems \subseteq f.blocks
         /\ ReadPem(f).failure = "none" => ReadPem(f).pems = f.blocks
         /\ ~ReadPem(f).partial
<1>1. f.state \in FileStates /\ f.blocks \in SUBSET Bytes
  BY DEF File
<1>2. CASE f.state = "there"
  BY <1>1, <1>2 DEF ReadPem, Contents, ContentsType, Failures
<1>3. CASE f.state # "there"
  <2>1. FailureOf(f.state) \in Failures \ {"none"}
    BY <1>1, <1>3 DEF FailureOf, FileStates, Failures
  <2> QED BY <1>1, <1>3, <2>1 DEF ReadPem, Contents, ContentsType, Failures
<1> QED BY <1>2, <1>3

\* What the walk through a keystore comes to: it takes nothing but certificates
\* that lie open, and a failure leaves it with none.
LEMMA ReadKeystoreFacts ==
  ASSUME NEW format, NEW parts, NEW read, read = ReadKeystore(format, parts)
  PROVE  /\ read.certificates \subseteq Taken(parts)
         /\ read.failure = "none" <=> read.certificates # {}
         /\ read.failure \in {"none", "encrypted", "no-certificates"} \cup Defects
         /\ read.partial \in BOOLEAN
<1> DEFINE defects == ReachedOf(parts, Defects)
           sealed == ReachedOf(parts, {"sealed"}) # {}
<1>1. \A reason : /\ Refused(reason).certificates = {} /\ Refused(reason).failure = reason
                  /\ Refused(reason).partial = FALSE
  BY DEF Refused
<1>2. defects # {} => parts[CHOOSE i \in defects : TRUE].kind \in Defects
  BY DEF ReachedOf
<1>3. /\ "unsupported-format" \in Defects
      /\ \A reason \in Defects \cup {"encrypted", "no-certificates"} : reason # "none"
  BY DEF Defects
<1>4. CASE format = "other" \/ defects # {}
  <2>1. \/ read = Refused("unsupported-format")
        \/ read = Refused(parts[CHOOSE i \in defects : TRUE].kind) /\ defects # {}
    BY <1>4 DEF ReadKeystore
  <2> QED BY <1>1, <1>2, <1>3, <2>1
<1>5. CASE format # "other" /\ defects = {} /\ Taken(parts) = {}
  <2>1. read = Refused(IF sealed THEN "encrypted" ELSE "no-certificates")
    BY <1>5 DEF ReadKeystore
  <2> QED BY <1>1, <1>3, <2>1
<1>6. CASE format # "other" /\ defects = {} /\ Taken(parts) # {}
  <2>1. read = [certificates |-> Taken(parts), failure |-> "none", partial |-> sealed]
    BY <1>6 DEF ReadKeystore
  <2> HIDE DEF sealed
  <2>2. read.certificates = Taken(parts) /\ read.failure = "none" /\ read.partial = sealed
    BY <2>1
  <2>3. sealed \in BOOLEAN
    BY DEF sealed
  <2> QED BY <1>6, <2>2, <2>3
<1> QED BY <1>4, <1>5, <1>6

\* The certificates that a keystore holds, with those of the chain of a key.
HeldIn(k) == DersOf(k, {"cert", "sealed"}) \cup DersOf(k, {"rider"})
\* What reading a cacerts file comes to.
LEMMA ReadJavaCacertsFacts ==
  ASSUME NEW k \in Cacerts
  PROVE  /\ ReadJavaCacerts(k) \in ContentsType
         /\ ReadJavaCacerts(k).pems \subseteq HeldIn(k)
<1>1. k.state \in FileStates /\ k.parts \in Seq([kind : PartKinds, der : Bytes])
  BY DEF Cacerts
<1>2. CASE k.state = "there"
  <2> DEFINE read == ReadKeystore(k.format, k.parts)
  <2>1. /\ read.certificates \subseteq Taken(k.parts)
        /\ read.failure \in Failures /\ read.partial \in BOOLEAN
    <3>1. {"none", "encrypted", "no-certificates"} \cup Defects \subseteq Failures
      BY DEF Failures
    <3> QED BY <3>1, ReadKeystoreFacts
  <2>2. Taken(k.parts) \subseteq HeldIn(k) /\ Taken(k.parts) \subseteq Bytes
    <3>1. \A i \in ReachedOf(k.parts, Opened) :
             i \in DOMAIN k.parts /\ k.parts[i].kind \in Opened /\ k.parts[i].der \in Bytes
      <4>1. \A i \in ReachedOf(k.parts, Opened) : i \in DOMAIN k.parts /\ k.parts[i].kind \in Opened
        BY Zenon DEF ReachedOf, Reached
      <4>2. \A i \in DOMAIN k.parts : k.parts[i] \in [kind : PartKinds, der : Bytes]
        <5> DEFINE P == [kind : PartKinds, der : Bytes]
        <5>1. \A parts \in Seq(P) : \A i \in DOMAIN parts : parts[i] \in P
          <6> HIDE DEF P
          <6> QED OBVIOUS
        <5> QED BY <1>1, <5>1
      <4> QED BY <4>1, <4>2
    <3>2. ASSUME NEW c \in Taken(k.parts) PROVE c \in HeldIn(k) /\ c \in Bytes
      <4>1. PICK i \in ReachedOf(k.parts, Opened) : c = k.parts[i].der
        BY <3>2 DEF Taken
      <4>2. i \in DOMAIN k.parts /\ k.parts[i].kind \in Opened /\ k.parts[i].der \in Bytes
        BY <3>1
      <4>3. CASE k.parts[i].kind = "cert"
        BY <4>1, <4>2, <4>3 DEF HeldIn, DersOf
      <4>4. CASE k.parts[i].kind = "rider"
        BY <4>1, <4>2, <4>4 DEF HeldIn, DersOf
      <4> QED BY <4>2, <4>3, <4>4 DEF Opened
    <3> QED BY <3>2
  <2>3. ReadJavaCacerts(k) = Contents(read.certificates, read.failure, read.partial)
    BY <1>2 DEF ReadJavaCacerts
  <2> HIDE DEF read
  <2>4. Contents(read.certificates, read.failure, read.partial) \in ContentsType
    BY <2>1, <2>2 DEF Contents, ContentsType
  <2>5. ReadJavaCacerts(k).pems = read.certificates
    BY <2>3 DEF Contents
  <2> QED BY <2>1, <2>2, <2>3, <2>4, <2>5
<1>3. CASE k.state # "there"
  <2>1. FailureOf(k.state) \in Failures
    BY <1>1, <1>3 DEF FailureOf, FileStates, Failures
  <2> QED BY <1>3, <2>1 DEF ReadJavaCacerts, Contents, ContentsType
<1> QED BY <1>2, <1>3

\* What reading a directory comes to.
LEMMA ReadDirFacts ==
  ASSUME NEW d \in [state : FileStates, files : Seq(File)]
  PROVE  /\ ReadDir(d) \in ContentsType
         /\ ReadDir(d).pems \subseteq UNION {ReadPem(d.files[i]).pems : i \in DOMAIN d.files}
<1> DEFINE pems == UNION {ReadPem(d.files[i]).pems : i \in Capped(d.files)}
<1>1. \A i \in DOMAIN d.files : d.files[i] \in File
  OBVIOUS
<1>2. \A i \in DOMAIN d.files : ReadPem(d.files[i]).pems \in SUBSET Bytes
  BY <1>1, ReadPemFacts DEF ContentsType
<1>3. Capped(d.files) \subseteq DOMAIN d.files
  BY DEF Capped
<1>4. pems \in SUBSET Bytes /\ pems \subseteq UNION {ReadPem(d.files[i]).pems : i \in DOMAIN d.files}
  BY <1>2, <1>3
<1> HIDE DEF pems
<1>5. CASE d.state = "there"
  <2>1. ReadDir(d) = Contents(pems, IF pems = {} THEN "no-certificates" ELSE "none", FALSE)
    BY <1>5 DEF ReadDir, pems
  <2> QED BY <1>4, <2>1 DEF Contents, ContentsType, Failures
<1>6. CASE d.state # "there"
  <2>1. FailureOf(d.state) \in Failures \ {"none"}
    BY <1>6 DEF FailureOf, FileStates, Failures
  <2> QED BY <1>6, <2>1 DEF ReadDir, Contents, ContentsType, Failures
<1> QED BY <1>5, <1>6

\* A finding of the reader: what was read, under the name of its store.
LEMMA OutcomeTyped ==
  ASSUME NEW kind \in Kinds, NEW at \in Nat, NEW combines \in {"standalone", "adds-to", "replaces"},
         NEW c \in ContentsType
  PROVE  Outcome(kind, at, combines, c) \in Outcomes
BY DEF Outcome, Outcomes, ContentsType

\* What Contents and Says make has the type of their parts.
LEMMA ContentsTyped ==
  ASSUME NEW pems \in SUBSET Bytes, NEW failure \in Failures, NEW partial \in BOOLEAN
  PROVE  Contents(pems, failure, partial) \in ContentsType
BY DEF Contents, ContentsType

\* Whatever the machine, the stores of a runtime are outcomes.
LEMMA StoresTyped ==
  ASSUME NEW w \in World, NEW r \in RuntimeNames
  PROVE  StoresOf(w, r) \in SUBSET Outcomes
<1> USE DEF World
<1>0. NotFound \in ContentsType
  BY ContentsTyped DEF NotFound, Failures
<1>1. NodeStores(w) \in SUBSET Outcomes
  <2>1. Bundled \in SUBSET Bytes
    BY CertAssumption DEF Bytes
  <2>2. Contents(Bundled, IF Bundled = {} THEN "no-certificates" ELSE "none", FALSE) \in ContentsType
    BY <2>1, ContentsTyped DEF Failures
  <2>3. ReadPem(w.nodeExtra) \in ContentsType
    BY ReadPemFacts
  <2>4. Outcome("node-bundled", 0, "standalone",
           Contents(Bundled, IF Bundled = {} THEN "no-certificates" ELSE "none", FALSE)) \in Outcomes
    BY <2>2, OutcomeTyped DEF Kinds
  <2>5. Outcome("node-extra-ca", 0, "adds-to", ReadPem(w.nodeExtra)) \in Outcomes
    BY <2>3, OutcomeTyped DEF Kinds, EnvKinds
  <2> QED BY <2>4, <2>5 DEF NodeStores
<1>2. GoStores(w) \in SUBSET Outcomes
  <2>1. ReadPem(w.sslFile) \in ContentsType /\ ReadDir(w.sslDir) \in ContentsType
    BY ReadPemFacts, ReadDirFacts
  <2>2. Outcome("go-ssl-cert-file", 0, "replaces", ReadPem(w.sslFile)) \in Outcomes
    BY <2>1, OutcomeTyped DEF Kinds, EnvKinds
  <2>3. Outcome("go-ssl-cert-dir", 0, "replaces", ReadDir(w.sslDir)) \in Outcomes
    BY <2>1, OutcomeTyped DEF Kinds, EnvKinds
  <2>4. Contents({}, "none", FALSE) \in ContentsType
    BY ContentsTyped DEF Failures
  <2>5. Outcome("platform-verifier", 0, "standalone", Contents({}, "none", FALSE)) \in Outcomes
    BY <2>4, OutcomeTyped DEF Kinds
  <2>6. w.keychains # <<>> => w.keychains[1] \in File
    OBVIOUS
  <2>7. (IF w.keychains = <<>> THEN NotFound ELSE ReadPem(w.keychains[1])) \in ContentsType
    BY <1>0, <2>6, ReadPemFacts
  <2>8. Outcome("go-system-bundle", 0, "standalone",
                IF w.keychains = <<>> THEN NotFound ELSE ReadPem(w.keychains[1])) \in Outcomes
    BY <2>7, OutcomeTyped DEF Kinds
  <2> QED BY <2>2, <2>3, <2>5, <2>8 DEF GoStores
<1>3. PythonStores(w) \in SUBSET Outcomes
  <2>1. ReadPem(w.sslFile) \in ContentsType /\ ReadPem(w.requests) \in ContentsType
    BY ReadPemFacts
  <2>2. Outcome("python-ssl-cert-file", 0, "replaces", ReadPem(w.sslFile)) \in Outcomes
    BY <2>1, OutcomeTyped DEF Kinds, EnvKinds
  <2>3. Outcome("python-requests-ca-bundle", 0, "replaces", ReadPem(w.requests)) \in Outcomes
    BY <2>1, OutcomeTyped DEF Kinds, EnvKinds
  <2>4. Outcome("python-certifi", 0, "standalone", NotFound) \in Outcomes
    BY <1>0, OutcomeTyped DEF Kinds
  <2>5. ASSUME NEW i \in Capped(w.certifi)
        PROVE  Outcome("python-certifi", i, "standalone", ReadPem(w.certifi[i])) \in Outcomes
    <3>1. i \in Nat /\ w.certifi[i] \in File
      BY DEF Capped
    <3> QED BY <3>1, ReadPemFacts, OutcomeTyped DEF Kinds
  <2> QED BY <2>2, <2>3, <2>4, <2>5 DEF PythonStores, CertifiStores
<1>4. JavaStores(w) \in SUBSET Outcomes
  <2>1. Outcome("java-cacerts", 0, "standalone", NotFound) \in Outcomes
    BY <1>0, OutcomeTyped DEF Kinds
  <2>2. ASSUME NEW i \in Capped(w.cacerts)
        PROVE  Outcome("java-cacerts", i, "standalone", ReadJavaCacerts(w.cacerts[i])) \in Outcomes
    <3>1. i \in Nat /\ w.cacerts[i] \in Cacerts
      BY DEF Capped
    <3> QED BY <3>1, ReadJavaCacertsFacts, OutcomeTyped DEF Kinds
  <2> QED BY <2>1, <2>2 DEF JavaStores
<1> QED BY <1>1, <1>2, <1>3, <1>4 DEF StoresOf

\* Two outcomes of a runtime that are called the same are the same.
LEMMA StoresNamed ==
  ASSUME NEW w \in World, NEW r \in RuntimeNames,
         NEW a \in StoresOf(w, r), NEW b \in StoresOf(w, r), a.kind = b.kind, a.at = b.at
  PROVE  a = b
<1>1. CASE r = "node"
  <2>1. PICK s, t : /\ \A o \in StoresOf(w, r) : o = s \/ o = t
                    /\ s.kind = "node-bundled" /\ t.kind = "node-extra-ca"
    <3> DEFINE s == Outcome("node-bundled", 0, "standalone",
                    Contents(Bundled, IF Bundled = {} THEN "no-certificates" ELSE "none", FALSE))
               t == Outcome("node-extra-ca", 0, "adds-to", ReadPem(w.nodeExtra))
    <3>1. \A o \in StoresOf(w, r) : o = s \/ o = t
      BY <1>1 DEF StoresOf, NodeStores
    <3>2. s.kind = "node-bundled" /\ t.kind = "node-extra-ca"
      BY DEF Outcome
    <3> HIDE DEF s, t
    <3> QED BY <3>1, <3>2
  <2> QED BY <2>1
<1>2. CASE r = "go"
  <2>1. PICK s, t, u, v :
          /\ \A o \in StoresOf(w, r) : o = s \/ o = t \/ o = u \/ o = v
          /\ s.kind = "go-ssl-cert-file" /\ t.kind = "go-ssl-cert-dir"
          /\ u.kind = "platform-verifier" /\ v.kind = "go-system-bundle"
    <3> DEFINE s == Outcome("go-ssl-cert-file", 0, "replaces", ReadPem(w.sslFile))
               t == Outcome("go-ssl-cert-dir", 0, "replaces", ReadDir(w.sslDir))
               u == Outcome("platform-verifier", 0, "standalone", Contents({}, "none", FALSE))
               v == Outcome("go-system-bundle", 0, "standalone",
                            IF w.keychains = <<>> THEN NotFound ELSE ReadPem(w.keychains[1]))
    <3>1. \A o \in StoresOf(w, r) : o = s \/ o = t \/ o = u \/ o = v
      BY <1>2 DEF StoresOf, GoStores
    <3>2. /\ s.kind = "go-ssl-cert-file" /\ t.kind = "go-ssl-cert-dir"
          /\ u.kind = "platform-verifier" /\ v.kind = "go-system-bundle"
      BY DEF Outcome
    <3> HIDE DEF s, t, u, v
    <3> QED BY <3>1, <3>2
  <2> QED BY <2>1
<1>3. CASE r = "python"
  <2>1. \A o \in CertifiStores(w) :
          /\ o.kind = "python-certifi"
          /\ o = Outcome("python-certifi", o.at, "standalone",
                         IF w.certifi = <<>> THEN NotFound ELSE ReadPem(w.certifi[o.at]))
    BY DEF CertifiStores, Outcome
  <2>2. \A o \in StoresOf(w, r) :
          \/ o.kind = "python-ssl-cert-file" /\ o = Outcome("python-ssl-cert-file", 0, "replaces", ReadPem(w.sslFile))
          \/ /\ o.kind = "python-requests-ca-bundle"
             /\ o = Outcome("python-requests-ca-bundle", 0, "replaces", ReadPem(w.requests))
          \/ o \in CertifiStores(w)
    BY <1>3 DEF StoresOf, PythonStores, Outcome
  <2> QED BY <2>1, <2>2
<1>4. CASE r = "java"
  <2>1. \A o \in StoresOf(w, r) :
          o = Outcome("java-cacerts", o.at, "standalone",
                      IF w.cacerts = <<>> THEN NotFound ELSE ReadJavaCacerts(w.cacerts[o.at]))
    BY <1>4 DEF StoresOf, JavaStores, Outcome
  <2> QED BY <2>1, <1>4, Zenon
<1> QED BY <1>1, <1>2, <1>3, <1>4 DEF RuntimeNames

Additions(outcomes) ==
  {o \in outcomes : o.failure = "none" /\ o.kind # "platform-verifier" /\ o.combines = "adds-to"}
\* What a set of trust is made of.
LEMMA TrustSetFacts ==
  ASSUME NEW outcomes, NEW set \in TrustSets(outcomes)
  PROVE  \E b \in outcomes :
           /\ b.failure = "none" /\ b.kind # "platform-verifier"
           /\ b.combines \in {"standalone", "replaces"}
           /\ set = [kind |-> b.kind, at |-> b.at,
                     pems |-> b.pems \cup UNION {o.pems : o \in Additions(outcomes)},
                     partial |-> b.partial \/ \E o \in Additions(outcomes) : o.partial]
<1> DEFINE readable  == {o \in outcomes : o.failure = "none" /\ o.kind # "platform-verifier"}
           additions == {o \in readable : o.combines = "adds-to"}
           replacing == {o \in readable : o.combines = "replaces"}
           bases == IF replacing # {} THEN replacing ELSE {o \in readable : o.combines = "standalone"}
<1>1. additions = Additions(outcomes)
  BY DEF Additions
<1>2. PICK b \in bases :
        set = [kind |-> b.kind, at |-> b.at, pems |-> b.pems \cup UNION {o.pems : o \in additions},
               partial |-> b.partial \/ \E o \in additions : o.partial]
  BY Zenon DEF TrustSets
<1>3. /\ b \in outcomes /\ b.failure = "none" /\ b.kind # "platform-verifier"
      /\ b.combines \in {"standalone", "replaces"}
  OBVIOUS
<1> QED BY Zenon, <1>1, <1>2, <1>3

\* No two sets of a runtime are called the same.
LEMMA TrustSetsNamed ==
  ASSUME NEW w \in World, NEW r \in RuntimeNames,
         NEW a \in TrustSets(StoresOf(w, r)), NEW b \in TrustSets(StoresOf(w, r)),
         a.kind = b.kind, a.at = b.at
  PROVE  a = b
<1> DEFINE outcomes == StoresOf(w, r)
           extra == UNION {o.pems : o \in Additions(outcomes)}
           cut == \E o \in Additions(outcomes) : o.partial
<1>1. PICK c \in outcomes :
        a = [kind |-> c.kind, at |-> c.at, pems |-> c.pems \cup extra, partial |-> c.partial \/ cut]
  BY TrustSetFacts
<1>2. PICK d \in outcomes :
        b = [kind |-> d.kind, at |-> d.at, pems |-> d.pems \cup extra, partial |-> d.partial \/ cut]
  BY TrustSetFacts
<1> HIDE DEF extra, cut
<1>3. c.kind = d.kind /\ c.at = d.at
  BY <1>1, <1>2
<1>4. c = d
  BY <1>3, StoresNamed
<1> QED BY Zenon, <1>1, <1>2, <1>4

\* A set holds certificates, and what it is called comes from its base.
LEMMA TrustSetTyped ==
  ASSUME NEW outcomes \in SUBSET Outcomes, NEW set \in TrustSets(outcomes)
  PROVE  set.kind \in Kinds /\ set.at \in Nat /\ set.pems \in SUBSET Bytes /\ set.partial \in BOOLEAN
<1> DEFINE extra == UNION {o.pems : o \in Additions(outcomes)}
           cut == \E o \in Additions(outcomes) : o.partial
<1>1. PICK c \in outcomes :
        set = [kind |-> c.kind, at |-> c.at, pems |-> c.pems \cup extra, partial |-> c.partial \/ cut]
  BY TrustSetFacts
<1>2. \A o \in outcomes : o.kind \in Kinds /\ o.at \in Nat /\ o.pems \in SUBSET Bytes /\ o.partial \in BOOLEAN
  BY DEF Outcomes
<1>3. extra \in SUBSET Bytes
  BY <1>2 DEF Additions
<1>4. cut \in BOOLEAN
  OBVIOUS
<1> HIDE DEF extra, cut
<1>5. set.kind = c.kind /\ set.at = c.at /\ set.pems = c.pems \cup extra
  BY <1>1
<1>6. set.partial \in BOOLEAN
  <2>1. set.partial = (c.partial \/ cut)
    BY <1>1
  <2> QED BY Zenon, <2>1
<1> QED BY <1>2, <1>3, <1>5, <1>6

FindingIds == {"os-read", "os-unread", "unsupported-platform", "indeterminate", "extra-ca-configured",
               "extra-ca-unreadable", "store-unreadable", "store-not-found", "platform-verifier",
               "missing-root", "roots-present"}
\* The same of a finding.
LEMMA SaysTyped ==
  ASSUME NEW id \in FindingIds, NEW severity \in {"ok", "unknown", "degraded", "blocker"},
         NEW r \in RuntimeNames \cup {""}, NEW o, o.kind \in Kinds \cup {"", "os"}, o.at \in Nat
  PROVE  Says(id, severity, r, o) \in Findings
BY DEF Says, Findings, FindingIds, RuntimeNames

\* A finding about a runtime is a verdict or is about one of its stores.
LEMMA RuntimeFindingsAre ==
  ASSUME NEW reads, NEW anchors, NEW r, NEW outcomes, NEW f
  PROVE  f \in RuntimeFindings(reads, anchors, r, outcomes)
         <=> \/ f \in Verdicts(reads, anchors, r, outcomes)
             \/ \E o \in outcomes : f \in ExtraCa(r, o) \/ f \in KeystoreFindings(r, o)
<1> DEFINE about == UNION {ExtraCa(r, o) \cup KeystoreFindings(r, o) : o \in outcomes}
<1>1. RuntimeFindings(reads, anchors, r, outcomes) = Verdicts(reads, anchors, r, outcomes) \cup about
  BY DEF RuntimeFindings
<1>2. f \in about <=> \E o \in outcomes : f \in ExtraCa(r, o) \/ f \in KeystoreFindings(r, o)
  BY Zenon
<1> HIDE DEF about
<1> QED BY <1>1, <1>2

\* Whatever is compared, what comes out are findings.
LEMMA CrossCheckedTyped ==
  ASSUME NEW reads \in Seq(ContentsType), NEW read \in Seq(SUBSET Outcomes),
         Len(read) <= Len(Runtimes), NEW anchors
  PROVE  CrossChecked(reads, read, anchors)
           \in [state : {"none", "threw", "delivered"}, findings : SUBSET Findings]
<1>1. OsFindings(reads) \in SUBSET Findings
  <2>1. ASSUME NEW k \in DOMAIN reads
        PROVE  /\ Says("os-read", "ok", "", [kind |-> "os", at |-> k]) \in Findings
               /\ Says("os-unread", "unknown", "", [kind |-> "os", at |-> k]) \in Findings
    <3> DEFINE o == [kind |-> "os", at |-> k]
    <3>1. o.kind \in Kinds \cup {"", "os"} /\ o.at \in Nat
      OBVIOUS
    <3> HIDE DEF o
    <3>2. Says("os-read", "ok", "", o) \in Findings
      BY <3>1, SaysTyped DEF FindingIds
    <3>3. Says("os-unread", "unknown", "", o) \in Findings
      BY <3>1, SaysTyped DEF FindingIds
    <3> QED BY <3>2, <3>3 DEF o
  <2>2. Says("unsupported-platform", "unknown", "", Whole) \in Findings
    BY SaysTyped DEF FindingIds, Whole
  <2>3. OsRead(reads) \subseteq DOMAIN reads
    BY DEF OsRead
  <2> QED BY <2>1, <2>2, <2>3 DEF OsFindings
<1>2. ASSUME NEW i \in DOMAIN read
      PROVE  RuntimeFindings(reads, anchors, Runtimes[i], read[i]) \in SUBSET Findings
  <2> DEFINE r == Runtimes[i]
  <2>1. r \in RuntimeNames /\ read[i] \in SUBSET Outcomes
    BY MachineAssumption DEF RuntimeNames
  <2> HIDE DEF r
  <2>2. ASSUME NEW o \in read[i]
        PROVE  ExtraCa(r, o) \cup KeystoreFindings(r, o) \in SUBSET Findings
    <3>1. o.kind \in Kinds /\ o.at \in Nat
      BY <2>1 DEF Outcomes
    <3>2. /\ Says("extra-ca-configured", "ok", r, o) \in Findings
          /\ Says("extra-ca-unreadable", "degraded", r, o) \in Findings
          /\ Says("store-unreadable", "unknown", r, o) \in Findings
      BY <2>1, <3>1, SaysTyped DEF FindingIds
    <3> QED BY <3>2 DEF ExtraCa, KeystoreFindings
  <2>3. ASSUME NEW set \in TrustSets(read[i])
        PROVE  SetFindings(LocallyAdded(reads), anchors, r, set) \in SUBSET Findings
    <3>1. set.kind \in Kinds /\ set.at \in Nat
      BY <2>1, TrustSetTyped
    <3>2. Says("roots-present", "ok", r, set) \in Findings
      BY <2>1, <3>1, SaysTyped DEF FindingIds
    <3>3. MissingRoot(LocallyAdded(reads), anchors, r, set) \in Findings
      BY <2>1, <3>1, SaysTyped DEF FindingIds, MissingRoot
    <3> QED BY <3>2, <3>3 DEF SetFindings
  <2>4. Says("platform-verifier", "ok", r, Whole) \in Findings
    BY <2>1, SaysTyped DEF FindingIds, Whole
  <2>5. Says("store-not-found", "unknown", r, Whole) \in Findings
    BY <2>1, SaysTyped DEF FindingIds, Whole
  <2>6. Verdicts(reads, anchors, r, read[i]) \in SUBSET Findings
    <3> DEFINE sets == UNION {SetFindings(LocallyAdded(reads), anchors, r, set) : set \in TrustSets(read[i])}
    <3>1. sets \in SUBSET Findings
      BY <2>3
    <3>2. \/ Verdicts(reads, anchors, r, read[i]) = {Says("platform-verifier", "ok", r, Whole)}
          \/ Verdicts(reads, anchors, r, read[i]) = {Says("store-not-found", "unknown", r, Whole)}
          \/ Verdicts(reads, anchors, r, read[i]) = {}
          \/ Verdicts(reads, anchors, r, read[i]) = sets
      BY Zenon DEF Verdicts
    <3> HIDE DEF sets
    <3> QED BY <2>4, <2>5, <3>1, <3>2
  <2>7. \A f \in RuntimeFindings(reads, anchors, r, read[i]) :
          \/ f \in Verdicts(reads, anchors, r, read[i])
          \/ \E o \in read[i] : f \in ExtraCa(r, o) \cup KeystoreFindings(r, o)
    BY RuntimeFindingsAre
  <2>8. RuntimeFindings(reads, anchors, r, read[i]) \subseteq Findings
    BY <2>2, <2>6, <2>7
  <2> QED BY <2>8 DEF r
<1>3. Says("indeterminate", "unknown", "", Whole) \in Findings
  BY SaysTyped DEF FindingIds, Whole
<1> DEFINE each == UNION {RuntimeFindings(reads, anchors, Runtimes[i], read[i]) : i \in DOMAIN read}
           none == IF OsRead(reads) = {} THEN {Says("indeterminate", "unknown", "", Whole)} ELSE {}
           all  == OsFindings(reads)
                   \cup (UNION {RuntimeFindings(reads, anchors, Runtimes[i], read[i]) : i \in DOMAIN read})
                   \cup (IF OsRead(reads) = {} THEN {Says("indeterminate", "unknown", "", Whole)} ELSE {})
<1>4. all \in SUBSET Findings
  <2>1. each \subseteq Findings
    BY <1>2
  <2>2. none \subseteq Findings
    BY <1>3
  <2>3. all = OsFindings(reads) \cup each \cup none
    OBVIOUS
  <2> HIDE DEF each, none, all
  <2> QED BY <1>1, <2>1, <2>2, <2>3
<1>5. \/ CrossChecked(reads, read, anchors) = [state |-> "threw", findings |-> {}]
      \/ CrossChecked(reads, read, anchors) = [state |-> "delivered", findings |-> all]
  BY DEF CrossChecked
<1> HIDE DEF all
<1> QED BY <1>4, <1>5

\* Where what a run holds comes from.  The type invariant alone does not say
\* that a store is what the machine has, nor that a report is the comparison of
\* exactly these stores with exactly these anchors.
Sources ==
  /\ pending \subseteq unchecked \X Paths
  /\ \A x \in Targets \X Paths : capture[x] \in Captures \cup {Failed}
  /\ \A k \in DOMAIN os : os[k] \in {ReadPem(world.keychains[k]), Contents({}, "cut", FALSE)}
  /\ \A i \in DOMAIN stores : stores[i] = StoresOf(world, Runtimes[i])
  /\ stores # <<>> => Len(os) = Len(world.keychains)
  /\ report.state = "none" => report.findings = {}
  /\ report.state # "none" => /\ Len(os) = Len(world.keychains) /\ Len(stores) = Len(Runtimes)
                             /\ report = CrossChecked(os, stores, observed)
IInv == TypeOK /\ Sources

\* A run starts with nothing read and nothing said.
LEMMA InitTyped == Init => IInv
<1> SUFFICES ASSUME Init PROVE IInv
  OBVIOUS
<1> USE DEF Init
<1>1. Failed \in CaptureType
  BY DEF Failed, CaptureType
<1>2. capture \in [Targets \X Paths -> CaptureType]
  BY <1>1
<1>3. observed = UNION {Anchors(capture[x]) : x \in (Targets \ unchecked) \X Paths}
  OBVIOUS
<1>4. world \in World
  BY MachineAssumption
<1>5. Len(os) <= Len(world.keychains) /\ Len(stores) <= Len(Runtimes)
  BY <1>4, MachineAssumption DEF World
<1>6. TypeOK
  BY <1>2, <1>3, <1>5 DEF TypeOK
<1>7. Sources
  BY DEF Sources
<1> QED BY <1>6, <1>7 DEF IInv

\* No step disturbs the types or the sources of what is held: one step per action.
LEMMA StepTyped == IInv /\ [Next]_vars => IInv'
<1> SUFFICES ASSUME IInv, [Next]_vars PROVE IInv'
  OBVIOUS
<1> USE DEF IInv
<1>0. Failed \in CaptureType /\ world \in World
  BY MachineAssumption DEF Failed, CaptureType, TypeOK
<1>1. ASSUME NEW t \in Targets, NEW p \in Paths, NEW c \in Captures \cup {Failed}, CaptureSettles(t, p, c)
      PROVE  IInv'
  <2> USE DEF CaptureSettles
  <2>1. c \in CaptureType
    BY <1>0, MachineAssumption
  <2>2. capture' \in [Targets \X Paths -> CaptureType] /\ pending' \subseteq pending
    BY <1>1, <2>1 DEF TypeOK
  <2>3. t \in unchecked
    BY <1>1 DEF Sources
  <2>4. \A x \in (Targets \ unchecked) \X Paths : capture'[x] = capture[x]
    BY <1>1, <2>3 DEF TypeOK
  <2>5. observed' = UNION {Anchors(capture'[x]) : x \in (Targets \ unchecked') \X Paths}
    <3>1. {Anchors(capture'[x]) : x \in (Targets \ unchecked) \X Paths}
            = {Anchors(capture[x]) : x \in (Targets \ unchecked) \X Paths}
      BY <2>4
    <3> QED BY <1>1, <3>1 DEF TypeOK
  <2>6. pending # {}
    BY <1>1
  <2>7. os = <<>> /\ stores = <<>> /\ report.state = "none"
    BY <2>6 DEF TypeOK
  <2>8. TypeOK'
    BY <1>1, <2>2, <2>5, <2>7 DEF TypeOK
  <2>9. \A x \in Targets \X Paths : capture'[x] \in Captures \cup {Failed}
    BY <1>1 DEF TypeOK, Sources
  <2>10. Sources'
    BY <1>1, <2>2, <2>7, <2>9 DEF Sources
  <2> QED BY <2>8, <2>10
<1>2. ASSUME NEW t \in Targets, CheckTarget(t)
      PROVE  IInv'
  <2> USE DEF CheckTarget
  <2>1. unchecked # {}
    BY <1>2
  <2>2. os = <<>> /\ stores = <<>> /\ report.state = "none"
    BY <2>1 DEF TypeOK
  <2>3. (Targets \ unchecked') \X Paths = ((Targets \ unchecked) \X Paths) \cup {<<t, p>> : p \in Paths}
    BY <1>2
  <2>4. observed' = UNION {Anchors(capture[x]) : x \in (Targets \ unchecked') \X Paths}
    <3>1. \A a : a \in observed <=> \E x \in (Targets \ unchecked) \X Paths : a \in Anchors(capture[x])
      BY DEF TypeOK
    <3>2. \A a : a \in observed' <=> \/ a \in observed
                                    \/ \E p \in Paths : a \in Anchors(capture[<<t, p>>])
      BY <1>2 DEF Observes
    <3>3. \A a : a \in observed' <=> \E x \in (Targets \ unchecked') \X Paths : a \in Anchors(capture[x])
      BY <2>3, <3>1, <3>2
    <3> QED BY <3>3
  <2>5. TypeOK'
    BY <1>2, <2>2, <2>4 DEF TypeOK
  <2>6. pending' \subseteq unchecked' \X Paths
    BY <1>2 DEF Sources
  <2>7. Sources'
    BY <1>2, <2>2, <2>6 DEF Sources
  <2> QED BY <2>5, <2>7
<1>3. CASE ReadOsStore
  <2> USE DEF ReadOsStore
  <2>1. PICK outcome \in {ReadPem(world.keychains[Len(os) + 1]), Contents({}, "cut", FALSE)} :
          os' = Append(os, outcome)
    BY <1>3
  <2>2. Len(os) + 1 \in DOMAIN world.keychains /\ world.keychains[Len(os) + 1] \in File
    BY <1>0, <1>3 DEF World, TypeOK
  <2>3. outcome \in ContentsType
    BY <2>2, ReadPemFacts, ContentsTyped DEF Failures
  <2>4. os' \in Seq(ContentsType) /\ Len(os') = Len(os) + 1 /\ os' # <<>>
    BY <2>1, <2>3 DEF TypeOK
  <2>5. pending = {} /\ unchecked = {}
    BY <1>3 DEF AllChecked, Sources
  <2>6. Len(os') <= Len(world.keychains)
    BY <1>0, <1>3, <2>4 DEF World, TypeOK
  <2>7. TypeOK'
    BY <1>3, <2>4, <2>5, <2>6 DEF TypeOK
  <2>8. \A k \in DOMAIN os' : os'[k] \in {ReadPem(world.keychains[k]), Contents({}, "cut", FALSE)}
    <3>1. ASSUME NEW k \in DOMAIN os', k # Len(os) + 1
          PROVE  k \in DOMAIN os /\ os'[k] = os[k]
      BY <2>1, <2>4, <3>1 DEF TypeOK
    <3>2. os'[Len(os) + 1] = outcome
      BY <2>1 DEF TypeOK
    <3> QED BY <3>1, <3>2 DEF Sources
  <2>9. Sources'
    BY <1>3, <2>8 DEF Sources
  <2> QED BY <2>7, <2>9
<1>4. CASE ReadRuntime
  <2> USE DEF ReadRuntime
  <2> DEFINE n == Len(stores) + 1
  <2>1. Runtimes[n] \in RuntimeNames
    BY <1>4, MachineAssumption DEF TypeOK, RuntimeNames
  <2>2. stores' = Append(stores, StoresOf(world, Runtimes[n]))
    BY <1>4
  <2>3. StoresOf(world, Runtimes[n]) \in SUBSET Outcomes
    BY <1>0, <2>1, StoresTyped
  <2>4. stores' \in Seq(SUBSET Outcomes) /\ Len(stores') = n
    BY <2>2, <2>3 DEF TypeOK
  <2>5. Len(stores') <= Len(Runtimes) /\ report.state = "none"
    BY <1>4, <2>4, MachineAssumption DEF TypeOK, Sources
  <2>6. pending = {} /\ unchecked = {}
    BY <1>4 DEF AllChecked, Sources
  <2>7. TypeOK'
    BY <1>4, <2>4, <2>5, <2>6 DEF TypeOK
  <2>8. \A i \in DOMAIN stores' : stores'[i] = StoresOf(world, Runtimes[i])
    BY <2>2 DEF TypeOK, Sources
  <2>9. Sources'
    <3>1. world' = world
      BY <1>4
    <3>2. \A i \in DOMAIN stores' : stores'[i] = StoresOf(world', Runtimes[i])
      BY <2>8, <3>1
    <3> QED BY <1>4, <2>5, <3>2 DEF Sources
  <2> QED BY <2>7, <2>9
<1>5. CASE Compare
  <2> USE DEF Compare
  <2>1. Len(stores) <= Len(Runtimes)
    BY DEF TypeOK
  <2>2. report' \in [state : {"none", "threw", "delivered"}, findings : SUBSET Findings]
    BY <1>5, <2>1, CrossCheckedTyped DEF TypeOK
  <2>3. report'.state # "none"
    BY <1>5 DEF CrossChecked
  <2>4. pending = {} /\ unchecked = {}
    BY <1>5 DEF AllChecked, Sources
  <2>5. TypeOK'
    BY <1>5, <2>2, <2>4 DEF TypeOK
  <2>6. Sources'
    BY <1>5, <2>3 DEF Sources
  <2> QED BY <2>5, <2>6
<1>6. CASE UNCHANGED vars
  <2>1. TypeOK'
    BY <1>6 DEF TypeOK, vars
  <2>2. Sources'
    BY <1>6 DEF Sources, vars
  <2> QED BY <2>1, <2>2
<1> QED BY <1>1, <1>2, <1>3, <1>4, <1>5, <1>6 DEF Next

\* In every run the state is as the type invariant says, and what was read,
\* observed and reported comes from where Sources says: checkTarget, the store
\* readers and crossCheck, whatever the machine and the order.
THEOREM Inductive == Spec => []IInv
<1>1. Init => IInv
  BY InitTyped
<1>2. IInv /\ [Next]_vars => IInv'
  BY StepTyped
<1> QED BY <1>1, <1>2, PTL DEF Spec

\* TypeOK holds in every run: among the rest, the anchors the cross-check gets
\* are those of exactly the chains that were judged, and no store is read while
\* a capture is out.
THEOREM TypeCorrect == Spec => []TypeOK
<1>1. IInv => TypeOK
  BY DEF IInv
<1> QED BY <1>1, Inductive, PTL

\* The findings of a comparison that came to an end.
LEMMA DeliveredFindings ==
  ASSUME IInv, report.state # "none", report.state # "threw", NEW f
  PROVE  f \in report.findings
         <=> \/ f \in OsFindings(os)
             \/ \E i \in DOMAIN stores : f \in RuntimeFindings(os, observed, Runtimes[i], stores[i])
             \/ OsRead(os) = {} /\ f = Says("indeterminate", "unknown", "", Whole)
<1> DEFINE each == UNION {RuntimeFindings(os, observed, Runtimes[i], stores[i]) : i \in DOMAIN stores}
           none == IF OsRead(os) = {} THEN {Says("indeterminate", "unknown", "", Whole)} ELSE {}
           all  == OsFindings(os)
                   \cup (UNION {RuntimeFindings(os, observed, Runtimes[i], stores[i]) : i \in DOMAIN stores})
                   \cup (IF OsRead(os) = {} THEN {Says("indeterminate", "unknown", "", Whole)} ELSE {})
<1>1. \/ CrossChecked(os, stores, observed) = [state |-> "threw", findings |-> {}]
      \/ CrossChecked(os, stores, observed) = [state |-> "delivered", findings |-> all]
  BY DEF CrossChecked
<1>2. report = CrossChecked(os, stores, observed)
  BY DEF IInv, Sources
<1>3. report.findings = all
  <2> HIDE DEF all
  <2> QED BY <1>1, <1>2
<1>4. all = OsFindings(os) \cup each \cup none
  OBVIOUS
<1>5. f \in each <=> \E i \in DOMAIN stores : f \in RuntimeFindings(os, observed, Runtimes[i], stores[i])
  BY Zenon
<1>6. f \in none <=> OsRead(os) = {} /\ f = Says("indeterminate", "unknown", "", Whole)
  OBVIOUS
<1> HIDE DEF each, none, all
<1> QED BY <1>3, <1>4, <1>5, <1>6

\* A finding about the trust of a runtime comes from one of its sets.
LEMMA VerdictOrigin ==
  ASSUME IInv, NEW f \in report.findings, f.id \in {"roots-present", "missing-root"}
  PROVE  \E i \in DOMAIN stores : \E set \in TrustSets(stores[i]) :
           /\ ~Verifies(stores[i]) /\ OsRead(os) # {}
           /\ f \in SetFindings(LocallyAdded(os), observed, Runtimes[i], set)
<1>1. report.state # "none" /\ report.state # "threw"
  <2>1. report.state # "none"
    BY DEF IInv, Sources
  <2>2. report.state = "threw" => report.findings = {}
    <3>1. report = CrossChecked(os, stores, observed)
      BY <2>1 DEF IInv, Sources
    <3> QED BY <3>1 DEF CrossChecked
  <2> QED BY <2>1, <2>2
<1>2. f \notin OsFindings(os)
  <2>1. /\ \A o : Says("os-read", "ok", "", o).id = "os-read"
        /\ \A o : Says("os-unread", "unknown", "", o).id = "os-unread"
        /\ Says("unsupported-platform", "unknown", "", Whole).id = "unsupported-platform"
    BY DEF Says
  <2> QED BY <2>1 DEF OsFindings
<1>3. f # Says("indeterminate", "unknown", "", Whole)
  <2>1. Says("indeterminate", "unknown", "", Whole).id = "indeterminate"
    BY DEF Says
  <2> QED BY <2>1
<1>4. PICK i \in DOMAIN stores : f \in RuntimeFindings(os, observed, Runtimes[i], stores[i])
  <2>1. \/ f \in OsFindings(os)
        \/ \E i \in DOMAIN stores : f \in RuntimeFindings(os, observed, Runtimes[i], stores[i])
        \/ OsRead(os) = {} /\ f = Says("indeterminate", "unknown", "", Whole)
    BY <1>1, DeliveredFindings
  <2> QED BY <1>2, <1>3, <2>1
<1>5. \A o \in stores[i] : f \notin ExtraCa(Runtimes[i], o) /\ f \notin KeystoreFindings(Runtimes[i], o)
  BY DEF ExtraCa, KeystoreFindings, Says
<1>6. f \in Verdicts(os, observed, Runtimes[i], stores[i])
  BY <1>4, <1>5, RuntimeFindingsAre
<1>7. /\ f # Says("platform-verifier", "ok", Runtimes[i], Whole)
      /\ f # Says("store-not-found", "unknown", Runtimes[i], Whole)
  BY DEF Says
<1>8. /\ ~Verifies(stores[i]) /\ OsRead(os) # {}
      /\ \E set \in TrustSets(stores[i]) : f \in SetFindings(LocallyAdded(os), observed, Runtimes[i], set)
  BY <1>6, <1>7 DEF Verdicts
<1> QED BY <1>8

\* The runtime at a place and what was read of it.
LEMMA AtPlace ==
  ASSUME IInv, NEW i \in DOMAIN stores
  PROVE  /\ world \in World /\ Runtimes[i] \in RuntimeNames
         /\ stores[i] = StoresOf(world, Runtimes[i]) /\ stores[i] \in SUBSET Outcomes
<1>1. world \in World
  BY MachineAssumption DEF IInv, TypeOK
<1>2. Runtimes[i] \in RuntimeNames
  BY MachineAssumption DEF IInv, TypeOK, RuntimeNames
<1> QED BY <1>1, <1>2, StoresTyped DEF IInv, Sources

\* What the OS stores that were read add is what the machine has of its own in them.
LEMMA LocallyAddedIs ==
  ASSUME IInv
  PROVE  LocallyAdded(os) = MachineRoots
<1>1. ASSUME NEW k \in OsRead(os)
      PROVE  os[k].pems = world.keychains[k].blocks /\ world.keychains[k].blocks \subseteq Bytes
  <2>1. k \in DOMAIN os /\ os[k].failure = "none"
    BY Zenon DEF OsRead
  <2>2. k \in DOMAIN world.keychains /\ world.keychains[k] \in File
    <3>1. world \in World
      BY MachineAssumption DEF IInv, TypeOK
    <3> QED BY <2>1, <3>1 DEF World, IInv, TypeOK
  <2>3. os[k] = ReadPem(world.keychains[k])
    BY <2>1 DEF IInv, Sources, Contents
  <2>4. world.keychains[k].blocks \subseteq Bytes
    BY <2>2 DEF File
  <2>5. ReadPem(world.keychains[k]).pems = world.keychains[k].blocks
    BY <2>1, <2>2, <2>3, ReadPemFacts
  <2> QED BY <2>3, <2>4, <2>5
<1>2. \A c : c \in LocallyAdded(os) <=> /\ c \notin Bundled /\ c # Junk
                                       /\ \E k \in OsRead(os) : c \in os[k].pems
  BY Zenon DEF LocallyAdded
<1>3. \A c : c \in MachineRoots <=> /\ c \in Certs /\ c \notin Bundled
                                   /\ \E k \in OsRead(os) : c \in world.keychains[k].blocks
  BY Zenon DEF MachineRoots
<1> QED BY <1>1, <1>2, <1>3, CertAssumption DEF Bytes

\* What an outcome that was read holds is in the store it is called after.
LEMMA OutcomeStored ==
  ASSUME world \in World, NEW r \in RuntimeNames, NEW o \in StoresOf(world, r), o.failure = "none"
  PROVE  /\ o.pems \subseteq IF o.combines = "adds-to" THEN Stored("node-bundled", 0) ELSE Held(o.kind, o.at)
         /\ r # "node" => o.combines # "adds-to"
         /\ r = "node" => o.kind = "node-bundled" \/ o.combines = "adds-to"
<1> USE DEF World
<1>1. CASE r = "node"
  <2>1. \/ /\ o.kind = "node-bundled" /\ o.combines = "standalone" /\ o.pems = Bundled
        \/ o.combines = "adds-to" /\ o.pems = ReadPem(world.nodeExtra).pems
    BY <1>1 DEF StoresOf, NodeStores, Outcome, Contents
  <2>2. \A at : Stored("node-bundled", at) = Bundled \cup ReadPem(world.nodeExtra).pems
    BY DEF Stored
  <2> QED BY <1>1, <2>1, <2>2 DEF Held
<1>2. CASE r = "go"
  <2>1. /\ o.combines # "adds-to"
        /\ \/ o.kind = "go-ssl-cert-file" /\ o.pems = ReadPem(world.sslFile).pems
           \/ o.kind = "go-ssl-cert-dir" /\ o.pems = ReadDir(world.sslDir).pems
           \/ o.kind = "platform-verifier" /\ o.pems = {}
           \/ o.kind = "go-system-bundle" /\ o.pems = ReadPem(world.keychains[1]).pems
    <3> DEFINE bundle == IF world.keychains = <<>> THEN NotFound ELSE ReadPem(world.keychains[1])
    <3>1. \/ o = Outcome("go-ssl-cert-file", 0, "replaces", ReadPem(world.sslFile))
          \/ o = Outcome("go-ssl-cert-dir", 0, "replaces", ReadDir(world.sslDir))
          \/ o = Outcome("platform-verifier", 0, "standalone", Contents({}, "none", FALSE))
          \/ o = Outcome("go-system-bundle", 0, "standalone", bundle)
      BY <1>2 DEF StoresOf, GoStores
    <3>2. bundle.failure = "none" => bundle = ReadPem(world.keychains[1])
      BY DEF NotFound, Contents
    <3> HIDE DEF bundle
    <3>3. CASE o = Outcome("go-system-bundle", 0, "standalone", bundle)
      BY <3>2, <3>3 DEF Outcome
    <3> QED BY <3>1, <3>3 DEF Outcome, Contents
  <2>2. /\ \A at : Stored("go-ssl-cert-file", at) = ReadPem(world.sslFile).pems
        /\ \A at : Stored("go-system-bundle", at) = ReadPem(world.keychains[1]).pems
    BY DEF Stored
  <2>3. \A at : Stored("go-ssl-cert-dir", at)
                = UNION {ReadPem(world.sslDir.files[i]).pems : i \in DOMAIN world.sslDir.files}
    BY DEF Stored
  <2>4. ReadDir(world.sslDir).pems \subseteq Stored("go-ssl-cert-dir", o.at)
    BY <2>3, ReadDirFacts
  <2> QED BY <1>2, <2>1, <2>2, <2>4 DEF Held
<1>3. CASE r = "python"
  <2>1. /\ o.combines # "adds-to"
        /\ \/ o.kind = "python-ssl-cert-file" /\ o.pems = ReadPem(world.sslFile).pems
           \/ o.kind = "python-requests-ca-bundle" /\ o.pems = ReadPem(world.requests).pems
           \/ o.kind = "python-certifi" /\ o.pems = ReadPem(world.certifi[o.at]).pems
    <3>1. \A c \in CertifiStores(world) :
            \/ c.failure = "not-found"
            \/ /\ c.kind = "python-certifi" /\ c.combines = "standalone"
               /\ c.pems = ReadPem(world.certifi[c.at]).pems
      BY DEF CertifiStores, Outcome, Contents, NotFound
    <3> QED BY <1>3, <3>1 DEF StoresOf, PythonStores, Outcome
  <2>2. /\ \A at : Stored("python-ssl-cert-file", at) = ReadPem(world.sslFile).pems
        /\ \A at : Stored("python-requests-ca-bundle", at) = ReadPem(world.requests).pems
        /\ \A at : Stored("python-certifi", at) = ReadPem(world.certifi[at]).pems
    BY DEF Stored
  <2> QED BY <1>3, <2>1, <2>2 DEF Held
<1>4. CASE r = "java"
  <2>1. /\ o.combines # "adds-to" /\ o.kind = "java-cacerts"
        /\ o.at \in DOMAIN world.cacerts /\ o.pems = ReadJavaCacerts(world.cacerts[o.at]).pems
    <3>1. \/ o.failure = "not-found"
          \/ /\ o.combines # "adds-to" /\ o.kind = "java-cacerts"
             /\ o.at \in Capped(world.cacerts) /\ o.pems = ReadJavaCacerts(world.cacerts[o.at]).pems
      BY <1>4 DEF StoresOf, JavaStores, Outcome, Contents, NotFound
    <3> QED BY <3>1 DEF Capped
  <2>2. Held("java-cacerts", o.at) = HeldIn(world.cacerts[o.at])
    BY DEF Held, Stored, Riders, HeldIn
  <2>3. world.cacerts[o.at] \in Cacerts
    BY <2>1
  <2> QED BY <1>4, <2>1, <2>2, <2>3, ReadJavaCacertsFacts
<1> QED BY <1>1, <1>2, <1>3, <1>4 DEF RuntimeNames

\* A set of trust holds nothing but what is in the store it is called after.
LEMMA SetStored ==
  ASSUME IInv, NEW i \in DOMAIN stores, NEW set \in TrustSets(stores[i])
  PROVE  set.pems \subseteq Held(set.kind, set.at)
<1> DEFINE outcomes == stores[i]
           r == Runtimes[i]
           extra == UNION {o.pems : o \in Additions(outcomes)}
<1>1. world \in World /\ r \in RuntimeNames /\ outcomes = StoresOf(world, r)
  BY AtPlace
<1>2. PICK b \in outcomes :
        /\ b.failure = "none" /\ b.combines \in {"standalone", "replaces"}
        /\ set = [kind |-> b.kind, at |-> b.at, pems |-> b.pems \cup extra,
                  partial |-> b.partial \/ \E o \in Additions(outcomes) : o.partial]
  BY TrustSetFacts
<1> HIDE DEF r, outcomes
<1>3. \A o \in Additions(outcomes) : o \in outcomes /\ o.failure = "none" /\ o.combines = "adds-to"
  BY DEF Additions
<1>4. b.pems \subseteq Held(b.kind, b.at)
  BY <1>1, <1>2, OutcomeStored
<1>5. extra \subseteq Held(b.kind, b.at)
  <2>1. CASE r = "node"
    <3>1. b.kind = "node-bundled"
      BY <1>1, <1>2, <2>1, OutcomeStored
    <3>2. \A o \in Additions(outcomes) : o.pems \subseteq Stored("node-bundled", 0)
      BY <1>1, <1>3, OutcomeStored
    <3>3. Stored("node-bundled", 0) = Stored("node-bundled", b.at)
      BY DEF Stored
    <3> QED BY <3>1, <3>2, <3>3 DEF Held
  <2>2. CASE r # "node"
    <3>1. Additions(outcomes) = {}
      BY <1>1, <1>3, <2>2, OutcomeStored
    <3> QED BY <3>1
  <2> QED BY <2>1, <2>2
<1> HIDE DEF extra
<1>6. set.kind = b.kind /\ set.at = b.at /\ set.pems = b.pems \cup extra
  BY <1>2
<1> QED BY <1>4, <1>5, <1>6

\* roots-present is earned on any machine: whatever evaluate.ts is given by the
\* readers, a runtime that is said to have every root of the machine has it, but for the
\* chain of a key in a PKCS#12 file.
THEOREM PresentIsEarnedHolds == Spec => []PresentIsEarned
<1>1. IInv => PresentIsEarned
  <2> SUFFICES ASSUME IInv, NEW f \in report.findings, f.id = "roots-present"
               PROVE  OsRead(os) # {} /\ MachineRoots \subseteq Held(f.kind, f.at)
    BY DEF PresentIsEarned
  <2>0. PICK i \in DOMAIN stores : \E set \in TrustSets(stores[i]) :
          OsRead(os) # {} /\ f \in SetFindings(LocallyAdded(os), observed, Runtimes[i], set)
    BY VerdictOrigin
  <2>1. PICK set \in TrustSets(stores[i]) :
          OsRead(os) # {} /\ f \in SetFindings(LocallyAdded(os), observed, Runtimes[i], set)
    BY <2>0
  <2>2. MissingRoot(LocallyAdded(os), observed, Runtimes[i], set).id = "missing-root"
    BY DEF MissingRoot, Says
  <2>3. Missing(LocallyAdded(os), set) = {} /\ f = Says("roots-present", "ok", Runtimes[i], set)
    BY <2>1, <2>2 DEF SetFindings
  <2>4. f.kind = set.kind /\ f.at = set.at
    BY <2>3 DEF Says
  <2>5. MachineRoots \subseteq set.pems
    BY <2>3, LocallyAddedIs DEF Missing
  <2>6. set.pems \subseteq Held(set.kind, set.at)
    BY SetStored
  <2> QED BY <2>1, <2>4, <2>5, <2>6
<1> QED BY <1>1, Inductive, PTL

\* Once every chain is judged, a missing root correlates exactly when a captured
\* chain hangs on it: the bytes of an anchor that was sent say no more than the
\* name does, for such an anchor is self-signed and its chain private.
LEMMA CorrelatedIsServed ==
  ASSUME IInv, unchecked = {}, NEW missing \in SUBSET Certs
  PROVE  Correlated(observed, missing) <=> \E m \in missing : Served(m)
<1>1. \A a : a \in observed <=> \E x \in Targets \X Paths : a \in Anchors(capture[x])
  BY Zenon DEF IInv, TypeOK
<1>2. ASSUME NEW x \in Targets \X Paths, NEW a \in Anchors(capture[x])
      PROVE  /\ Readable(capture[x]) /\ capture[x].ok
             /\ Class(capture[x].chain) # "public" /\ a = Anchor(capture[x].chain)
  <2>1. Readable(capture[x]) /\ Class(capture[x].chain) # "public" /\ a = Anchor(capture[x].chain)
    BY <1>2 DEF Anchors
  <2>2. capture[x] # Failed
    BY <2>1 DEF Readable, Failed
  <2>3. capture[x] \in Captures
    BY <2>2 DEF IInv, Sources
  <2> QED BY <2>1, <2>3, MachineAssumption
<1>3. ASSUME NEW m \in missing, NEW a \in observed,
             a.der = m \/ (a.class = "private" /\ m.subject = a.issuer)
      PROVE  Served(m)
  <2>1. PICK x \in Targets \X Paths : a \in Anchors(capture[x])
    BY <1>1, <1>3
  <2> DEFINE chain == capture[x].chain
             last == Terminus(chain)
  <2>2. /\ Readable(capture[x]) /\ capture[x].ok /\ Class(chain) # "public"
        /\ a = Anchor(chain)
    BY <1>2, <2>1
  <2>3. a.class = Class(chain) /\ a.issuer = last.issuer
        /\ a.der = IF SelfSigned(last) THEN last ELSE Junk
    BY <2>2 DEF Anchor
  <2>4. m # Junk
    BY CertAssumption
  <2>5. CASE a.der = m
    <3>1. SelfSigned(last) /\ last = m
      BY <2>3, <2>4, <2>5
    <3>2. Class(chain) = "private"
      BY <2>2, <3>1 DEF Class
    <3>3. last.issuer = m.subject
      BY <3>1 DEF SelfSigned
    <3> QED BY <2>2, <3>2, <3>3 DEF Served
  <2>6. CASE a.class = "private" /\ m.subject = a.issuer
    BY <2>2, <2>3, <2>6 DEF Served
  <2> QED BY <1>3, <2>5, <2>6
<1>4. ASSUME NEW m \in missing, Served(m)
      PROVE  Correlated(observed, missing)
  <2>1. PICK x \in Targets \X Paths :
          /\ capture[x].ok /\ Readable(capture[x])
          /\ Class(capture[x].chain) = "private" /\ Terminus(capture[x].chain).issuer = m.subject
    BY <1>4 DEF Served
  <2> DEFINE a == Anchor(capture[x].chain)
  <2>2. a \in Anchors(capture[x])
    BY <2>1 DEF Anchors
  <2>3. a \in observed
    BY <1>1, <2>2
  <2>4. a.class = "private" /\ m.subject = a.issuer
    BY <2>1 DEF Anchor
  <2> HIDE DEF a
  <2> QED BY <2>3, <2>4 DEF Correlated
<1>5. Correlated(observed, missing)
        <=> \E a \in observed : \E m \in missing : a.der = m \/ (a.class = "private" /\ m.subject = a.issuer)
  BY DEF Correlated
<1> QED BY <1>3, <1>4, <1>5

\* A blocker for a missing root is what the captured chains prove, no more and
\* no less: the roots found missing by cert-index and the anchors that the tls
\* probe left behind are put together for every order of the captures.
THEOREM BlockerIffServedHolds == Spec => []BlockerIffServed
<1>1. IInv => BlockerIffServed
  <2> DEFINE Proves(f, i, set) == /\ f.id = "missing-root" /\ f.severity = "blocker"
                                 /\ f.runtime = Runtimes[i] /\ f.kind = set.kind /\ f.at = set.at
  <2> SUFFICES ASSUME IInv, NEW i \in DOMAIN stores, NEW set \in TrustSets(stores[i]),
                      report.state = "delivered", ~Verifies(stores[i])
               PROVE  (\E f \in report.findings : Proves(f, i, set))
                      <=> (~set.partial /\ \E m \in MachineRoots \ set.pems : Served(m))
    BY DEF BlockerIffServed
  <2> DEFINE added == LocallyAdded(os)
             found == MissingRoot(added, observed, Runtimes[i], set)
  <2>1. unchecked = {}
    BY DEF IInv, TypeOK
  <2>2. added = MachineRoots /\ Missing(added, set) = MachineRoots \ set.pems
    BY LocallyAddedIs DEF Missing
  <2>3. Correlated(observed, Missing(added, set)) <=> \E m \in MachineRoots \ set.pems : Served(m)
    <3>1. MachineRoots \ set.pems \in SUBSET Certs
      BY DEF MachineRoots
    <3> QED BY <2>1, <2>2, <3>1, CorrelatedIsServed
  <2>4. /\ found.id = "missing-root" /\ found.runtime = Runtimes[i]
        /\ found.kind = set.kind /\ found.at = set.at
        /\ found.severity = IF set.partial \/ ~Correlated(observed, Missing(added, set))
                            THEN "degraded" ELSE "blocker"
    BY DEF MissingRoot, Says
  <2> HIDE DEF added, found
  <2>5. ASSUME NEW f \in report.findings, Proves(f, i, set)
        PROVE  f = found
    <3>1. PICK j \in DOMAIN stores : \E other \in TrustSets(stores[j]) :
            f \in SetFindings(added, observed, Runtimes[j], other)
      BY <2>5, VerdictOrigin DEF added
    <3>2. PICK other \in TrustSets(stores[j]) : f \in SetFindings(added, observed, Runtimes[j], other)
      BY <3>1
    <3>3. Says("roots-present", "ok", Runtimes[j], other).id = "roots-present"
      BY DEF Says
    <3>4. f = MissingRoot(added, observed, Runtimes[j], other)
      BY <2>5, <3>2, <3>3 DEF SetFindings
    <3>5. f.runtime = Runtimes[j] /\ f.kind = other.kind /\ f.at = other.at
      BY <3>4 DEF MissingRoot, Says
    <3>6. Runtimes[j] = Runtimes[i] /\ stores[j] = stores[i]
      BY <2>5, <3>5, AtPlace
    <3>7. other = set
      BY <2>5, <3>5, <3>6, AtPlace, TrustSetsNamed
    <3> QED BY <3>4, <3>6, <3>7 DEF found
  <2>6. ASSUME NEW m \in MachineRoots \ set.pems
        PROVE  found \in report.findings
    <3>1. OsRead(os) # {}
      BY DEF MachineRoots
    <3>2. found \in SetFindings(added, observed, Runtimes[i], set)
      BY <2>2 DEF SetFindings, found
    <3>3. found \in Verdicts(os, observed, Runtimes[i], stores[i])
      BY <3>1, <3>2 DEF Verdicts, added
    <3>4. found \in RuntimeFindings(os, observed, Runtimes[i], stores[i])
      BY <3>3, RuntimeFindingsAre
    <3> QED BY <3>4, DeliveredFindings
  <2> QED BY <2>3, <2>4, <2>5, <2>6
<1> QED BY <1>1, Inductive, PTL

\* A store of a runtime that was read, and is not there to be joined to others,
\* makes a set of trust.
LEMMA ReadMakesSet ==
  ASSUME NEW outcomes, NEW o \in outcomes, o.failure = "none", o.kind # "platform-verifier",
         o.combines \in {"standalone", "replaces"}
  PROVE  TrustSets(outcomes) # {}
<1> DEFINE readable  == {x \in outcomes : x.failure = "none" /\ x.kind # "platform-verifier"}
           additions == {x \in readable : x.combines = "adds-to"}
           replacing == {x \in readable : x.combines = "replaces"}
           bases == IF replacing # {} THEN replacing ELSE {x \in readable : x.combines = "standalone"}
           made(b) == [kind |-> b.kind, at |-> b.at, pems |-> b.pems \cup UNION {x.pems : x \in additions},
                       partial |-> b.partial \/ \E x \in additions : x.partial]
<1>1. bases # {}
  OBVIOUS
<1>2. TrustSets(outcomes) = {made(b) : b \in bases}
  BY Zenon DEF TrustSets
<1> HIDE DEF bases, made
<1> QED BY <1>1, <1>2

\* A runtime without a set of trust, in a report that is ok all over, is a
\* Python with bundles that are there and of no use.
LEMMA NoSetMeansCertifi ==
  ASSUME IInv, report.state = "delivered", \A f \in report.findings : f.severity = "ok",
         os # <<>>, OsRead(os) = DOMAIN os,
         NEW i \in DOMAIN stores, ~Verifies(stores[i]), TrustSets(stores[i]) = {}
  PROVE  Runtimes[i] = "python" /\ CertifiUnusable
<1> DEFINE r == Runtimes[i]
           outcomes == stores[i]
<1>1. /\ world \in World /\ r \in RuntimeNames
      /\ outcomes = StoresOf(world, r) /\ outcomes \in SUBSET Outcomes
  BY AtPlace
<1>2. \A f \in RuntimeFindings(os, observed, r, outcomes) : f.severity = "ok"
  BY DeliveredFindings
<1>3. Located(outcomes)
  <2>1. Says("store-not-found", "unknown", r, Whole).severity = "unknown"
    BY DEF Says
  <2>2. ~Located(outcomes) => Says("store-not-found", "unknown", r, Whole) \in Verdicts(os, observed, r, outcomes)
    BY DEF Verdicts
  <2> QED BY <1>2, <2>1, <2>2, RuntimeFindingsAre
<1> HIDE DEF r, outcomes
<1>4. PICK o \in outcomes : o.failure \notin {"not-configured", "not-found"}
  BY <1>3 DEF Located
<1>5. o.kind \in EnvKinds => o.failure = "none"
  <2>1. Says("extra-ca-unreadable", "degraded", r, o).severity = "degraded"
    BY DEF Says
  <2>2. o.kind \in EnvKinds /\ o.failure # "none"
          => Says("extra-ca-unreadable", "degraded", r, o) \in ExtraCa(r, o)
    BY <1>4 DEF ExtraCa
  <2> QED BY <1>2, <2>1, <2>2, RuntimeFindingsAre
<1>6. o.kind = "java-cacerts" => o.failure = "none"
  <2>1. Says("store-unreadable", "unknown", r, o).severity = "unknown"
    BY DEF Says
  <2>2. o.kind = "java-cacerts" /\ o.failure # "none"
          => Says("store-unreadable", "unknown", r, o) \in KeystoreFindings(r, o)
    BY <1>4 DEF KeystoreFindings
  <2> QED BY <1>2, <2>1, <2>2, RuntimeFindingsAre
<1>7. \A x \in outcomes : x.failure = "none" => x.combines = "adds-to"
  <2>1. \A x \in outcomes : x.combines \in {"standalone", "adds-to", "replaces"}
    BY <1>1 DEF Outcomes
  <2>2. \A x \in outcomes : x.kind # "platform-verifier"
    BY DEF Verifies, outcomes
  <2> QED BY <2>1, <2>2, ReadMakesSet DEF outcomes
<1>8. r # "node" => o.failure # "none" /\ o.kind \notin EnvKinds \cup {"java-cacerts"}
  BY <1>1, <1>5, <1>6, <1>7, OutcomeStored
<1>9. r # "node"
  <2> DEFINE own == Outcome("node-bundled", 0, "standalone",
                       Contents(Bundled, IF Bundled = {} THEN "no-certificates" ELSE "none", FALSE))
  <2>1. r = "node" => own \in outcomes
    BY <1>1 DEF StoresOf, NodeStores
  <2>2. own.failure = "none" /\ own.combines = "standalone"
    BY MachineAssumption DEF Outcome, Contents
  <2> HIDE DEF own
  <2> QED BY <1>7, <2>1, <2>2
<1>10. r # "java"
  <2>1. r = "java" => o.kind = "java-cacerts"
    BY <1>1 DEF StoresOf, JavaStores, Outcome
  <2> QED BY <1>8, <1>9, <2>1
<1>11. r # "go"
  <2> SUFFICES ASSUME r = "go" PROVE FALSE
    OBVIOUS
  <2> DEFINE bundle == IF world.keychains = <<>> THEN NotFound ELSE ReadPem(world.keychains[1])
  <2>1. o.kind \in EnvKinds \/ o.kind = "platform-verifier"
          \/ (o.kind = "go-system-bundle" /\ o.failure = bundle.failure)
    <3>1. \/ o = Outcome("go-ssl-cert-file", 0, "replaces", ReadPem(world.sslFile))
          \/ o = Outcome("go-ssl-cert-dir", 0, "replaces", ReadDir(world.sslDir))
          \/ o = Outcome("platform-verifier", 0, "standalone", Contents({}, "none", FALSE))
          \/ o = Outcome("go-system-bundle", 0, "standalone", bundle)
      BY <1>1 DEF StoresOf, GoStores
    <3> HIDE DEF bundle
    <3>2. /\ \A c : Outcome("go-ssl-cert-file", 0, "replaces", c).kind = "go-ssl-cert-file"
          /\ \A c : Outcome("go-ssl-cert-dir", 0, "replaces", c).kind = "go-ssl-cert-dir"
          /\ \A c : Outcome("platform-verifier", 0, "standalone", c).kind = "platform-verifier"
          /\ Outcome("go-system-bundle", 0, "standalone", bundle).kind = "go-system-bundle"
          /\ Outcome("go-system-bundle", 0, "standalone", bundle).failure = bundle.failure
      BY DEF Outcome
    <3> QED BY <3>1, <3>2 DEF EnvKinds
  <2>2. o.kind # "platform-verifier"
    BY DEF Verifies, outcomes
  <2>3. bundle = ReadPem(world.keychains[1]) /\ bundle.failure = "none"
    <3>1. 1 \in DOMAIN os /\ world.keychains # <<>>
      BY <1>1 DEF IInv, TypeOK, World
    <3>2. os[1].failure = "none"
      BY <3>1 DEF OsRead
    <3>3. os[1] = ReadPem(world.keychains[1])
      BY <3>1, <3>2 DEF IInv, Sources, Contents
    <3> QED BY <3>1, <3>2, <3>3
  <2> HIDE DEF bundle
  <2> QED BY <1>8, <2>1, <2>2, <2>3
<1>12. r = "python"
  BY <1>1, <1>9, <1>10, <1>11 DEF RuntimeNames
<1>13. CertifiUnusable
  <2>1. outcomes = PythonStores(world)
    BY <1>1, <1>12 DEF StoresOf
  <2>2. o \in CertifiStores(world)
    BY <1>8, <1>12, <2>1 DEF PythonStores, Outcome, EnvKinds
  <2>3. world.certifi # <<>>
    BY <1>4, <2>2 DEF CertifiStores, NotFound, Contents, Outcome
  <2>4. ASSUME NEW j \in Capped(world.certifi)
        PROVE  ReadPem(world.certifi[j]).failure # "none"
    <3> DEFINE bundle == Outcome("python-certifi", j, "standalone", ReadPem(world.certifi[j]))
    <3>1. bundle \in outcomes
      BY <2>1, <2>3 DEF PythonStores, CertifiStores
    <3>2. bundle.failure = ReadPem(world.certifi[j]).failure /\ bundle.combines = "standalone"
      BY DEF Outcome
    <3> HIDE DEF bundle
    <3> QED BY <1>7, <3>1, <3>2
  <2> QED BY <2>3, <2>4 DEF CertifiUnusable
<1> QED BY <1>12, <1>13 DEF r

\* A report that is ok all over is earned on any machine: no combination of
\* reads that were cut, capped, shadowed or not there is passed over in silence,
\* but for the bundles of a Python and the chain of a key in a PKCS#12 file.
THEOREM AllClearIsEarnedHolds == Spec => []AllClearIsEarned
<1>1. IInv => AllClearIsEarned
  <2> SUFFICES ASSUME IInv, report.state = "delivered", \A f \in report.findings : f.severity = "ok"
               PROVE  /\ os # <<>> /\ OsRead(os) = DOMAIN os
                      /\ \A i \in DOMAIN stores :
                           \/ Verifies(stores[i])
                           \/ /\ TrustSets(stores[i]) # {}
                              /\ \A set \in TrustSets(stores[i]) : MachineRoots \subseteq Held(set.kind, set.at)
                           \/ Runtimes[i] = "python" /\ CertifiUnusable
    BY DEF AllClearIsEarned
  <2>1. \A f \in OsFindings(os) : f.severity = "ok"
    BY DeliveredFindings
  <2>2. os # <<>>
    <3>1. Says("unsupported-platform", "unknown", "", Whole).severity = "unknown"
      BY DEF Says
    <3> QED BY <2>1, <3>1 DEF OsFindings
  <2>3. OsRead(os) = DOMAIN os
    <3>1. \A k : Says("os-unread", "unknown", "", [kind |-> "os", at |-> k]).severity = "unknown"
      BY DEF Says
    <3>2. \A k \in DOMAIN os \ OsRead(os) :
            Says("os-unread", "unknown", "", [kind |-> "os", at |-> k]) \in OsFindings(os)
      BY DEF OsFindings
    <3>3. OsRead(os) \subseteq DOMAIN os
      BY DEF OsRead
    <3> QED BY <2>1, <3>1, <3>2, <3>3
  <2>4. OsRead(os) # {}
    <3>1. os \in Seq(ContentsType)
      BY DEF IInv, TypeOK
    <3>2. 1 \in DOMAIN os
      BY <2>2, <3>1
    <3> QED BY <2>3, <3>2
  <2>5. ASSUME NEW i \in DOMAIN stores, ~Verifies(stores[i]), TrustSets(stores[i]) # {},
               NEW set \in TrustSets(stores[i])
        PROVE  MachineRoots \subseteq Held(set.kind, set.at)
    <3> DEFINE added == LocallyAdded(os)
    <3>1. MissingRoot(added, observed, Runtimes[i], set).severity # "ok"
      BY DEF MissingRoot, Says
    <3>2. SetFindings(added, observed, Runtimes[i], set) \subseteq report.findings
      <4>1. SetFindings(added, observed, Runtimes[i], set) \subseteq Verdicts(os, observed, Runtimes[i], stores[i])
        BY <2>4, <2>5 DEF Verdicts
      <4> QED BY <4>1, RuntimeFindingsAre, DeliveredFindings
    <3>3. Missing(added, set) = {}
      BY <3>1, <3>2 DEF SetFindings
    <3> QED BY <3>3, LocallyAddedIs, SetStored DEF Missing
  <2> QED BY <2>2, <2>3, <2>5, NoSetMeansCertifi
<1> QED BY <1>1, Inductive, PTL
\* A certificate that does not parse costs the report only from a store that a
\* runtime of the profile is compared by.
THEOREM ThrowsOnlyForJunkHolds == Spec => []ThrowsOnlyForJunk
<1>1. IInv => ThrowsOnlyForJunk
  <2> SUFFICES ASSUME IInv, report.state = "threw"
               PROVE  /\ OsRead(os) # {}
                      /\ \E i \in DOMAIN Runtimes :
                           /\ ~Verifies(StoresOf(world, Runtimes[i]))
                           /\ \E set \in TrustSets(StoresOf(world, Runtimes[i])) : Junk \in Held(set.kind, set.at)
    BY DEF ThrowsOnlyForJunk
  <2>1. report = CrossChecked(os, stores, observed)
    BY DEF IInv, Sources
  <2>2. PICK i \in DOMAIN stores : IndexThrows(os, stores[i])
    BY <2>1 DEF CrossChecked
  <2>3. PICK set \in TrustSets(stores[i]) :
          ~Verifies(stores[i]) /\ OsRead(os) # {} /\ Junk \in set.pems
    BY <2>2 DEF IndexThrows
  <2>4. set.pems \subseteq Held(set.kind, set.at)
    BY SetStored
  <2>5. i \in DOMAIN Runtimes
    BY MachineAssumption DEF IInv, TypeOK
  <2> QED BY <2>3, <2>4, <2>5, AtPlace
<1> QED BY <1>1, Inductive, PTL

-----------------------------------------------------------------------------
(***************************************************************************)
(* What the tls probe says of a chain, and what padding does to it.        *)
(***************************************************************************)
\* Only what was attempted is out, or has come to anything.
Tried ==
  /\ \A x \in pending : Attempted(x[2])
  /\ \A x \in Targets \X Paths : capture[x].ok => Attempted(x[2])

LEMMA TriedStep == IInv /\ Tried /\ [Next]_vars => Tried'
<1> SUFFICES ASSUME IInv, Tried, [Next]_vars PROVE Tried' OBVIOUS
<1>1. ASSUME NEW t \in Targets, NEW p \in Paths, NEW c \in Captures \cup {Failed}, CaptureSettles(t, p, c)
      PROVE  Tried'
  <2>1. Attempted(p) /\ proxied' = proxied /\ pending' \subseteq pending
    BY <1>1 DEF CaptureSettles, Tried
  <2>2. \A x \in Targets \X Paths : x = <<t, p>> \/ capture'[x] = capture[x]
    BY <1>1 DEF CaptureSettles, IInv, TypeOK
  <2>3. \A q : Attempted(q)' <=> Attempted(q) BY <2>1 DEF Attempted
  <2>4. <<t, p>>[2] = p OBVIOUS
  <2> QED BY <2>1, <2>2, <2>3, <2>4 DEF Tried
<1>2. ASSUME UNCHANGED <<proxied, pending, capture>> PROVE Tried'
  BY <1>2 DEF Tried, Attempted
<1> QED BY <1>1, <1>2 DEF Next, CheckTarget, ReadOsStore, ReadRuntime, Compare, vars

LEMMA TriedHolds == Spec => []Tried
<1>1. Init => Tried
  <2> SUFFICES ASSUME Init PROVE Tried OBVIOUS
  <2>1. pending = Targets \X {p \in Paths : Attempted(p)} BY DEF Init
  <2>2. \A x \in Targets \X Paths : capture[x].ok = FALSE BY DEF Init, Failed
  <2> QED BY <2>1, <2>2 DEF Tried
<1> QED BY <1>1, TriedStep, Inductive, PTL DEF Spec

\* A chain that can be read is one of certificates.
LEMMA ReadableChain ==
  ASSUME IInv, NEW x \in Targets \X Paths, Readable(capture[x])
  PROVE  capture[x].chain \in Seq(Certs) /\ capture[x].chain # <<>>
<1> DEFINE chain == capture[x].chain
<1>1. chain \in Seq(Certs \cup {Junk}) BY DEF IInv, TypeOK, CaptureType, Bytes
<1>2. chain # <<>> /\ \A i \in DOMAIN chain : chain[i] # Junk BY DEF Readable
<1> HIDE DEF chain
<1>3. Len(chain) \in Nat /\ \A i \in 1..Len(chain) : chain[i] \in Certs BY <1>1, <1>2
<1>4. [i \in 1..Len(chain) |-> chain[i]] \in Seq(Certs) BY <1>3
<1>5. chain = [i \in 1..Len(chain) |-> chain[i]] BY <1>1
<1>6. chain \in Seq(Certs) BY <1>4, <1>5
<1> QED BY <1>2, <1>6 DEF chain

\* When checkTarget judges a chain that ends in a self-signed certificate, whatever
\* the peer had appended would have changed neither its class nor its anchor.
THEOREM PaddingChangesNothingHolds == Spec => PaddingChangesNothing
<1>1. ASSUME IInv, NEW t \in unchecked, NEW p \in Paths, NEW pad \in Certs,
             Readable(capture[<<t, p>>]), SelfSigned(Terminus(capture[<<t, p>>].chain))
      PROVE  /\ Class(Append(capture[<<t, p>>].chain, pad)) = Class(capture[<<t, p>>].chain)
             /\ Anchor(Append(capture[<<t, p>>].chain, pad)) = Anchor(capture[<<t, p>>].chain)
  <2> DEFINE chain == capture[<<t, p>>].chain
  <2>1. <<t, p>> \in Targets \X Paths BY <1>1 DEF IInv, TypeOK
  <2>2. chain \in Seq(Certs) /\ chain # <<>> BY <1>1, <2>1, ReadableChain
  <2>3. SelfSigned(Terminus(chain)) BY <1>1
  <2> HIDE DEF chain
  <2>4. Begins(chain, Append(chain, pad)) BY <2>2 DEF Begins
  <2>5. Class(Append(chain, pad)) = Class(chain) /\ Anchor(Append(chain, pad)) = Anchor(chain)
    BY <2>2, <2>3, <2>4, PaddingIsIgnored
  <2> QED BY <2>5 DEF chain
<1>2. IInv /\ [Next]_vars =>
        [\A t \in unchecked \ unchecked' : \A p \in Paths : \A pad \in Certs :
           LET chain == capture[<<t, p>>].chain
           IN Readable(capture[<<t, p>>]) /\ SelfSigned(Terminus(chain)) =>
                /\ Class(Append(chain, pad)) = Class(chain)
                /\ Anchor(Append(chain, pad)) = Anchor(chain)]_vars
  BY <1>1
<1> QED BY <1>2, Inductive, PTL DEF Spec, PaddingChangesNothing

\* Two certificates behind the leaf in the place of one another: a chain in another order.
LEMMA SwappedIsReordered ==
  ASSUME NEW c \in CaptureType, c.chain \in Seq(Certs), NEW j \in 2..Len(c.chain), NEW k \in 2..Len(c.chain)
  PROVE  /\ Reordered(c.chain, Swapped(c, j, k).chain)
         /\ Swapped(c, j, k).rank = c.rank /\ Swapped(c, j, k).sni = c.sni
<1> DEFINE chain == c.chain
           other == [chain EXCEPT ![j] = chain[k], ![k] = chain[j]]
           move == [i \in 1..Len(chain) |-> IF i = j THEN k ELSE IF i = k THEN j ELSE i]
<1>1. /\ Swapped(c, j, k).chain = other
      /\ Swapped(c, j, k).rank = c.rank /\ Swapped(c, j, k).sni = c.sni
  BY DEF Swapped, CaptureType
<1> HIDE DEF chain
<1>2. /\ chain \in Seq(Certs) /\ Len(chain) \in Nat /\ j \in 1..Len(chain) /\ k \in 1..Len(chain)
      /\ j # 1 /\ k # 1 /\ 1 \in 1..Len(chain)
  BY DEF chain
<1>3. other \in Seq(Certs) /\ Len(other) = Len(chain) BY <1>2
<1>4. \A i \in 1..Len(chain) : move[i] \in 1..Len(chain) /\ move[move[i]] = i BY <1>2
<1>5. \A i \in 1..Len(chain) : other[i] = chain[move[i]] BY <1>2
<1>6. move \in [1..Len(chain) -> 1..Len(chain)] /\ move[1] = 1 BY <1>2
<1> HIDE DEF other, move
<1>7. \A i \in 1..Len(chain) : \E h \in 1..Len(chain) : move[h] = i BY <1>4
<1>8. \A h, i \in 1..Len(chain) : move[h] = move[i] => h = i BY <1>4
<1>9. Moves(chain, other, move) BY <1>3, <1>5, <1>6, <1>7, <1>8 DEF Moves
<1> QED BY <1>1, <1>9 DEF Reordered, chain

\* When checkTarget judges a chain no two of which bear the same name, the order in
\* which the peer sent what is behind the leaf matters to nothing it says or hands on.
THEOREM OrderChangesNothingHolds == Spec => OrderChangesNothing
<1>1. ASSUME IInv, NEW t \in unchecked, NEW p \in Paths,
             Readable(capture[<<t, p>>]), OneName(capture[<<t, p>>].chain),
             NEW j \in 2..Len(capture[<<t, p>>].chain), NEW k \in 2..Len(capture[<<t, p>>].chain)
      PROVE  /\ EvaluateChain(Swapped(capture[<<t, p>>], j, k), t \in Required)
                  = EvaluateChain(capture[<<t, p>>], t \in Required)
             /\ Anchors(Swapped(capture[<<t, p>>], j, k)) = Anchors(capture[<<t, p>>])
  <2> DEFINE c == capture[<<t, p>>]
             other == Swapped(c, j, k)
  <2>1. <<t, p>> \in Targets \X Paths BY <1>1 DEF IInv, TypeOK
  <2>2. c.chain \in Seq(Certs) /\ c.chain # <<>> BY <1>1, <2>1, ReadableChain
  <2>3. c \in CaptureType
    <3>1. capture \in [Targets \X Paths -> CaptureType] BY <1>1 DEF IInv, TypeOK
    <3> HIDE DEF c
    <3>2. \A x \in Targets \X Paths : capture[x] \in CaptureType BY <3>1
    <3> QED BY <2>1, <3>2 DEF c
  <2>4. OneName(c.chain) /\ j \in 2..Len(c.chain) /\ k \in 2..Len(c.chain) BY <1>1
  <2> HIDE DEF c
  <2>5. Reordered(c.chain, other.chain) /\ other.rank = c.rank /\ other.sni = c.sni
    BY <2>2, <2>3, <2>4, SwappedIsReordered
  <2> HIDE DEF other
  <2>6. EvaluateChain(other, t \in Required) = EvaluateChain(c, t \in Required) /\ Anchors(other) = Anchors(c)
    BY <2>2, <2>4, <2>5, OrderIsIgnored
  <2> QED BY <2>6 DEF c, other
<1>2. IInv /\ [Next]_vars =>
        [\A t \in unchecked \ unchecked' : \A p \in Paths :
           LET c == capture[<<t, p>>]
           IN Readable(c) /\ OneName(c.chain) =>
                \A j, k \in 2..Len(c.chain) :
                   /\ EvaluateChain(Swapped(c, j, k), t \in Required) = EvaluateChain(c, t \in Required)
                   /\ Anchors(Swapped(c, j, k)) = Anchors(c)]_vars
  BY <1>1
<1> QED BY <1>2, Inductive, PTL DEF Spec, OrderChangesNothing

\* What checkTarget says of a path that was attempted and captured: all that
\* evaluateChain does.
LEMMA SaidOfPath ==
  ASSUME NEW t, NEW p \in Paths, CheckTarget(t), Attempted(p), capture[<<t, p>>].ok,
         NEW f \in EvaluateChain(capture[<<t, p>>], t \in Required)
  PROVE  [target |-> t, path |-> p, id |-> f.id, severity |-> f.severity] \in said'
<1>1. f \in PathFindings(t, p) BY DEF PathFindings
<1>2. [target |-> t, path |-> p, id |-> f.id, severity |-> f.severity] \in Tagged(t, p, PathFindings(t, p))
  BY <1>1 DEF Tagged
<1>3. UNION {Tagged(t, q, PathFindings(t, q)) : q \in Paths} \subseteq said' BY DEF CheckTarget
<1> QED BY <1>2, <1>3

\* Nothing but ok from the tls probe about a captured chain means that a client would
\* take it: it leads to a bundled root, is valid, names the host and its version is in
\* the profile.
THEOREM QuietMeansAcceptableHolds == Spec => QuietMeansAcceptable
<1>1. ASSUME IInv, Tried, NEW t \in Targets, CheckTarget(t), NEW p \in Paths, capture[<<t, p>>].ok,
             \A f \in said' : f.target = t /\ f.path = p => f.severity = "ok"
      PROVE  Acceptable(capture[<<t, p>>])
  <2> DEFINE c == capture[<<t, p>>]
  <2>1. <<t, p>> \in Targets \X Paths /\ <<t, p>>[2] = p OBVIOUS
  <2>2. Attempted(p) BY <1>1, <2>1 DEF Tried
  <2>3. c \in CaptureType
    <3>1. capture \in [Targets \X Paths -> CaptureType] BY <1>1 DEF IInv, TypeOK
    <3> HIDE DEF c
    <3>2. \A x \in Targets \X Paths : capture[x] \in CaptureType BY <3>1
    <3> QED BY <2>1, <3>2 DEF c
  <2>4. c.chain \in Seq(Certs \cup {Junk}) /\ c.rank \in Int BY <2>3 DEF CaptureType, Bytes
  <2>5. \A f \in EvaluateChain(c, t \in Required) : f.severity = "ok"
    <3> TAKE f \in EvaluateChain(c, t \in Required)
    <3> DEFINE g == [target |-> t, path |-> p, id |-> f.id, severity |-> f.severity]
    <3>1. g \in said' BY <1>1, <2>2, SaidOfPath
    <3>2. g.target = t /\ g.path = p /\ g.severity = f.severity OBVIOUS
    <3> QED BY <1>1, <3>1, <3>2
  <2> HIDE DEF c
  <2>6. /\ Readable(c) /\ c.chain \in Seq(Certs) /\ Class(c.chain) = "public" /\ c.rank >= Floor
        /\ \A i \in 1..Len(c.chain) : /\ c.chain[i].from <= Now
                                      /\ c.chain[i].until > Now + EXPIRY_WARNING_DAYS * Day
        /\ c.sni # <<>> => \E pattern \in c.chain[1].names : MatchesDnsName(c.sni, pattern)
    BY <2>4, <2>5, QuietChainHolds
  <2>7. c.chain # <<>> BY <2>6 DEF Readable
  <2>8. LeadsToBundled(c.chain) BY <2>6, <2>7, PublicIsProved DEF LeadsToBundled
  <2>9. DOMAIN c.chain = 1..Len(c.chain) BY <2>6
  <2>10. Acceptable(c) BY <2>6, <2>8, <2>9 DEF Acceptable
  <2> QED BY <2>10 DEF c
<1>2. IInv /\ Tried /\ [Next]_vars =>
        [said' # said =>
           \A x \in (unchecked \ unchecked') \X Paths :
             capture[x].ok /\ (\A f \in said' : f.target = x[1] /\ f.path = x[2] => f.severity = "ok")
               => Acceptable(capture[x])]_vars
  <2> SUFFICES ASSUME IInv, Tried, Next, NEW t \in unchecked \ unchecked', NEW p \in Paths,
                      capture[<<t, p>>].ok,
                      \A f \in said' : f.target = t /\ f.path = p => f.severity = "ok"
               PROVE  Acceptable(capture[<<t, p>>])
    OBVIOUS
  <2>1. PICK u \in Targets : CheckTarget(u)
    BY DEF Next, CaptureSettles, ReadOsStore, ReadRuntime, Compare
  <2>2. t = u BY <2>1 DEF CheckTarget
  <2> QED BY <1>1, <2>1, <2>2
<1> QED BY <1>2, Inductive, TriedHolds, PTL DEF Spec, QuietMeansAcceptable

-----------------------------------------------------------------------------
(***************************************************************************)
(* The walk through a keystore, of any number of parts.                    *)
(***************************************************************************)
\* The certificates of a keystore that lie open, read or not.
OpenIn(parts) == {i \in DOMAIN parts : parts[i].kind \in Opened}

\* The walk never holds more than it collects: the last certificate it came to had fewer
\* before it.
LEMMA CapIsKept ==
  ASSUME NEW n \in Nat, NEW parts, DOMAIN parts = 1..n
  PROVE  /\ IsFiniteSet(ReachedOf(parts, Opened))
         /\ Cardinality(ReachedOf(parts, Opened)) <= MaxCertificates
<1> DEFINE S == ReachedOf(parts, Opened)
<1>1. S \subseteq 1..n BY DEF ReachedOf, Reached
<1>2. IsFiniteSet(S)
  <2>1. 1 \in Int /\ n \in Int OBVIOUS
  <2>2. IsFiniteSet(1..n) BY <2>1, FS_Interval
  <2> HIDE DEF S
  <2> QED BY <1>1, <2>2, FS_Subset
<1>3. CASE S = {} BY <1>2, <1>3, FS_EmptySet, CapAssumption
<1>4. CASE S # {}
  <2> DEFINE Behind == {n - i : i \in S}
  <2>1. Behind \in SUBSET Nat /\ Behind # {} BY <1>1, <1>4
  <2>2. PICK x \in Behind : \A y \in Behind : x <= y BY <2>1, LeastNat
  <2>3. PICK m \in S : x = n - m BY <2>2
  <2>4. \A i \in S : i <= m
    <3> TAKE i \in S
    <3>1. n - m <= n - i BY <2>2, <2>3
    <3> QED BY <1>1, <3>1
  <2> DEFINE Before == {j \in DOMAIN parts : j < m /\ parts[j].kind \in Opened}
  <2>5. Cardinality(Before) < MaxCertificates BY <2>3 DEF ReachedOf, Reached
  <2>6. IsFiniteSet(Before)
    <3>1. Before \subseteq 1..n OBVIOUS
    <3> HIDE DEF Before
    <3>2. 1 \in Int /\ n \in Int OBVIOUS
    <3>3. IsFiniteSet(1..n) BY <3>2, FS_Interval
    <3> QED BY <3>1, <3>3, FS_Subset
  <2>7. S \subseteq Before \cup {m}
    <3> SUFFICES ASSUME NEW i \in S PROVE i \in Before \cup {m} OBVIOUS
    <3>1. i \in DOMAIN parts /\ parts[i].kind \in Opened BY DEF ReachedOf, Reached
    <3>2. i < m \/ i = m BY <1>1, <2>4
    <3> QED BY <3>1, <3>2
  <2> HIDE DEF S, Before
  <2>8. Cardinality(Before) \in Nat BY <2>6, FS_CardinalityType
  <2>9. /\ IsFiniteSet(Before \cup {m})
        /\ Cardinality(Before \cup {m}) <= Cardinality(Before) + 1
    <3>1. /\ IsFiniteSet(Before \cup {m})
          /\ Cardinality(Before \cup {m})
               = IF m \in Before THEN Cardinality(Before) ELSE Cardinality(Before) + 1
      BY <2>6, FS_AddElement
    <3> QED BY <2>8, <3>1
  <2>10. Cardinality(S) <= Cardinality(Before \cup {m}) BY <2>7, <2>9, FS_Subset
  <2>11. Cardinality(S) \in Nat /\ Cardinality(Before \cup {m}) \in Nat
    BY <1>2, <2>9, FS_CardinalityType
  <2>12. Cardinality(S) <= MaxCertificates BY <2>5, <2>9, <2>10, <2>8, <2>11, CapAssumption
  <2> QED BY <1>2, <2>12 DEF S
<1> QED BY <1>3, <1>4

\* A walk that met no defect and is not full has come to every part.
LEMMA WalkIsWhole ==
  ASSUME NEW n \in Nat, NEW parts, DOMAIN parts = 1..n,
         ReachedOf(parts, Defects) = {}, Cardinality(ReachedOf(parts, Opened)) < MaxCertificates
  PROVE  Reached(parts) = DOMAIN parts
<1> SUFFICES ASSUME DOMAIN parts \ Reached(parts) # {} PROVE FALSE BY DEF Reached
<1>1. PICK i \in DOMAIN parts \ Reached(parts) : \A j \in DOMAIN parts \ Reached(parts) : i <= j
  <2>1. DOMAIN parts \ Reached(parts) \in SUBSET Nat OBVIOUS
  <2> QED BY <2>1, LeastNat
<1>2. \A j \in DOMAIN parts : j < i => j \in Reached(parts) BY <1>1
<1>3. \A j \in DOMAIN parts : j < i => parts[j].kind \notin Defects BY <1>2 DEF ReachedOf
<1> DEFINE Before == {j \in DOMAIN parts : j < i /\ parts[j].kind \in Opened}
<1>4. Before \subseteq ReachedOf(parts, Opened) BY <1>2 DEF ReachedOf
<1>5. Cardinality(Before) <= Cardinality(ReachedOf(parts, Opened))
  BY <1>4, CapIsKept, FS_Subset
<1>6. Cardinality(Before) < MaxCertificates
  <2>1. Cardinality(Before) \in Nat /\ Cardinality(ReachedOf(parts, Opened)) \in Nat
    BY <1>4, CapIsKept, FS_Subset, FS_CardinalityType
  <2> QED BY <1>5, <2>1, CapAssumption
<1>7. i \in Reached(parts) BY <1>1, <1>3, <1>6 DEF Reached
<1> QED BY <1>1, <1>7

\* What readKeystore returns without a failure is all there is: every certificate that lies
\* open in the file, those of the chain of a key in a PKCS#12 file among them, and no
\* other, with `partial` exactly when some are sealed, unless the walk was full.  It is never
\* more than full.
THEOREM KeystoreIsReadWhole ==
  ASSUME NEW n \in Nat, NEW parts, DOMAIN parts = 1..n, NEW format, NEW read,
         read = ReadKeystore(format, parts)
  PROVE  /\ read.certificates \subseteq {parts[i].der : i \in OpenIn(parts)}
         /\ Cardinality(ReachedOf(parts, Opened)) <= MaxCertificates
         /\ read.failure = "none" /\ Cardinality(ReachedOf(parts, Opened)) < MaxCertificates =>
              /\ read.certificates = {parts[i].der : i \in OpenIn(parts)}
              /\ read.partial <=> \E i \in DOMAIN parts : parts[i].kind = "sealed"
              /\ \A i \in DOMAIN parts : parts[i].kind \notin Defects
<1>1. read.certificates \subseteq {parts[i].der : i \in OpenIn(parts)}
  <2>1. read.certificates \subseteq Taken(parts) BY ReadKeystoreFacts
  <2>2. Taken(parts) \subseteq {parts[i].der : i \in OpenIn(parts)}
    BY DEF Taken, ReachedOf, Reached, OpenIn
  <2> QED BY <2>1, <2>2
<1>2. ASSUME read.failure = "none", Cardinality(ReachedOf(parts, Opened)) < MaxCertificates
      PROVE  /\ read.certificates = {parts[i].der : i \in OpenIn(parts)}
             /\ read.partial <=> \E i \in DOMAIN parts : parts[i].kind = "sealed"
             /\ \A i \in DOMAIN parts : parts[i].kind \notin Defects
  <2>1. \A reason : reason # "none" => read # Refused(reason) BY <1>2 DEF Refused
  <2>2. ReachedOf(parts, Defects) = {}
    <3> SUFFICES ASSUME ReachedOf(parts, Defects) # {} PROVE FALSE OBVIOUS
    <3> DEFINE first == CHOOSE i \in ReachedOf(parts, Defects) : TRUE
    <3>1. parts[first].kind \in Defects BY DEF ReachedOf
    <3> HIDE DEF first
    <3>2. parts[first].kind # "none" /\ "unsupported-format" # "none" BY <3>1 DEF Defects
    <3>3. read = Refused("unsupported-format") \/ read = Refused(parts[first].kind)
      BY DEF ReadKeystore, first
    <3> QED BY <2>1, <3>2, <3>3
  <2>3. Reached(parts) = DOMAIN parts BY <1>2, <2>2, WalkIsWhole
  <2>4. Taken(parts) = {parts[i].der : i \in OpenIn(parts)} BY <2>3 DEF Taken, ReachedOf, OpenIn
  <2> DEFINE sealed == ReachedOf(parts, {"sealed"}) # {}
  <2>5. read = [certificates |-> Taken(parts), failure |-> "none", partial |-> sealed]
    <3>1. Taken(parts) # {}
      BY <1>2, ReadKeystoreFacts
    <3>2. format # "other" BY <2>1 DEF ReadKeystore
    <3> QED BY <2>2, <3>1, <3>2 DEF ReadKeystore
  <2>6. sealed <=> \E i \in DOMAIN parts : parts[i].kind = "sealed" BY <2>3 DEF ReachedOf
  <2>7. \A i \in DOMAIN parts : parts[i].kind \notin Defects BY <2>2, <2>3 DEF ReachedOf
  <2> HIDE DEF sealed
  <2> QED BY <2>4, <2>5, <2>6, <2>7
<1> QED BY <1>1, <1>2, CapIsKept
=============================================================================
