------------------------------ MODULE Keystore ------------------------------
(***************************************************************************)
(* What readKeystore of net/java-keystore.ts takes from the bytes of a     *)
(* JDK's cacerts, without a password.                                      *)
(*                                                                         *)
(* A keystore is its format, which the first bytes tell, and its parts in  *)
(* the order of the file.  In JKS these are the entries, in PKCS#12 the    *)
(* bags of its contents one after the other.  A part is                    *)
(*   "cert"    a trusted certificate: an entry of its own, or a bag that   *)
(*             lies open and that Java takes for an anchor;                *)
(*   "rider"   an open bag with a certificate of the chain of a private    *)
(*             key, which Java does not take for an anchor (PKCS#12 only:  *)
(*             in JKS the chain is a part of the key's entry);             *)
(*   "key"     a private key, in JKS with the chain that rides along, and  *)
(*             every other bag that is no certificate;                     *)
(*   "sealed"  a certificate among encrypted contents (PKCS#12 only);      *)
(* or where the walk breaks, by the reason that is given for it: a length  *)
(* or a tag that makes no sense, an encoding or a content of another kind. *)
(* A bag is taken for what it holds, so a rider passes for a trusted       *)
(* certificate: "still skipped" of the head comment (lines 17-20) is so of *)
(* JKS only.                                                               *)
(***************************************************************************)
EXTENDS Integers, FiniteSets, Sequences

CONSTANT MaxCertificates \* MAX_KEYSTORE_CERTIFICATES
ASSUME CapAssumption == MaxCertificates \in Nat \ {0}

Formats == {"jks", "pkcs12", "other"} \* JCEKS is one of the others
Defects == {"truncated", "unsupported-encoding", "unsupported-format"}
PartKinds == {"cert", "rider", "key", "sealed"} \cup Defects
\* What is taken for a trusted certificate.
Opened == {"cert", "rider"}

\* The parts the walk comes to: not those behind a defect, nor those behind as
\* many certificates as it collects.
Reached(parts) ==
  {i \in DOMAIN parts :
     /\ \A j \in DOMAIN parts : j < i => parts[j].kind \notin Defects
     /\ Cardinality({j \in DOMAIN parts : j < i /\ parts[j].kind \in Opened}) < MaxCertificates}
ReachedOf(parts, kinds) == {i \in Reached(parts) : parts[i].kind \in kinds}

\* Slip: the chain of a key of a JKS taken as well.
TakenWithChains(parts) == {parts[i].der : i \in ReachedOf(parts, Opened \cup {"key"})}
Taken(parts) == {parts[i].der : i \in ReachedOf(parts, Opened)}

Refused(reason) == [certificates |-> {}, failure |-> reason, partial |-> FALSE]
\* A defect costs what was collected before it; sealed contents cost only themselves.
ReadKeystore(format, parts) ==
  LET defects == ReachedOf(parts, Defects)
      sealed  == ReachedOf(parts, {"sealed"}) # {}
  IN IF format = "other" THEN Refused("unsupported-format")
     ELSE IF defects # {} THEN Refused(parts[CHOOSE i \in defects : TRUE].kind)
     ELSE IF Taken(parts) = {} THEN Refused(IF sealed THEN "encrypted" ELSE "no-certificates")
     ELSE [certificates |-> Taken(parts), failure |-> "none", partial |-> sealed]
=============================================================================
