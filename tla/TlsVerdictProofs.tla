------------------------- MODULE TlsVerdictProofs -------------------------
(***************************************************************************)
(* What the walk of issuancePath comes to, for chains of any length.       *)
(*                                                                         *)
(* The walk is a recursive function.  What it computes is proved by        *)
(* induction over sets of naturals (NatSetInduction), which follows from   *)
(* the well-foundedness of < alone.                                        *)
(***************************************************************************)
EXTENDS TlsVerdict, FiniteSetTheorems, TLAPS

-----------------------------------------------------------------------------
(***************************************************************************)
(* Induction and least elements.                                           *)
(***************************************************************************)
LEMMA LessIsWellFounded == IsWellFoundedOn({p \in Nat \X Nat : p[1] < p[2]}, Nat)
BY NatLessThanWellFounded DEF OpToRel

LEMMA LeastNat ==
  ASSUME NEW S \in SUBSET Nat, S # {}
  PROVE  \E x \in S : \A y \in S : x <= y
<1> DEFINE Less == {p \in Nat \X Nat : p[1] < p[2]}
<1>1. IsWellFoundedOn(Less, Nat) BY LessIsWellFounded
<1> HIDE DEF Less
<1>2. \E x \in S : \A y \in S : ~(<<y, x>> \in Less) BY <1>1, WFMin, Zenon
<1>3. PICK x \in S : \A y \in S : ~(<<y, x>> \in Less) BY <1>2
<1>4. ASSUME NEW y \in S PROVE x <= y
  <2>1. <<y, x>> \in Nat \X Nat /\ ~(<<y, x>> \in Less) BY <1>3
  <2>2. ~(y < x) BY <2>1 DEF Less
  <2> QED BY <2>2
<1> QED BY <1>4

LEMMA NatSetInduction ==
  ASSUME NEW S, 0 \in S, \A n \in Nat : n \in S => n + 1 \in S
  PROVE  \A n \in Nat : n \in S
<1> SUFFICES ASSUME Nat \ S # {} PROVE FALSE OBVIOUS
<1>1. PICK x \in Nat \ S : \A y \in Nat \ S : x <= y BY LeastNat
<1>2. x # 0 /\ x - 1 \in Nat BY <1>1
<1>3. x - 1 \in S BY <1>1, <1>2
<1>4. (x - 1) + 1 = x BY <1>1
<1> QED BY <1>1, <1>2, <1>3, <1>4

LEMMA MinIsLeast ==
  ASSUME NEW S \in SUBSET Nat, S # {}
  PROVE  Min(S) \in S /\ \A y \in S : Min(S) <= y
BY LeastNat DEF Min

-----------------------------------------------------------------------------
(***************************************************************************)
(* The walk, turn by turn.                                                 *)
(***************************************************************************)
\* A function that answers for the first n turns.
Turns(chain, n, w) == w = [i \in 0..n |-> IF i = 0 THEN <<1>> ELSE Extended(chain, w[i-1])]

LEMMA TurnsExist ==
  ASSUME NEW chain
  PROVE  \A n \in Nat : \E w : Turns(chain, n, w)
<1> DEFINE S == {n \in Nat : \E w : Turns(chain, n, w)}
<1>1. 0 \in S
  <2>1. Turns(chain, 0, [i \in 0..0 |-> <<1>>]) BY DEF Turns
  <2> QED BY <2>1
<1>2. ASSUME NEW n \in Nat, n \in S PROVE n + 1 \in S
  <2> PICK w : Turns(chain, n, w) BY <1>2
  <2> DEFINE v == [i \in 0..(n+1) |-> IF i = n + 1 THEN Extended(chain, w[n]) ELSE w[i]]
  <2>1. \A i \in 0..n : w[i] = IF i = 0 THEN <<1>> ELSE Extended(chain, w[i-1]) BY DEF Turns
  <2>2. \A i \in 0..(n+1) : v[i] = IF i = 0 THEN <<1>> ELSE Extended(chain, v[i-1])
    <3> TAKE i \in 0..(n+1)
    <3>1. CASE i = 0 BY <2>1, <3>1
    <3>2. CASE i \in 1..n
      <4>1. i \in 0..n /\ i # n + 1 /\ i # 0 /\ i - 1 \in 0..(n+1) /\ i - 1 # n + 1 BY <3>2
      <4>2. v[i] = w[i] /\ v[i-1] = w[i-1] BY <4>1
      <4> QED BY <2>1, <4>1, <4>2
    <3>3. CASE i = n + 1
      <4>1. i # 0 /\ i - 1 = n /\ n \in 0..(n+1) /\ n # n + 1 BY <3>3
      <4>2. v[i] = Extended(chain, w[n]) /\ v[n] = w[n] BY <3>3, <4>1
      <4> QED BY <4>1, <4>2
    <3> QED BY <3>1, <3>2, <3>3
  <2>3. v = [i \in 0..(n+1) |-> v[i]] OBVIOUS
  <2> HIDE DEF v
  <2>4. Turns(chain, n + 1, v) BY <2>2, <2>3 DEF Turns
  <2> QED BY <2>4
<1> HIDE DEF S
<1>3. \A n \in Nat : n \in S BY <1>1, <1>2, NatSetInduction
<1> QED BY <1>3 DEF S

LEMMA WalkTurns ==
  ASSUME NEW chain, Len(chain) \in Nat
  PROVE  /\ Walk(chain)[0] = <<1>>
         /\ \A n \in 1..Len(chain) : Walk(chain)[n] = Extended(chain, Walk(chain)[n-1])
<1>1. \E w : Turns(chain, Len(chain), w) BY TurnsExist
<1>2. Walk(chain) = CHOOSE w : Turns(chain, Len(chain), w) BY DEF Walk, Turns
<1>3. Turns(chain, Len(chain), Walk(chain)) BY <1>1, <1>2
<1>4. \A n \in 0..Len(chain) :
        Walk(chain)[n] = IF n = 0 THEN <<1>> ELSE Extended(chain, Walk(chain)[n-1])
  BY <1>3 DEF Turns
<1>5. 0 \in 0..Len(chain) /\ \A n \in 1..Len(chain) : n \in 0..Len(chain) /\ n # 0 OBVIOUS
<1> QED BY <1>4, <1>5

\* A path that keeps to issuers: from the leaf, no certificate twice, and on from
\* none that is self-signed.
Way(chain, path) ==
  /\ path \in Seq(1..Len(chain)) /\ Len(path) > 0 /\ path[1] = 1
  /\ \A j, k \in 1..Len(path) : path[j] = path[k] => j = k
  /\ \A k \in 1..Len(path)-1 : /\ chain[path[k]].issuer = chain[path[k+1]].subject
                               /\ ~SelfSigned(chain[path[k]])

LEMMA IssuersInOrder ==
  ASSUME NEW chain, Len(chain) \in Nat, NEW path, Issuers(chain, path) # {}
  PROVE  /\ Min(Issuers(chain, path)) \in Issuers(chain, path)
         /\ \A i \in Issuers(chain, path) : Min(Issuers(chain, path)) <= i
<1>1. Issuers(chain, path) \in SUBSET Nat BY DEF Issuers
<1> QED BY <1>1, MinIsLeast

\* One turn: either nothing is added, because the end is self-signed or no
\* certificate is left that fits, or the first that fits is.
LEMMA ExtendedKeepsWay ==
  ASSUME NEW chain, Len(chain) \in Nat, NEW path, Way(chain, path)
  PROVE  /\ Way(chain, Extended(chain, path))
         /\ Extended(chain, path) # path => Len(Extended(chain, path)) = Len(path) + 1
         /\ Extended(chain, path) = path <=> SelfSigned(EndOf(chain, path)) \/ Issuers(chain, path) = {}
<1> DEFINE next == Min(Issuers(chain, path))
<1>1. path \in Seq(1..Len(chain)) /\ Len(path) \in Nat /\ Len(path) > 0 BY DEF Way
<1>2. CASE SelfSigned(EndOf(chain, path)) \/ Issuers(chain, path) = {}
  BY <1>2 DEF Extended
<1>3. CASE ~(SelfSigned(EndOf(chain, path)) \/ Issuers(chain, path) = {})
  <2>1. Extended(chain, path) = Append(path, next) BY <1>3 DEF Extended
  <2>2. next \in Issuers(chain, path) BY <1>3, IssuersInOrder
  <2>3. /\ next \in 1..Len(chain) /\ chain[next].subject = chain[path[Len(path)]].issuer
        /\ \A k \in 1..Len(path) : path[k] # next
    BY <2>2 DEF Issuers, EndOf
  <2> HIDE DEF next
  <2> DEFINE longer == Append(path, next)
  <2>4. /\ longer \in Seq(1..Len(chain)) /\ Len(longer) = Len(path) + 1
        /\ longer[Len(path) + 1] = next /\ \A k \in 1..Len(path) : longer[k] = path[k]
    BY <1>1, <2>3
  <2> HIDE DEF longer
  <2>5. longer[1] = 1 BY <1>1, <2>4 DEF Way
  <2>6. ASSUME NEW j \in 1..Len(longer), NEW k \in 1..Len(longer), longer[j] = longer[k] PROVE j = k
    <3>1. CASE j \in 1..Len(path) /\ k \in 1..Len(path) BY <2>4, <2>6, <3>1 DEF Way
    <3>2. CASE j = Len(path) + 1 /\ k \in 1..Len(path) BY <2>3, <2>4, <2>6, <3>2
    <3>3. CASE k = Len(path) + 1 /\ j \in 1..Len(path) BY <2>3, <2>4, <2>6, <3>3
    <3> QED BY <1>1, <2>4, <3>1, <3>2, <3>3
  <2>7. ASSUME NEW k \in 1..Len(longer)-1
        PROVE  /\ chain[longer[k]].issuer = chain[longer[k+1]].subject
               /\ ~SelfSigned(chain[longer[k]])
    <3>1. CASE k = Len(path) BY <1>1, <1>3, <2>3, <2>4, <3>1 DEF EndOf
    <3>2. CASE k \in 1..Len(path)-1
      <4>1. k \in 1..Len(path) /\ k + 1 \in 1..Len(path) BY <1>1, <3>2
      <4>2. longer[k] = path[k] /\ longer[k+1] = path[k+1] BY <2>4, <4>1
      <4> QED BY <3>2, <4>2 DEF Way
    <3> QED BY <1>1, <2>4, <3>1, <3>2
  <2>8. Way(chain, longer) BY <1>1, <2>4, <2>5, <2>6, <2>7 DEF Way
  <2>9. longer # path BY <1>1, <2>4
  <2> QED BY <1>3, <2>1, <2>4, <2>8, <2>9 DEF longer
<1> QED BY <1>2, <1>3

LEMMA WalkIsWay ==
  ASSUME NEW chain \in Seq(Certs), chain # <<>>
  PROVE  \A n \in 0..Len(chain) : Way(chain, Walk(chain)[n])
<1>1. Len(chain) \in Nat /\ Len(chain) >= 1 OBVIOUS
<1> DEFINE S == {n \in Nat : n <= Len(chain) => Way(chain, Walk(chain)[n])}
<1>2. 0 \in S
  <2>1. Walk(chain)[0] = <<1>> BY <1>1, WalkTurns
  <2>2. Way(chain, <<1>>) BY <1>1 DEF Way
  <2> QED BY <2>1, <2>2
<1>3. ASSUME NEW n \in Nat, n \in S PROVE n + 1 \in S
  <2> SUFFICES ASSUME n + 1 <= Len(chain) PROVE Way(chain, Walk(chain)[n+1]) OBVIOUS
  <2>1. Way(chain, Walk(chain)[n]) BY <1>1, <1>3
  <2>2. n + 1 \in 1..Len(chain) /\ (n + 1) - 1 = n BY <1>1
  <2>3. Walk(chain)[n+1] = Extended(chain, Walk(chain)[n]) BY <1>1, <2>2, WalkTurns
  <2> QED BY <1>1, <2>1, <2>3, ExtendedKeepsWay
<1> HIDE DEF S
<1>4. \A n \in Nat : n \in S BY <1>2, <1>3, NatSetInduction
<1> QED BY <1>1, <1>4 DEF S

LEMMA WayIsShort ==
  ASSUME NEW chain \in Seq(Certs), NEW path, Way(chain, path)
  PROVE  Len(path) <= Len(chain)
<1>1. path \in [1..Len(path) -> 1..Len(chain)] /\ Len(path) \in Nat /\ Len(chain) \in Nat BY DEF Way
<1>2. /\ IsFiniteSet(1..Len(chain)) /\ Cardinality(1..Len(chain)) = Len(chain)
      /\ IsFiniteSet(1..Len(path)) /\ Cardinality(1..Len(path)) = Len(path)
  <2>1. \A n \in Nat : IsFiniteSet(1..n) /\ Cardinality(1..n) = n
    <3> TAKE n \in Nat
    <3>1. 1 \in Int /\ n \in Int OBVIOUS
    <3>2. IsFiniteSet(1..n) /\ Cardinality(1..n) = IF 1 > n THEN 0 ELSE n - 1 + 1
      BY <3>1, FS_Interval
    <3>3. (IF 1 > n THEN 0 ELSE n - 1 + 1) = n OBVIOUS
    <3> QED BY <3>2, <3>3
  <2> QED BY <1>1, <2>1
<1>3. \A j, k \in 1..Len(path) : path[j] = path[k] => j = k BY DEF Way
<1> SUFFICES ASSUME Len(chain) < Len(path) PROVE FALSE BY <1>1
<1>4. \E j, k \in 1..Len(path) : j # k /\ path[j] = path[k] BY <1>1, <1>2, FS_PigeonHole
<1> QED BY <1>3, <1>4

\* A turn that adds nothing is the last to change anything.
LEMMA StuckStays ==
  ASSUME NEW chain \in Seq(Certs), chain # <<>>, NEW n \in 0..Len(chain),
         Extended(chain, Walk(chain)[n]) = Walk(chain)[n]
  PROVE  \A m \in n..Len(chain) : Walk(chain)[m] = Walk(chain)[n]
<1>1. Len(chain) \in Nat /\ n \in Nat OBVIOUS
<1> DEFINE S == {m \in Nat : n <= m /\ m <= Len(chain) => Walk(chain)[m] = Walk(chain)[n]}
<1>2. 0 \in S BY <1>1
<1>3. ASSUME NEW m \in Nat, m \in S PROVE m + 1 \in S
  <2> SUFFICES ASSUME n <= m + 1, m + 1 <= Len(chain) PROVE Walk(chain)[m+1] = Walk(chain)[n] OBVIOUS
  <2>1. CASE n = m + 1 BY <2>1
  <2>2. CASE n <= m
    <3>1. Walk(chain)[m] = Walk(chain)[n] BY <1>1, <1>3, <2>2
    <3>2. m + 1 \in 1..Len(chain) /\ (m + 1) - 1 = m BY <1>1
    <3>3. Walk(chain)[m+1] = Extended(chain, Walk(chain)[m]) BY <1>1, <3>2, WalkTurns
    <3> QED BY <3>1, <3>3
  <2> QED BY <1>1, <2>1, <2>2
<1> HIDE DEF S
<1>4. \A m \in Nat : m \in S BY <1>2, <1>3, NatSetInduction
<1> QED BY <1>1, <1>4 DEF S

LEMMA TurnsCount ==
  ASSUME NEW chain \in Seq(Certs), chain # <<>>
  PROVE  \A n \in 0..Len(chain) :
           Extended(chain, Walk(chain)[n]) # Walk(chain)[n] => Len(Walk(chain)[n]) = n + 1
<1>1. Len(chain) \in Nat OBVIOUS
<1> DEFINE Goes(n) == Extended(chain, Walk(chain)[n]) # Walk(chain)[n]
           S == {n \in Nat : n <= Len(chain) /\ Goes(n) => Len(Walk(chain)[n]) = n + 1}
<1>2. 0 \in S
  <2>1. Walk(chain)[0] = <<1>> BY <1>1, WalkTurns
  <2>2. Len(Walk(chain)[0]) = 0 + 1 BY <2>1
  <2> HIDE DEF Goes
  <2> QED BY <2>2
<1>3. ASSUME NEW n \in Nat, n \in S PROVE n + 1 \in S
  <2> SUFFICES ASSUME n + 1 <= Len(chain), Goes(n + 1) PROVE Len(Walk(chain)[n+1]) = n + 2 BY <1>1
  <2>1. n \in 0..Len(chain) /\ n + 1 \in 1..Len(chain) /\ (n + 1) - 1 = n BY <1>1
  <2>2. Walk(chain)[n+1] = Extended(chain, Walk(chain)[n]) BY <1>1, <2>1, WalkTurns
  <2>3. Goes(n) BY <2>2
  <2>4. Len(Walk(chain)[n]) = n + 1 BY <1>1, <1>3, <2>1, <2>3
  <2>5. Way(chain, Walk(chain)[n]) BY <2>1, WalkIsWay
  <2> QED BY <1>1, <2>2, <2>3, <2>4, <2>5, ExtendedKeepsWay
<1> HIDE DEF S
<1>4. \A n \in Nat : n \in S BY <1>2, <1>3, NatSetInduction
<1> QED BY <1>1, <1>4 DEF S

-----------------------------------------------------------------------------
(***************************************************************************)
(* The theorems.                                                           *)
(***************************************************************************)
\* issuancePath never visits a certificate twice, and goes from issuer to issuer
\* from the leaf; it passes through no self-signed certificate.
THEOREM IssuancePathIsWay ==
  ASSUME NEW chain \in Seq(Certs), chain # <<>>
  PROVE  Way(chain, IssuancePath(chain))
<1>1. Len(chain) \in 0..Len(chain) OBVIOUS
<1> QED BY <1>1, WalkIsWay DEF IssuancePath

\* As many turns as there are certificates are enough: the loop of issuancePath
\* has come to an end by then, at a self-signed certificate or where nothing that
\* was presented and not visited bears the name of the issuer.
THEOREM IssuancePathEnds ==
  ASSUME NEW chain \in Seq(Certs), chain # <<>>
  PROVE  /\ Extended(chain, IssuancePath(chain)) = IssuancePath(chain)
         /\ SelfSigned(Terminus(chain)) \/ Issuers(chain, IssuancePath(chain)) = {}
<1>1. Len(chain) \in Nat /\ Len(chain) \in 0..Len(chain) OBVIOUS
<1>2. Way(chain, IssuancePath(chain)) BY IssuancePathIsWay
<1>3. Len(IssuancePath(chain)) <= Len(chain) BY <1>2, WayIsShort
<1>4. Len(IssuancePath(chain)) # Len(chain) + 1 BY <1>1, <1>3
<1>5. Extended(chain, IssuancePath(chain)) = IssuancePath(chain)
  BY <1>1, <1>4, TurnsCount DEF IssuancePath
<1> QED BY <1>1, <1>2, <1>5, ExtendedKeepsWay DEF Terminus

\* A public verdict is proved by a way by issuer and subject from the leaf to a
\* bundled root that was presented.
THEOREM PublicIsProved ==
  ASSUME NEW chain \in Seq(Certs), chain # <<>>, Class(chain) = "public"
  PROVE  \E n \in 1..Len(chain) : \E way \in [1..n -> DOMAIN chain] :
            /\ way[1] = 1 /\ chain[way[n]] \in Bundled
            /\ \A k \in 1..n-1 : chain[way[k]].issuer = chain[way[k+1]].subject
<1> DEFINE path == IssuancePath(chain)
<1>1. Way(chain, path) /\ Len(path) <= Len(chain) BY IssuancePathIsWay, WayIsShort
<1>2. OnPath(chain) \cap Bundled # {} BY DEF Class
<1> HIDE DEF path
<1>3. PICK n \in 1..Len(path) : chain[path[n]] \in Bundled BY <1>2 DEF OnPath, path
<1>4. /\ path \in Seq(1..Len(chain)) /\ Len(path) \in Nat /\ Len(chain) \in Nat
      /\ DOMAIN chain = 1..Len(chain)
  BY <1>1 DEF Way
<1> DEFINE way == [k \in 1..n |-> path[k]]
<1>5. n \in 1..Len(chain) /\ way \in [1..n -> DOMAIN chain] BY <1>1, <1>3, <1>4
<1>6. way[1] = 1 /\ chain[way[n]] \in Bundled BY <1>1, <1>3 DEF Way
<1>7. ASSUME NEW k \in 1..n-1 PROVE chain[way[k]].issuer = chain[way[k+1]].subject
  <2>1. k \in 1..n /\ k + 1 \in 1..n /\ k \in 1..Len(path)-1 BY <1>3, <1>4
  <2> QED BY <1>1, <2>1 DEF Way
<1> HIDE DEF way
<1> QED BY <1>5, <1>6, <1>7

\* A chain that another one begins with.
Begins(chain, longer) ==
  /\ longer \in Seq(Certs) /\ Len(chain) <= Len(longer)
  /\ \A i \in 1..Len(chain) : longer[i] = chain[i]

\* As long as the way through the shorter chain goes on, the longer one goes the same way.
LEMMA SameTurns ==
  ASSUME NEW chain \in Seq(Certs), chain # <<>>, NEW longer, Begins(chain, longer),
         SelfSigned(Terminus(chain))
  PROVE  \A n \in 0..Len(chain) : Walk(longer)[n] = Walk(chain)[n]
<1>1. /\ Len(chain) \in Nat /\ Len(longer) \in Nat /\ Len(chain) <= Len(longer)
      /\ longer \in Seq(Certs)
  BY DEF Begins
<1> DEFINE S == {n \in Nat : n <= Len(chain) => Walk(longer)[n] = Walk(chain)[n]}
<1>2. 0 \in S
  <2>1. Walk(chain)[0] = <<1>> /\ Walk(longer)[0] = <<1>> BY <1>1, WalkTurns
  <2> QED BY <2>1
<1>3. ASSUME NEW n \in Nat, n \in S PROVE n + 1 \in S
  <2> SUFFICES ASSUME n + 1 <= Len(chain) PROVE Walk(longer)[n+1] = Walk(chain)[n+1] OBVIOUS
  <2> DEFINE path == Walk(chain)[n]
  <2>1. /\ n \in 0..Len(chain) /\ n + 1 \in 1..Len(chain) /\ n + 1 \in 1..Len(longer)
        /\ (n + 1) - 1 = n /\ Len(chain) \in n..Len(chain)
    BY <1>1
  <2>2. Walk(longer)[n] = path BY <1>1, <1>3
  <2>3. Walk(chain)[n+1] = Extended(chain, path) /\ Walk(longer)[n+1] = Extended(longer, Walk(longer)[n])
    BY <1>1, <2>1, WalkTurns
  <2>4. Way(chain, path) BY <2>1, WalkIsWay
  <2>5. EndOf(longer, path) = EndOf(chain, path)
    <3>1. path[Len(path)] \in 1..Len(chain) BY <2>4 DEF Way
    <3> QED BY <3>1 DEF EndOf, Begins
  <2>6. CASE SelfSigned(EndOf(chain, path))
    BY <2>2, <2>3, <2>5, <2>6 DEF Extended
  <2>7. CASE ~SelfSigned(EndOf(chain, path))
    <3>1. Issuers(chain, path) # {}
      <4> SUFFICES ASSUME Issuers(chain, path) = {} PROVE FALSE OBVIOUS
      <4>1. Extended(chain, path) = path BY DEF Extended
      <4>2. Walk(chain)[Len(chain)] = path BY <2>1, <4>1, StuckStays
      <4> QED BY <2>7, <4>2 DEF Terminus, IssuancePath
    <3>2. Issuers(chain, path) \subseteq Issuers(longer, path)
      BY <1>1, <2>5 DEF Issuers, Begins
    <3>3. \A i \in Issuers(longer, path) : i <= Len(chain) => i \in Issuers(chain, path)
      BY <1>1, <2>5 DEF Issuers, Begins
    <3>4. /\ Min(Issuers(chain, path)) \in Issuers(chain, path)
          /\ \A i \in Issuers(chain, path) : Min(Issuers(chain, path)) <= i
      BY <1>1, <3>1, IssuersInOrder
    <3>5. /\ Min(Issuers(longer, path)) \in Issuers(longer, path)
          /\ \A i \in Issuers(longer, path) : Min(Issuers(longer, path)) <= i
      BY <1>1, <3>1, <3>2, IssuersInOrder
    <3>6. /\ Issuers(chain, path) \subseteq 1..Len(chain)
          /\ Issuers(longer, path) \subseteq 1..Len(longer)
      BY DEF Issuers
    <3>7. Min(Issuers(longer, path)) = Min(Issuers(chain, path))
      <4> DEFINE a == Min(Issuers(chain, path))
                 b == Min(Issuers(longer, path))
      <4> HIDE DEF a, b
      <4>1. a \in Issuers(chain, path) /\ a \in 1..Len(chain) BY <3>4, <3>6 DEF a
      <4>2. b \in Nat /\ b <= a BY <1>1, <3>2, <3>5, <3>6, <4>1 DEF b
      <4>3. b \in Issuers(chain, path) BY <1>1, <3>3, <3>5, <4>1, <4>2 DEF b
      <4>4. a <= b BY <3>4, <4>3 DEF a
      <4> QED BY <1>1, <4>1, <4>2, <4>4 DEF a, b
    <3> QED BY <2>2, <2>3, <2>5, <3>1, <3>2, <3>7 DEF Extended
  <2> QED BY <2>6, <2>7
<1> HIDE DEF S
<1>4. \A n \in Nat : n \in S BY <1>2, <1>3, NatSetInduction
<1> QED BY <1>1, <1>4 DEF S

\* Whatever is presented behind a chain that ends in a self-signed certificate, and
\* however much of it: the path stays, and with it the class and the anchor.
THEOREM PaddingIsIgnored ==
  ASSUME NEW chain \in Seq(Certs), chain # <<>>, NEW longer, Begins(chain, longer),
         SelfSigned(Terminus(chain))
  PROVE  /\ IssuancePath(longer) = IssuancePath(chain)
         /\ Class(longer) = Class(chain)
         /\ Anchor(longer) = Anchor(chain)
<1> DEFINE path == IssuancePath(chain)
<1>1. /\ Len(chain) \in Nat /\ Len(longer) \in Nat /\ Len(chain) <= Len(longer)
      /\ longer \in Seq(Certs) /\ Len(chain) # 0
  BY DEF Begins
<1>2. longer # <<>> BY <1>1
<1>3. Way(chain, path) BY IssuancePathIsWay
<1>4. EndOf(longer, path) = EndOf(chain, path)
  <2>1. path[Len(path)] \in 1..Len(chain) BY <1>3 DEF Way
  <2> QED BY <2>1 DEF EndOf, Begins
<1>5. IssuancePath(longer) = path
  <2>1. Walk(longer)[Len(chain)] = path
    <3>1. Len(chain) \in 0..Len(chain) BY <1>1
    <3> QED BY <3>1, SameTurns DEF IssuancePath
  <2>2. Extended(longer, path) = path BY <1>4 DEF Extended, Terminus
  <2>3. Len(chain) \in 0..Len(longer) /\ Len(longer) \in Len(chain)..Len(longer) BY <1>1
  <2> QED BY <1>1, <1>2, <2>1, <2>2, <2>3, StuckStays DEF IssuancePath
<1>6. Terminus(longer) = Terminus(chain) BY <1>4, <1>5 DEF Terminus
<1>7. \A k \in 1..Len(path) : longer[path[k]] = chain[path[k]]
  <2>1. \A k \in 1..Len(path) : path[k] \in 1..Len(chain) BY <1>3 DEF Way
  <2> QED BY <2>1 DEF Begins
<1>8. OnPath(longer) = OnPath(chain) BY <1>5, <1>7 DEF OnPath
<1>9. Class(longer) = Class(chain) BY <1>6, <1>8 DEF Class
<1> QED BY <1>5, <1>6, <1>9 DEF Anchor

-----------------------------------------------------------------------------
(***************************************************************************)
(* Validity.                                                               *)
(***************************************************************************)
LEMMA SomeExpiresFirst ==
  ASSUME NEW chain \in Seq(Certs), chain # <<>>
  PROVE  /\ EarliestExpiring(chain) \in Int
         /\ \A i \in 1..Len(chain) : EarliestExpiring(chain) <= chain[i].until
<1>1. Len(chain) \in Nat /\ Len(chain) >= 1 OBVIOUS
<1>2. \A i \in 1..Len(chain) : chain[i].until \in Int BY CertAssumption
<1> DEFINE S == {n \in Nat : n + 1 <= Len(chain) =>
                   \E j \in 1..(n+1) : \A i \in 1..(n+1) : chain[j].until <= chain[i].until}
<1>3. 0 \in S
  <2>1. 1 \in 1..Len(chain) BY <1>1
  <2>2. chain[1].until <= chain[1].until BY <1>2, <2>1
  <2>3. 0 + 1 = 1 /\ \A i \in 1..1 : i = 1 OBVIOUS
  <2> QED BY <2>2, <2>3
<1>4. ASSUME NEW n \in Nat, n \in S PROVE n + 1 \in S
  <2> SUFFICES ASSUME (n + 1) + 1 <= Len(chain)
               PROVE  \E j \in 1..(n+2) : \A i \in 1..(n+2) : chain[j].until <= chain[i].until
    OBVIOUS
  <2>1. PICK j \in 1..(n+1) : \A i \in 1..(n+1) : chain[j].until <= chain[i].until BY <1>1, <1>4
  <2>2. /\ j \in 1..Len(chain) /\ n + 2 \in 1..Len(chain) /\ j \in 1..(n+2)
        /\ \A i \in 1..(n+2) : i \in 1..Len(chain) /\ (i \in 1..(n+1) \/ i = n + 2)
    BY <1>1
  <2>3. CASE chain[j].until <= chain[n+2].until BY <2>1, <2>2, <2>3
  <2>4. CASE ~(chain[j].until <= chain[n+2].until)
    <3>1. \A i \in 1..(n+2) : chain[n+2].until <= chain[i].until BY <1>2, <2>1, <2>2, <2>4
    <3> QED BY <2>2, <3>1
  <2> QED BY <2>3, <2>4
<1> HIDE DEF S
<1>5. \A n \in Nat : n \in S BY <1>3, <1>4, NatSetInduction
<1>6. Len(chain) - 1 \in Nat /\ (Len(chain) - 1) + 1 = Len(chain) BY <1>1
<1>7. PICK j \in 1..Len(chain) : \A i \in 1..Len(chain) : chain[j].until <= chain[i].until
  <2>1. Len(chain) - 1 \in S BY <1>5, <1>6
  <2>2. \E j \in 1..((Len(chain) - 1) + 1) : \A i \in 1..((Len(chain) - 1) + 1) :
          chain[j].until <= chain[i].until
    BY <1>1, <1>6, <2>1 DEF S
  <2> QED BY <1>6, <2>2
<1> DEFINE U == {chain[i].until : i \in 1..Len(chain)}
<1>8. \E x \in U : \A y \in U : x <= y BY <1>7
<1>9. EarliestExpiring(chain) \in U /\ \A y \in U : EarliestExpiring(chain) <= y
  BY <1>8 DEF EarliestExpiring, Min
<1> QED BY <1>2, <1>9

\* A chain of which nothing but ok is said is valid today and for all of the days of
\* the warning, every certificate of it, and leads to a bundled root.
THEOREM QuietChainHolds ==
  ASSUME NEW capture, capture.chain \in Seq(Certs \cup {Junk}), capture.rank \in Int, NEW required,
         \A f \in EvaluateChain(capture, required) : f.severity = "ok"
  PROVE  /\ Readable(capture) /\ capture.chain \in Seq(Certs)
         /\ Class(capture.chain) = "public" /\ capture.rank >= Floor
         /\ \A i \in 1..Len(capture.chain) :
               /\ capture.chain[i].from <= Now
               /\ capture.chain[i].until > Now + EXPIRY_WARNING_DAYS * Day
         /\ capture.sni # <<>> => \E pattern \in capture.chain[1].names : MatchesDnsName(capture.sni, pattern)
<1> DEFINE chain == capture.chain
<1>1. \A id, severity : Said(id, severity).severity = severity BY DEF Said
<1>2. \A id : ~(\A f \in Blocks(id, required) : f.severity = "ok")
  <2> TAKE id
  <2>1. Cap("blocker", required) # "ok" BY DEF Cap
  <2> QED BY <1>1, <2>1 DEF Blocks
<1>3. chain # <<>> BY <1>1 DEF EvaluateChain
<1>4. Readable(capture) BY <1>1, <1>3 DEF EvaluateChain
<1>5. chain \in Seq(Certs)
  <2>1. \A i \in 1..Len(chain) : chain[i] \in Certs BY <1>4 DEF Readable
  <2>2. chain = [i \in 1..Len(chain) |-> chain[i]] /\ Len(chain) \in Nat OBVIOUS
  <2>3. [i \in 1..Len(chain) |-> chain[i]] \in Seq(Certs) BY <2>1, <2>2
  <2> QED BY <2>2, <2>3
<1>6. EvaluateChain(capture, required) =
        RootFindings(chain, required) \cup ProtocolFindings(capture.rank, required)
        \cup ValidityFindings(chain, required) \cup NameFindings(chain[1], capture.sni, required)
  BY <1>3, <1>4 DEF EvaluateChain
<1>7. Class(chain) = "public"
  <2>1. \A f \in RootFindings(chain, required) : f.severity = "ok" BY <1>6
  <2> QED BY <1>1, <1>2, <2>1 DEF RootFindings
<1>8. capture.rank >= Floor
  <2>1. \A f \in ProtocolFindings(capture.rank, required) : f.severity = "ok" BY <1>6
  <2> QED BY <1>1, <1>2, <2>1 DEF ProtocolFindings
<1>9. \A f \in ValidityFindings(chain, required) : f.severity = "ok" BY <1>6
<1>10. \A i \in 1..Len(chain) : ~(chain[i].from > Now)
  BY <1>2, <1>9 DEF ValidityFindings
<1>11. EarliestExpiring(chain) \in Int /\ \A i \in 1..Len(chain) : EarliestExpiring(chain) <= chain[i].until
  BY <1>3, <1>5, SomeExpiresFirst
<1>12. ~(EarliestExpiring(chain) <= Now) /\ ~(DaysUntil(EarliestExpiring(chain)) <= EXPIRY_WARNING_DAYS)
  <2>1. ~(EarliestExpiring(chain) <= Now) BY <1>2, <1>9 DEF ValidityFindings
  <2>2. CASE DaysUntil(EarliestExpiring(chain)) <= EXPIRY_WARNING_DAYS
    <3>1. Said("chain-expiring-soon", "degraded") \in ValidityFindings(chain, required)
      BY <2>1, <2>2 DEF ValidityFindings
    <3> QED BY <1>1, <1>9, <3>1
  <2> QED BY <2>1, <2>2
<1>13. EarliestExpiring(chain) > Now + EXPIRY_WARNING_DAYS * Day
  BY <1>11, <1>12 DEF DaysUntil, Now, Day, EXPIRY_WARNING_DAYS
<1>14. ASSUME NEW i \in 1..Len(chain)
       PROVE  chain[i].from <= Now /\ chain[i].until > Now + EXPIRY_WARNING_DAYS * Day
  <2>1. chain[i].from \in Int /\ chain[i].until \in Int BY <1>5, CertAssumption
  <2> QED BY <1>10, <1>11, <1>13, <2>1 DEF Now, EXPIRY_WARNING_DAYS, Day
<1>15. capture.sni # <<>> => \E pattern \in chain[1].names : MatchesDnsName(capture.sni, pattern)
  <2>1. \A f \in NameFindings(chain[1], capture.sni, required) : f.severity = "ok" BY <1>6
  <2> QED BY <1>2, <2>1 DEF NameFindings
<1> QED BY <1>4, <1>5, <1>7, <1>8, <1>14, <1>15

-----------------------------------------------------------------------------
(***************************************************************************)
(* Order.                                                                  *)
(***************************************************************************)
\* The same certificates, the leaf still first and the others in any order.
Moves(chain, other, move) ==
  /\ move \in [1..Len(chain) -> 1..Len(chain)] /\ move[1] = 1
  /\ \A i \in 1..Len(chain) : \E j \in 1..Len(chain) : move[j] = i
  /\ \A i, j \in 1..Len(chain) : move[i] = move[j] => i = j
  /\ other \in Seq(Certs) /\ Len(other) = Len(chain)
  /\ \A i \in 1..Len(chain) : other[i] = chain[move[i]]
Reordered(chain, other) == \E move : Moves(chain, other, move)

\* The way through one order is the way through the other, moved.
SameWay(path, moved, move) ==
  /\ Len(moved) = Len(path)
  /\ \A k \in 1..Len(path) : path[k] = move[moved[k]]

LEMMA MovedTurn ==
  ASSUME NEW chain \in Seq(Certs), chain # <<>>, OneName(chain),
         NEW other, NEW move, Moves(chain, other, move),
         NEW path, Way(chain, path), NEW moved, Way(other, moved), SameWay(path, moved, move)
  PROVE  SameWay(Extended(chain, path), Extended(other, moved), move)
<1> DEFINE n == Len(chain)
<1>1. /\ n \in Nat /\ Len(other) = n /\ path \in Seq(1..n) /\ moved \in Seq(1..n)
      /\ Len(path) \in Nat /\ Len(path) > 0 /\ Len(moved) = Len(path)
  BY DEF Way, Moves, SameWay
<1>2. EndOf(other, moved) = EndOf(chain, path)
  <2>1. Len(path) \in 1..Len(path) /\ moved[Len(path)] \in 1..n BY <1>1
  <2> QED BY <1>1, <2>1 DEF EndOf, Moves, SameWay
<1>3. \A i \in 1..n : i \in Issuers(other, moved) <=> move[i] \in Issuers(chain, path)
  <2> TAKE i \in 1..n
  <2>1. move[i] \in 1..n /\ other[i] = chain[move[i]] BY DEF Moves
  <2>2. (\A k \in 1..Len(moved) : moved[k] # i) <=> (\A k \in 1..Len(path) : path[k] # move[i])
    <3>1. \A k \in 1..Len(path) : moved[k] \in 1..n /\ path[k] = move[moved[k]] BY <1>1 DEF SameWay
    <3>2. \A k \in 1..Len(path) : moved[k] = i <=> path[k] = move[i] BY <3>1 DEF Moves
    <3> QED BY <1>1, <3>2
  <2> QED BY <1>1, <1>2, <2>1, <2>2 DEF Issuers
<1>4. \A i, j \in Issuers(chain, path) : i = j BY DEF Issuers, OneName
<1>5. Issuers(chain, path) \subseteq 1..n /\ Issuers(other, moved) \subseteq 1..n
  BY <1>1 DEF Issuers
<1>6. Issuers(chain, path) = {} <=> Issuers(other, moved) = {}
  <2>1. \A i \in 1..n : \E j \in 1..n : move[j] = i BY DEF Moves
  <2> QED BY <1>3, <1>5, <2>1
<1>7. CASE SelfSigned(EndOf(chain, path)) \/ Issuers(chain, path) = {}
  BY <1>2, <1>6, <1>7 DEF Extended
<1>8. CASE ~(SelfSigned(EndOf(chain, path)) \/ Issuers(chain, path) = {})
  <2> DEFINE a == Min(Issuers(chain, path))
             b == Min(Issuers(other, moved))
  <2>1. a \in Issuers(chain, path) BY <1>1, <1>8, IssuersInOrder
  <2>2. b \in Issuers(other, moved) BY <1>1, <1>6, <1>8, IssuersInOrder
  <2>3. a \in 1..n /\ b \in 1..n BY <1>5, <2>1, <2>2
  <2>4. Extended(chain, path) = Append(path, a) /\ Extended(other, moved) = Append(moved, b)
    BY <1>2, <1>6, <1>8 DEF Extended
  <2> HIDE DEF a, b
  <2>5. a = move[b]
    <3>1. move[b] \in Issuers(chain, path) BY <1>3, <2>2, <2>3
    <3> QED BY <1>4, <2>1, <3>1
  <2>6. /\ Len(Append(path, a)) = Len(path) + 1 /\ Len(Append(moved, b)) = Len(path) + 1
        /\ Append(path, a)[Len(path) + 1] = a /\ Append(moved, b)[Len(path) + 1] = b
        /\ \A k \in 1..Len(path) : Append(path, a)[k] = path[k] /\ Append(moved, b)[k] = moved[k]
    BY <1>1, <2>3
  <2>7. \A k \in 1..Len(path) : path[k] = move[moved[k]] BY DEF SameWay
  <2>8. \A k \in 1..Len(path)+1 : k \in 1..Len(path) \/ k = Len(path) + 1 BY <1>1
  <2>9. SameWay(Append(path, a), Append(moved, b), move) BY <2>5, <2>6, <2>7, <2>8 DEF SameWay
  <2> QED BY <2>4, <2>9
<1> QED BY <1>7, <1>8

LEMMA MovedWalk ==
  ASSUME NEW chain \in Seq(Certs), chain # <<>>, OneName(chain),
         NEW other, NEW move, Moves(chain, other, move)
  PROVE  SameWay(IssuancePath(chain), IssuancePath(other), move)
<1>1. /\ Len(chain) \in Nat /\ Len(chain) >= 1 /\ Len(other) = Len(chain)
      /\ other \in Seq(Certs) /\ other # <<>>
  BY DEF Moves
<1> DEFINE S == {n \in Nat : n <= Len(chain) => SameWay(Walk(chain)[n], Walk(other)[n], move)}
<1>2. 0 \in S
  <2>1. Walk(chain)[0] = <<1>> /\ Walk(other)[0] = <<1>> BY <1>1, WalkTurns
  <2>2. SameWay(<<1>>, <<1>>, move) BY DEF SameWay, Moves
  <2> QED BY <2>1, <2>2
<1>3. ASSUME NEW n \in Nat, n \in S PROVE n + 1 \in S
  <2> SUFFICES ASSUME n + 1 <= Len(chain) PROVE SameWay(Walk(chain)[n+1], Walk(other)[n+1], move)
    OBVIOUS
  <2>1. n \in 0..Len(chain) /\ n + 1 \in 1..Len(chain) /\ (n + 1) - 1 = n BY <1>1
  <2>2. SameWay(Walk(chain)[n], Walk(other)[n], move) BY <1>1, <1>3
  <2>3. Way(chain, Walk(chain)[n]) /\ Way(other, Walk(other)[n]) BY <1>1, <2>1, WalkIsWay
  <2>4. /\ Walk(chain)[n+1] = Extended(chain, Walk(chain)[n])
        /\ Walk(other)[n+1] = Extended(other, Walk(other)[n])
    BY <1>1, <2>1, WalkTurns
  <2> QED BY <2>2, <2>3, <2>4, MovedTurn
<1> HIDE DEF S
<1>4. \A n \in Nat : n \in S BY <1>2, <1>3, NatSetInduction
<1>5. SameWay(Walk(chain)[Len(chain)], Walk(other)[Len(chain)], move) BY <1>1, <1>4 DEF S
<1> QED BY <1>1, <1>5 DEF IssuancePath

\* A peer sends what is behind the leaf in any order.  Where no two of the
\* certificates bear the same name, the order changes neither the verdict about
\* the chain nor any other finding about it, nor the anchor that is handed on.
THEOREM OrderIsIgnored ==
  ASSUME NEW capture, NEW shuffled, NEW required,
         capture.chain \in Seq(Certs), capture.chain # <<>>, OneName(capture.chain),
         Reordered(capture.chain, shuffled.chain),
         shuffled.rank = capture.rank, shuffled.sni = capture.sni
  PROVE  /\ Class(shuffled.chain) = Class(capture.chain)
         /\ EvaluateChain(shuffled, required) = EvaluateChain(capture, required)
         /\ Anchors(shuffled) = Anchors(capture)
<1> DEFINE chain == capture.chain
           other == shuffled.chain
<1>1. PICK move : Moves(chain, other, move) BY DEF Reordered
<1>2. /\ Len(chain) \in Nat /\ Len(chain) >= 1 /\ Len(other) = Len(chain)
      /\ other \in Seq(Certs) /\ other # <<>> /\ chain \in Seq(Certs)
  BY <1>1 DEF Moves
<1> HIDE DEF chain, other
<1>3. SameWay(IssuancePath(chain), IssuancePath(other), move) BY <1>1, <1>2, MovedWalk DEF chain
<1>4. Way(chain, IssuancePath(chain)) /\ Way(other, IssuancePath(other))
  BY <1>2, IssuancePathIsWay DEF chain
<1>5. \A k \in 1..Len(IssuancePath(chain)) :
        other[IssuancePath(other)[k]] = chain[IssuancePath(chain)[k]]
  <2>1. \A k \in 1..Len(IssuancePath(chain)) : IssuancePath(other)[k] \in 1..Len(chain)
    BY <1>2, <1>3, <1>4 DEF Way, SameWay
  <2> QED BY <1>1, <1>3, <2>1 DEF Moves, SameWay
<1>6. OnPath(other) = OnPath(chain) BY <1>3, <1>5 DEF OnPath, SameWay
<1>7. Terminus(other) = Terminus(chain)
  <2>1. Len(IssuancePath(chain)) \in 1..Len(IssuancePath(chain)) BY <1>4 DEF Way
  <2> QED BY <1>3, <1>5, <2>1 DEF Terminus, EndOf, SameWay
<1>8. Class(other) = Class(chain) BY <1>6, <1>7 DEF Class
<1>9. Anchor(other) = Anchor(chain) BY <1>7, <1>8 DEF Anchor
<1>10. /\ \A i \in 1..Len(chain) : \E j \in 1..Len(chain) : other[j] = chain[i]
       /\ \A j \in 1..Len(chain) : \E i \in 1..Len(chain) : other[j] = chain[i]
       /\ other[1] = chain[1]
  <2>1. /\ 1 \in 1..Len(chain) /\ move[1] = 1
        /\ \A i \in 1..Len(chain) : other[i] = chain[move[i]] /\ move[i] \in 1..Len(chain)
        /\ \A i \in 1..Len(chain) : \E j \in 1..Len(chain) : move[j] = i
    BY <1>1, <1>2 DEF Moves
  <2>2. \A i \in 1..Len(chain) : \E j \in 1..Len(chain) : other[j] = chain[i]
    <3> TAKE i \in 1..Len(chain)
    <3>1. PICK j \in 1..Len(chain) : move[j] = i BY <2>1
    <3> QED BY <2>1, <3>1
  <2> QED BY <2>1, <2>2
<1>11. EarliestExpiring(other) = EarliestExpiring(chain)
  <2>1. {other[i].until : i \in 1..Len(other)} = {chain[i].until : i \in 1..Len(chain)}
    <3>1. ASSUME NEW i \in 1..Len(chain) PROVE chain[i].until \in {other[j].until : j \in 1..Len(chain)}
      <4>1. PICK j \in 1..Len(chain) : other[j] = chain[i] BY <1>10
      <4> QED BY <4>1, Zenon
    <3>2. ASSUME NEW j \in 1..Len(chain) PROVE other[j].until \in {chain[i].until : i \in 1..Len(chain)}
      <4>1. PICK i \in 1..Len(chain) : other[j] = chain[i] BY <1>10
      <4> QED BY <4>1, Zenon
    <3> QED BY <1>2, <3>1, <3>2
  <2> QED BY <2>1 DEF EarliestExpiring
<1>12. ValidityFindings(other, required) = ValidityFindings(chain, required)
  <2>1. (\E i \in 1..Len(other) : other[i].from > Now) <=> (\E i \in 1..Len(chain) : chain[i].from > Now)
    BY <1>2, <1>10
  <2> QED BY <1>11, <2>1 DEF ValidityFindings
<1>13. RootFindings(other, required) = RootFindings(chain, required) BY <1>8 DEF RootFindings
<1>14. Readable(capture) /\ Readable(shuffled)
  <2>1. chain # <<>> BY DEF chain
  <2>2. /\ \A i \in DOMAIN chain : chain[i] \in Certs
        /\ \A i \in DOMAIN other : other[i] \in Certs
    BY <1>2
  <2> QED BY <1>2, <2>1, <2>2, CertAssumption DEF Readable, chain, other
<1>15. EvaluateChain(shuffled, required) = EvaluateChain(capture, required)
  <2>1. capture.chain # <<>> /\ shuffled.chain # <<>> BY <1>2 DEF other
  <2> QED BY <1>10, <1>12, <1>13, <1>14, <2>1 DEF EvaluateChain, chain, other
<1>16. Anchors(shuffled) = Anchors(capture) BY <1>8, <1>9, <1>14 DEF Anchors, chain, other
<1> QED BY <1>8, <1>15, <1>16 DEF chain, other
=============================================================================
