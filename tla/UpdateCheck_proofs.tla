-------------------------- MODULE UpdateCheck_proofs --------------------------
(***************************************************************************)
(* The update check, for all versions and any number of processes.  What   *)
(* compareVersions calls newer is an order (Newer is transitive and never  *)
(* reflexive), also on identifiers that Atoi reads as no document does, so *)
(* that who takes every offer climbs.  On the others it is the order of    *)
(* Semantic Versioning.                                                    *)
(***************************************************************************)
EXTENDS UpdateCheck, SequenceTheorems, WellFoundedInduction, TLAPS

-----------------------------------------------------------------------------
\* The order compareVersions computes, without computing.
Beyond(x, y) == x # y /\ CompareIdentifiers(x, y) = 1

PrereleaseAbove(s, t) ==
  /\ t # <<>>
  /\ \/ s = <<>>
     \/ Len(s) > Len(t) /\ AgreeUpTo(s, t, Len(t))
     \/ \E i \in 1..Len(s) :
          i \in 1..Len(t) /\ AgreeUpTo(s, t, i - 1) /\ Beyond(s[i], t[i])

Above(v, w) ==
  \/ \E i \in 1..3 : AgreeUpTo(v.core, w.core, i - 1) /\ v.core[i] > w.core[i]
  \/ v.core = w.core /\ PrereleaseAbove(v.pre, w.pre)

Newer(v, w) == ParseVersion(v) /\ ParseVersion(w) /\ Above(v, w)

-----------------------------------------------------------------------------
LEMMA LeastNatural ==
  ASSUME NEW T \in SUBSET Nat, T # {}
  PROVE  \E n \in T : \A m \in T : n <= m
<1> DEFINE R == OpToRel(<, Nat)
<1>1. IsWellFoundedOn(R, Nat)
  BY NatLessThanWellFounded
<1>2. \A m, n \in Nat : <<m, n>> \in R <=> m < n
  BY DEF OpToRel
<1> HIDE DEF R
<1>3. PICK n \in T : \A m \in T : <<m, n>> \notin R
  BY <1>1, WFMin
<1>4. n \in Nat /\ \A m \in T : m \in Nat
  OBVIOUS
<1>5. \A m \in T : ~(m < n)
  BY <1>2, <1>3, <1>4, Zenon
<1> QED
  BY <1>4, <1>5

\* The loops over two lists stop at the first place where they differ.
LEMMA FirstDifferenceProperties ==
  ASSUME NEW m \in Nat, NEW n \in Nat, NEW s, NEW t,
         DOMAIN s = 1..m, DOMAIN t = 1..n
  PROVE  \/ /\ FirstDifference(s, t) = 0
            /\ \A j \in 1..m : j \in 1..n => s[j] = t[j]
         \/ /\ FirstDifference(s, t) \in 1..m
            /\ FirstDifference(s, t) \in 1..n
            /\ s[FirstDifference(s, t)] # t[FirstDifference(s, t)]
            /\ AgreeUpTo(s, t, FirstDifference(s, t) - 1)
<1> DEFINE D == {i \in DOMAIN s \cap DOMAIN t : s[i] # t[i]}
           i == CHOOSE k \in D : \A j \in D : k <= j
<1>1. CASE D = {}
  <2>1. FirstDifference(s, t) = 0
    BY <1>1 DEF FirstDifference
  <2> QED
    BY <1>1, <2>1
<1>2. CASE D # {}
  <2>1. FirstDifference(s, t) = i
    BY <1>2 DEF FirstDifference
  <2>2. D \in SUBSET Nat
    OBVIOUS
  <2>3. \E k \in D : \A j \in D : k <= j
    <3> HIDE DEF D
    <3> QED
      BY <1>2, <2>2, LeastNatural
  <2>4. i \in D /\ \A j \in D : i <= j
    <3> HIDE DEF D
    <3> QED
      BY <2>3
  <2> HIDE DEF i
  <2>5. i \in 1..m /\ i \in 1..n /\ s[i] # t[i]
    BY <2>4
  <2>6. \A j \in 1..(i - 1) : j \notin D /\ j \in 1..m /\ j \in 1..n
    BY <2>4, <2>5
  <2>7. AgreeUpTo(s, t, i - 1)
    BY <2>6 DEF AgreeUpTo
  <2> QED
    BY <2>1, <2>5, <2>7
<1> QED
  BY <1>1, <1>2

-----------------------------------------------------------------------------
\* Identifiers: numbers by their value, then texts; whoever has the same place is
\* told apart by the text.
LEMMA BeyondIff ==
  ASSUME NEW x \in Identifiers, NEW y \in Identifiers
  PROVE  Beyond(x, y) <=>
           \/ ~Numeric(x) /\ Numeric(y)
           \/ /\ Numeric(x) /\ Numeric(y)
              /\ x.atoi > y.atoi \/ (x.atoi = y.atoi /\ x.rank > y.rank)
           \/ ~Numeric(x) /\ ~Numeric(y) /\ x.rank > y.rank
<1>1. x.rank \in Int /\ y.rank \in Int /\ (x.rank = y.rank <=> x = y)
  BY IdentifierAssumption
<1>2. /\ Numeric(x) => x.atoi \in Int
      /\ Numeric(y) => y.atoi \in Int
  BY IdentifierAssumption DEF Numeric
<1>3. (Numeric(x) # Numeric(y)) <=> ~(Numeric(x) <=> Numeric(y))
  BY Zenon DEF Numeric
<1>4. CASE Numeric(x) /\ Numeric(y) /\ x.atoi # y.atoi
  <2>1. CompareIdentifiers(x, y) = Sign(x.atoi, y.atoi) /\ x # y
    BY <1>4, Zenon DEF CompareIdentifiers
  <2> QED
    BY <1>2, <1>4, <2>1 DEF Beyond, Sign
<1>5. CASE ~(Numeric(x) <=> Numeric(y))
  <2>1. CompareIdentifiers(x, y) = IF Numeric(x) THEN -1 ELSE 1
    BY <1>3, <1>5, Zenon DEF CompareIdentifiers
  <2>2. x # y
    BY <1>5
  <2> QED
    BY <1>5, <2>1, <2>2 DEF Beyond
<1>6. CASE (Numeric(x) <=> Numeric(y)) /\ ~(Numeric(x) /\ x.atoi # y.atoi)
  <2>1. CompareIdentifiers(x, y) = Sign(x.rank, y.rank)
    BY <1>3, <1>6, Zenon DEF CompareIdentifiers
  <2> QED
    BY <1>1, <1>2, <1>6, <2>1 DEF Beyond, Sign
<1> QED
  BY <1>4, <1>5, <1>6

LEMMA BeyondTransitive ==
  ASSUME NEW x \in Identifiers, NEW y \in Identifiers, NEW z \in Identifiers,
         Beyond(x, y), Beyond(y, z)
  PROVE  Beyond(x, z)
<1>1. /\ x.rank \in Int /\ y.rank \in Int /\ z.rank \in Int
      /\ Numeric(x) => x.atoi \in Int
      /\ Numeric(y) => y.atoi \in Int
      /\ Numeric(z) => z.atoi \in Int
  BY IdentifierAssumption DEF Numeric
<1>2. \/ ~Numeric(x) /\ Numeric(y)
      \/ /\ Numeric(x) /\ Numeric(y)
         /\ x.atoi > y.atoi \/ (x.atoi = y.atoi /\ x.rank > y.rank)
      \/ ~Numeric(x) /\ ~Numeric(y) /\ x.rank > y.rank
  BY BeyondIff
<1>3. \/ ~Numeric(y) /\ Numeric(z)
      \/ /\ Numeric(y) /\ Numeric(z)
         /\ y.atoi > z.atoi \/ (y.atoi = z.atoi /\ y.rank > z.rank)
      \/ ~Numeric(y) /\ ~Numeric(z) /\ y.rank > z.rank
  BY BeyondIff
<1>4. \/ ~Numeric(x) /\ Numeric(z)
      \/ /\ Numeric(x) /\ Numeric(z)
         /\ x.atoi > z.atoi \/ (x.atoi = z.atoi /\ x.rank > z.rank)
      \/ ~Numeric(x) /\ ~Numeric(z) /\ x.rank > z.rank
  BY <1>1, <1>2, <1>3
<1> QED
  BY <1>4, BeyondIff

\* Where Atoi and Semantic Versioning agree on what is a number, so do their
\* orders.
LEMMA BeyondIsPrecedence ==
  ASSUME NEW x \in Identifiers, NEW y \in Identifiers, Beyond(x, y),
         x.digits <=> x.atoi # Overflow, ~(x.digits /\ x.zeroLed),
         y.digits <=> y.atoi # Overflow, ~(y.digits /\ y.zeroLed)
  PROVE  IdentifierPrecedes(y, x)
<1>1. /\ x.rank \in Int /\ y.rank \in Int
      /\ Numeric(x) => x.atoi \in Int
      /\ Numeric(y) => y.atoi \in Int
  BY IdentifierAssumption DEF Numeric
<1>2. (Numeric(x) <=> x.digits) /\ (Numeric(y) <=> y.digits)
  BY DEF Numeric
<1>3. CASE Numeric(x) /\ Numeric(y)
  <2>1. x.atoi # y.atoi
    BY <1>2, <1>3, IdentifierAssumption DEF Beyond, Numeric
  <2> QED
    BY <1>1, <1>2, <1>3, <2>1, BeyondIff DEF IdentifierPrecedes
<1>4. CASE ~(Numeric(x) /\ Numeric(y))
  BY <1>1, <1>2, <1>4, BeyondIff DEF IdentifierPrecedes
<1> QED
  BY <1>3, <1>4

-----------------------------------------------------------------------------
\* Prereleases: none at all is above any; else the first difference decides, and
\* then the length.
LEMMA PrereleaseAboveTransitive ==
  ASSUME NEW s \in Seq(Identifiers), NEW t \in Seq(Identifiers),
         NEW u \in Seq(Identifiers),
         PrereleaseAbove(s, t), PrereleaseAbove(t, u)
  PROVE  PrereleaseAbove(s, u)
<1>1. /\ Len(s) \in Nat /\ Len(t) \in Nat /\ Len(u) \in Nat
      /\ t # <<>> /\ u # <<>>
      /\ \A i \in 1..Len(s) : s[i] \in Identifiers
      /\ \A i \in 1..Len(t) : t[i] \in Identifiers
      /\ \A i \in 1..Len(u) : u[i] \in Identifiers
  BY DEF PrereleaseAbove
<1>2. CASE s = <<>>
  BY <1>1, <1>2 DEF PrereleaseAbove
<1>3. CASE Len(s) > Len(t) /\ AgreeUpTo(s, t, Len(t))
  <2>1. CASE Len(t) > Len(u) /\ AgreeUpTo(t, u, Len(u))
    BY <1>1, <1>3, <2>1 DEF PrereleaseAbove, AgreeUpTo
  <2>2. ASSUME NEW i \in 1..Len(t), i \in 1..Len(u), AgreeUpTo(t, u, i - 1),
               Beyond(t[i], u[i])
        PROVE  PrereleaseAbove(s, u)
    <3>1. i \in 1..Len(s) /\ s[i] = t[i] /\ AgreeUpTo(s, u, i - 1)
      BY <1>1, <1>3, <2>2 DEF AgreeUpTo
    <3>2. Beyond(s[i], u[i])
      BY <2>2, <3>1
    <3> QED
      BY <1>1, <2>2, <3>1, <3>2 DEF PrereleaseAbove
  <2> QED
    BY <1>1, <2>1, <2>2 DEF PrereleaseAbove
<1>4. ASSUME NEW i \in 1..Len(s), i \in 1..Len(t), AgreeUpTo(s, t, i - 1),
             Beyond(s[i], t[i])
      PROVE  PrereleaseAbove(s, u)
  <2>1. CASE Len(t) > Len(u) /\ AgreeUpTo(t, u, Len(u)) /\ i <= Len(u)
    <3>1. i \in 1..Len(u) /\ t[i] = u[i] /\ AgreeUpTo(s, u, i - 1)
      BY <1>1, <1>4, <2>1 DEF AgreeUpTo
    <3>2. Beyond(s[i], u[i])
      BY <1>4, <3>1
    <3> QED
      BY <1>1, <3>1, <3>2 DEF PrereleaseAbove
  <2>2. CASE Len(t) > Len(u) /\ AgreeUpTo(t, u, Len(u)) /\ i > Len(u)
    BY <1>1, <1>4, <2>2 DEF PrereleaseAbove, AgreeUpTo
  <2>3. ASSUME NEW j \in 1..Len(t), j \in 1..Len(u), AgreeUpTo(t, u, j - 1),
               Beyond(t[j], u[j])
        PROVE  PrereleaseAbove(s, u)
    <3>1. CASE i < j
      <4>1. i \in 1..Len(u) /\ t[i] = u[i] /\ AgreeUpTo(s, u, i - 1)
        BY <1>1, <1>4, <2>3, <3>1 DEF AgreeUpTo
      <4>2. Beyond(s[i], u[i])
        BY <1>4, <4>1
      <4> QED
        BY <1>1, <4>1, <4>2 DEF PrereleaseAbove
    <3>2. CASE j < i
      <4>1. j \in 1..Len(s) /\ s[j] = t[j] /\ AgreeUpTo(s, u, j - 1)
        BY <1>1, <1>4, <2>3, <3>2 DEF AgreeUpTo
      <4>2. Beyond(s[j], u[j])
        BY <2>3, <4>1
      <4> QED
        BY <1>1, <2>3, <4>1, <4>2 DEF PrereleaseAbove
    <3>3. CASE i = j
      <4>1. AgreeUpTo(s, u, i - 1)
        BY <1>1, <1>4, <2>3, <3>3 DEF AgreeUpTo
      <4>2. Beyond(s[i], u[i])
        BY <1>1, <1>4, <2>3, <3>3, BeyondTransitive
      <4> QED
        BY <1>1, <2>3, <3>3, <4>1, <4>2 DEF PrereleaseAbove
    <3> QED
      BY <1>1, <3>1, <3>2, <3>3
  <2> QED
    BY <1>1, <2>1, <2>2, <2>3 DEF PrereleaseAbove
<1> QED
  BY <1>2, <1>3, <1>4 DEF PrereleaseAbove

\* What a version is made of.
LEMMA VersionParts ==
  ASSUME NEW v \in Versions, ParseVersion(v)
  PROVE  /\ v.core \in [1..3 -> Nat] /\ DOMAIN v.core = 1..3
         /\ v.pre \in Seq(Identifiers)
         /\ Len(v.pre) \in Nat /\ DOMAIN v.pre = 1..Len(v.pre)
         /\ \A i \in 1..Len(v.pre) : /\ v.pre[i] \in Identifiers
                                     /\ ~(v.pre[i].digits /\ v.pre[i].zeroLed)
<1>1. v.core \in [1..3 -> Nat] /\ v.pre \in Seq(Identifiers)
  BY VersionAssumption DEF ParseVersion
<1> QED
  BY <1>1 DEF ParseVersion, ValidPrerelease

LEMMA NewerTransitive ==
  ASSUME NEW u \in Versions, NEW v \in Versions, NEW w \in Versions,
         Newer(u, v), Newer(v, w)
  PROVE  Newer(u, w)
<1> SUFFICES Above(u, w)
  BY DEF Newer
<1>1. /\ \A i \in 1..3 : u.core[i] \in Nat /\ v.core[i] \in Nat /\ w.core[i] \in Nat
      /\ u.pre \in Seq(Identifiers) /\ v.pre \in Seq(Identifiers)
      /\ w.pre \in Seq(Identifiers)
  BY VersionParts DEF Newer
<1>2. ASSUME NEW i \in 1..3, AgreeUpTo(u.core, v.core, i - 1),
             u.core[i] > v.core[i]
      PROVE  Above(u, w)
  <2>1. CASE v.core = w.core
    BY <1>2, <2>1 DEF Above
  <2>2. ASSUME NEW j \in 1..3, AgreeUpTo(v.core, w.core, j - 1),
               v.core[j] > w.core[j]
        PROVE  Above(u, w)
    <3>1. CASE i <= j
      <4>1. \A k \in 1..(i - 1) : k \in 1..(j - 1)
        BY <3>1
      <4>2. AgreeUpTo(u.core, w.core, i - 1)
        BY <1>2, <2>2, <4>1 DEF AgreeUpTo
      <4>3. v.core[i] >= w.core[i]
        BY <1>1, <2>2, <3>1 DEF AgreeUpTo
      <4>4. u.core[i] > w.core[i]
        BY <1>1, <1>2, <4>3
      <4> QED
        BY <4>2, <4>4 DEF Above
    <3>2. CASE j < i
      <4>1. AgreeUpTo(u.core, w.core, j - 1) /\ u.core[j] = v.core[j]
        BY <1>2, <2>2, <3>2 DEF AgreeUpTo
      <4> QED
        BY <2>2, <4>1 DEF Above
    <3> QED
      BY <3>1, <3>2
  <2> QED
    BY <2>1, <2>2 DEF Newer, Above
<1>3. CASE u.core = v.core /\ PrereleaseAbove(u.pre, v.pre)
  <2>1. CASE v.core = w.core /\ PrereleaseAbove(v.pre, w.pre)
    BY <1>1, <1>3, <2>1, PrereleaseAboveTransitive DEF Above
  <2>2. CASE \E i \in 1..3 : AgreeUpTo(v.core, w.core, i - 1) /\ v.core[i] > w.core[i]
    BY <1>3, <2>2 DEF Above
  <2> QED
    BY <2>1, <2>2 DEF Newer, Above
<1> QED
  BY <1>2, <1>3 DEF Newer, Above

LEMMA NewerIrreflexive ==
  ASSUME NEW v \in Versions
  PROVE  ~Newer(v, v)
<1> SUFFICES ASSUME ParseVersion(v), Above(v, v)
             PROVE  FALSE
  BY DEF Newer
<1>1. /\ \A i \in 1..3 : v.core[i] \in Nat
      /\ Len(v.pre) \in Nat
  BY VersionParts
<1>2. PrereleaseAbove(v.pre, v.pre)
  BY <1>1 DEF Above
<1> QED
  BY <1>1, <1>2 DEF PrereleaseAbove, Beyond

\* What compareVersions calls newer is Newer.
LEMMA ComparedIsNewer ==
  ASSUME NEW v \in Versions, NEW w \in Versions, CompareVersions(v, w) > 0
  PROVE  Newer(v, w)
<1>1. ParseVersion(v) /\ ParseVersion(w)
  BY DEF CompareVersions
<1>2. /\ v.core \in [1..3 -> Nat] /\ DOMAIN v.core = 1..3
      /\ w.core \in [1..3 -> Nat] /\ DOMAIN w.core = 1..3
      /\ v.pre \in Seq(Identifiers) /\ DOMAIN v.pre = 1..Len(v.pre)
      /\ w.pre \in Seq(Identifiers) /\ DOMAIN w.pre = 1..Len(w.pre)
      /\ Len(v.pre) \in Nat /\ Len(w.pre) \in Nat
  BY <1>1, VersionParts
<1> DEFINE i == FirstDifference(v.core, w.core)
           k == FirstDifference(v.pre, w.pre)
<1>3. \/ /\ i = 0
         /\ \A j \in 1..3 : j \in 1..3 => v.core[j] = w.core[j]
      \/ /\ i \in 1..3
         /\ AgreeUpTo(v.core, w.core, i - 1)
  <2>1. 3 \in Nat
    OBVIOUS
  <2> QED
    BY <1>2, <2>1, FirstDifferenceProperties, Zenon
<1>4. CASE i > 0
  <2>1. i \in 1..3 /\ AgreeUpTo(v.core, w.core, i - 1)
    BY <1>3, <1>4
  <2>2. Sign(v.core[i], w.core[i]) > 0
    BY <1>1, <1>4 DEF CompareVersions
  <2>3. v.core[i] > w.core[i]
    BY <2>2 DEF Sign
  <2> QED
    BY <1>1, <2>1, <2>3 DEF Newer, Above
<1>5. CASE ~(i > 0)
  <2>1. v.core = w.core
    <3>1. \A j \in 1..3 : v.core[j] = w.core[j]
      BY <1>3, <1>5
    <3> QED
      BY <1>2, <3>1
  <2>2. ComparePrerelease(v.pre, w.pre) > 0
    BY <1>1, <1>5 DEF CompareVersions
  <2>3. v.pre # w.pre /\ w.pre # <<>>
    BY <2>2 DEF ComparePrerelease
  <2>4. CASE v.pre = <<>>
    BY <1>1, <2>1, <2>3, <2>4 DEF Newer, Above, PrereleaseAbove
  <2>5. CASE v.pre # <<>> /\ k > 0
    <3>1. /\ k \in 1..Len(v.pre) /\ k \in 1..Len(w.pre)
          /\ v.pre[k] # w.pre[k] /\ AgreeUpTo(v.pre, w.pre, k - 1)
      BY <1>2, <2>5, FirstDifferenceProperties
    <3>2. CompareIdentifiers(v.pre[k], w.pre[k]) > 0
      BY <2>2, <2>3, <2>5 DEF ComparePrerelease
    <3>3. Beyond(v.pre[k], w.pre[k])
      BY <3>1, <3>2 DEF Beyond, CompareIdentifiers, Sign
    <3> QED
      BY <1>1, <2>1, <2>3, <3>1, <3>3 DEF Newer, Above, PrereleaseAbove
  <2>6. CASE v.pre # <<>> /\ ~(k > 0)
    <3>1. \A j \in 1..Len(v.pre) : j \in 1..Len(w.pre) => v.pre[j] = w.pre[j]
      BY <1>2, <2>6, FirstDifferenceProperties
    <3>2. Sign(Len(v.pre), Len(w.pre)) > 0
      BY <2>2, <2>3, <2>6 DEF ComparePrerelease
    <3>3. Len(v.pre) > Len(w.pre)
      BY <3>2 DEF Sign
    <3>4. AgreeUpTo(v.pre, w.pre, Len(w.pre))
      BY <1>2, <3>1, <3>3 DEF AgreeUpTo
    <3> QED
      BY <1>1, <2>1, <2>3, <3>3, <3>4 DEF Newer, Above, PrereleaseAbove
  <2> QED
    BY <2>4, <2>5, <2>6
<1> QED
  BY <1>4, <1>5

\* On plain versions it is the order of Semantic Versioning.
LEMMA NewerIsPrecedence ==
  ASSUME NEW v \in Versions, NEW w \in Versions, Newer(v, w), Plain(v), Plain(w)
  PROVE  Precedes(w, v)
<1>1. /\ \A i \in 1..3 : v.core[i] \in Nat /\ w.core[i] \in Nat
      /\ DOMAIN v.pre = 1..Len(v.pre) /\ Len(v.pre) \in Nat
      /\ DOMAIN w.pre = 1..Len(w.pre) /\ Len(w.pre) \in Nat
      /\ \A i \in 1..Len(v.pre) : /\ v.pre[i] \in Identifiers
                                  /\ ~(v.pre[i].digits /\ v.pre[i].zeroLed)
      /\ \A i \in 1..Len(w.pre) : /\ w.pre[i] \in Identifiers
                                  /\ ~(w.pre[i].digits /\ w.pre[i].zeroLed)
  BY VersionParts DEF Newer
<1>2. ASSUME NEW i \in 1..3, AgreeUpTo(v.core, w.core, i - 1), v.core[i] > w.core[i]
      PROVE  Precedes(w, v)
  <2>1. AgreeUpTo(w.core, v.core, i - 1) /\ w.core[i] < v.core[i]
    BY <1>1, <1>2 DEF AgreeUpTo
  <2> QED
    BY <2>1 DEF Precedes
<1>3. CASE v.core = w.core /\ PrereleaseAbove(v.pre, w.pre)
  <2>1. w.pre # <<>>
    BY <1>3 DEF PrereleaseAbove
  <2>2. CASE v.pre = <<>>
    BY <1>3, <2>1, <2>2 DEF Precedes
  <2>3. CASE Len(v.pre) > Len(w.pre) /\ AgreeUpTo(v.pre, w.pre, Len(w.pre))
    <3>1. Len(w.pre) < Len(v.pre) /\ AgreeUpTo(w.pre, v.pre, Len(w.pre))
      BY <1>1, <2>3 DEF AgreeUpTo
    <3> QED
      BY <1>3, <2>1, <3>1 DEF Precedes
  <2>4. ASSUME NEW i \in 1..Len(v.pre), i \in 1..Len(w.pre),
               AgreeUpTo(v.pre, w.pre, i - 1), Beyond(v.pre[i], w.pre[i])
        PROVE  Precedes(w, v)
    <3>1. i \in DOMAIN w.pre \cap DOMAIN v.pre
      BY <1>1, <2>4
    <3>2. AgreeUpTo(w.pre, v.pre, i - 1)
      BY <2>4 DEF AgreeUpTo
    <3>3. /\ v.pre[i].digits <=> v.pre[i].atoi # Overflow
          /\ w.pre[i].digits <=> w.pre[i].atoi # Overflow
      BY <3>1 DEF Plain
    <3>4. IdentifierPrecedes(w.pre[i], v.pre[i])
      BY <1>1, <2>4, <3>3, BeyondIsPrecedence
    <3> QED
      BY <1>3, <3>1, <3>2, <3>4 DEF Precedes
  <2> QED
    BY <1>3, <2>2, <2>3, <2>4 DEF PrereleaseAbove
<1> QED
  BY <1>2, <1>3 DEF Newer, Above

-----------------------------------------------------------------------------
\* The other way round: nothing that is newer is taken for something else.
LEMMA FirstDifferenceIs ==
  ASSUME NEW m \in Nat, NEW n \in Nat, NEW s, NEW t,
         DOMAIN s = 1..m, DOMAIN t = 1..n,
         NEW i \in 1..m, i \in 1..n, s[i] # t[i], AgreeUpTo(s, t, i - 1)
  PROVE  FirstDifference(s, t) = i
<1> DEFINE k == FirstDifference(s, t)
<1>1. \/ /\ k = 0
         /\ \A j \in 1..m : j \in 1..n => s[j] = t[j]
      \/ /\ k \in 1..m /\ k \in 1..n
         /\ s[k] # t[k] /\ AgreeUpTo(s, t, k - 1)
  BY FirstDifferenceProperties, Zenon
<1> HIDE DEF k
<1>2. k \in 1..m /\ s[k] # t[k] /\ AgreeUpTo(s, t, k - 1)
  BY <1>1
<1>3. ~(k < i) /\ ~(i < k)
  BY <1>2 DEF AgreeUpTo
<1>4. k = i
  BY <1>2, <1>3
<1> QED
  BY <1>4 DEF k

LEMMA CoreDifferenceIs ==
  ASSUME NEW f \in [1..3 -> Nat], NEW g \in [1..3 -> Nat], NEW i \in 1..3,
         f[i] # g[i], AgreeUpTo(f, g, i - 1)
  PROVE  FirstDifference(f, g) = i
<1>1. PICK n \in Nat : n = 3
  OBVIOUS
<1>2. DOMAIN f = 1..n /\ DOMAIN g = 1..n /\ i \in 1..n
  BY <1>1
<1> QED
  BY <1>2, FirstDifferenceIs

LEMMA NoFirstDifference ==
  ASSUME NEW m \in Nat, NEW n \in Nat, NEW s, NEW t,
         DOMAIN s = 1..m, DOMAIN t = 1..n,
         \A j \in 1..m : j \in 1..n => s[j] = t[j]
  PROVE  FirstDifference(s, t) = 0
<1>1. {i \in DOMAIN s \cap DOMAIN t : s[i] # t[i]} = {}
  OBVIOUS
<1> QED
  BY <1>1 DEF FirstDifference

LEMMA NewerIsCompared ==
  ASSUME NEW v \in Versions, NEW w \in Versions, Newer(v, w)
  PROVE  CompareVersions(v, w) = 1
<1>1. ParseVersion(v) /\ ParseVersion(w)
  BY DEF Newer
<1>2. /\ v.core \in [1..3 -> Nat] /\ DOMAIN v.core = 1..3
      /\ w.core \in [1..3 -> Nat] /\ DOMAIN w.core = 1..3
      /\ v.pre \in Seq(Identifiers) /\ DOMAIN v.pre = 1..Len(v.pre)
      /\ w.pre \in Seq(Identifiers) /\ DOMAIN w.pre = 1..Len(w.pre)
      /\ Len(v.pre) \in Nat /\ Len(w.pre) \in Nat /\ 3 \in Nat
  BY <1>1, VersionParts
<1>3. ASSUME NEW i \in 1..3, AgreeUpTo(v.core, w.core, i - 1),
             v.core[i] > w.core[i]
      PROVE  CompareVersions(v, w) = 1
  <2>1. v.core[i] # w.core[i]
    BY <1>2, <1>3
  <2>2. FirstDifference(v.core, w.core) = i
    BY <1>2, <1>3, <2>1, CoreDifferenceIs
  <2>3. CompareVersions(v, w) = Sign(v.core[i], w.core[i])
    BY <1>1, <2>2 DEF CompareVersions
  <2> QED
    BY <1>3, <2>3 DEF Sign
<1>4. ASSUME v.core = w.core, PrereleaseAbove(v.pre, w.pre)
      PROVE  CompareVersions(v, w) = 1
  <2>1. FirstDifference(v.core, w.core) = 0
    BY <1>2, <1>4, NoFirstDifference
  <2>2. CompareVersions(v, w) = ComparePrerelease(v.pre, w.pre)
    BY <1>1, <2>1 DEF CompareVersions
  <2>3. w.pre # <<>>
    BY <1>4 DEF PrereleaseAbove
  <2>4. CASE v.pre = <<>>
    BY <2>2, <2>3, <2>4 DEF ComparePrerelease
  <2>5. CASE v.pre # <<>> /\ Len(v.pre) > Len(w.pre) /\ AgreeUpTo(v.pre, w.pre, Len(w.pre))
    <3>1. FirstDifference(v.pre, w.pre) = 0
      <4>1. \A j \in 1..Len(v.pre) : j \in 1..Len(w.pre) => v.pre[j] = w.pre[j]
        BY <2>5 DEF AgreeUpTo
      <4> QED
        BY <1>2, <4>1, NoFirstDifference
    <3>2. v.pre # w.pre
      BY <1>2, <2>5
    <3>3. ComparePrerelease(v.pre, w.pre) = Sign(Len(v.pre), Len(w.pre))
      BY <2>3, <2>5, <3>1, <3>2 DEF ComparePrerelease
    <3> QED
      BY <2>2, <2>5, <3>3 DEF Sign
  <2>6. ASSUME v.pre # <<>>, NEW i \in 1..Len(v.pre), i \in 1..Len(w.pre),
               AgreeUpTo(v.pre, w.pre, i - 1), Beyond(v.pre[i], w.pre[i])
        PROVE  CompareVersions(v, w) = 1
    <3>1. v.pre[i] # w.pre[i] /\ CompareIdentifiers(v.pre[i], w.pre[i]) = 1
      BY <2>6 DEF Beyond
    <3>2. FirstDifference(v.pre, w.pre) = i
      BY <1>2, <2>6, <3>1, FirstDifferenceIs
    <3>3. v.pre # w.pre /\ i > 0
      BY <2>6, <3>1
    <3>4. ComparePrerelease(v.pre, w.pre) = CompareIdentifiers(v.pre[i], w.pre[i])
      BY <2>3, <2>6, <3>2, <3>3 DEF ComparePrerelease
    <3> QED
      BY <2>2, <3>1, <3>4
  <2> QED
    BY <1>4, <2>4, <2>5, <2>6 DEF PrereleaseAbove
<1> QED
  BY <1>3, <1>4 DEF Newer, Above

LEMMA PrecedenceIsBeyond ==
  ASSUME NEW x \in Identifiers, NEW y \in Identifiers, IdentifierPrecedes(y, x),
         x.digits <=> x.atoi # Overflow, ~(x.digits /\ x.zeroLed),
         y.digits <=> y.atoi # Overflow, ~(y.digits /\ y.zeroLed)
  PROVE  Beyond(x, y)
<1>1. /\ x.rank \in Int /\ y.rank \in Int
      /\ Numeric(x) => x.atoi \in Int
      /\ Numeric(y) => y.atoi \in Int
  BY IdentifierAssumption DEF Numeric
<1>2. (Numeric(x) <=> x.digits) /\ (Numeric(y) <=> y.digits)
  BY DEF Numeric
<1>3. CASE Numeric(x) /\ Numeric(y)
  BY <1>1, <1>2, <1>3, BeyondIff DEF IdentifierPrecedes
<1>4. CASE ~(Numeric(x) /\ Numeric(y))
  BY <1>1, <1>2, <1>4, BeyondIff DEF IdentifierPrecedes
<1> QED
  BY <1>3, <1>4

LEMMA PrecedenceIsNewer ==
  ASSUME NEW v \in Versions, NEW w \in Versions, ParseVersion(v), ParseVersion(w),
         Plain(v), Plain(w), Precedes(w, v)
  PROVE  Newer(v, w)
<1>1. /\ \A i \in 1..3 : v.core[i] \in Nat /\ w.core[i] \in Nat
      /\ v.pre \in Seq(Identifiers) /\ w.pre \in Seq(Identifiers)
      /\ DOMAIN v.pre = 1..Len(v.pre) /\ Len(v.pre) \in Nat
      /\ DOMAIN w.pre = 1..Len(w.pre) /\ Len(w.pre) \in Nat
      /\ \A i \in 1..Len(v.pre) : /\ v.pre[i] \in Identifiers
                                  /\ ~(v.pre[i].digits /\ v.pre[i].zeroLed)
      /\ \A i \in 1..Len(w.pre) : /\ w.pre[i] \in Identifiers
                                  /\ ~(w.pre[i].digits /\ w.pre[i].zeroLed)
  BY VersionParts
<1> SUFFICES Above(v, w)
  BY DEF Newer
<1>2. ASSUME NEW i \in 1..3, AgreeUpTo(w.core, v.core, i - 1), w.core[i] < v.core[i]
      PROVE  Above(v, w)
  <2>1. AgreeUpTo(v.core, w.core, i - 1) /\ v.core[i] > w.core[i]
    BY <1>1, <1>2 DEF AgreeUpTo
  <2> QED
    BY <2>1 DEF Above
<1>3. ASSUME v.core = w.core, w.pre # <<>>, v.pre = <<>>
      PROVE  Above(v, w)
  BY <1>3 DEF Above, PrereleaseAbove
<1>4. ASSUME v.core = w.core, w.pre # <<>>, Len(w.pre) < Len(v.pre),
             AgreeUpTo(w.pre, v.pre, Len(w.pre))
      PROVE  Above(v, w)
  <2>1. Len(v.pre) > Len(w.pre) /\ AgreeUpTo(v.pre, w.pre, Len(w.pre))
    BY <1>1, <1>4 DEF AgreeUpTo
  <2> QED
    BY <1>4, <2>1 DEF Above, PrereleaseAbove
<1>5. ASSUME v.core = w.core, NEW i \in DOMAIN w.pre \cap DOMAIN v.pre,
             AgreeUpTo(w.pre, v.pre, i - 1), IdentifierPrecedes(w.pre[i], v.pre[i])
      PROVE  Above(v, w)
  <2>1. i \in 1..Len(v.pre) /\ i \in 1..Len(w.pre) /\ w.pre # <<>>
    BY <1>1, <1>5
  <2>2. AgreeUpTo(v.pre, w.pre, i - 1)
    BY <1>5 DEF AgreeUpTo
  <2>3. /\ v.pre[i].digits <=> v.pre[i].atoi # Overflow
        /\ w.pre[i].digits <=> w.pre[i].atoi # Overflow
    BY <1>5 DEF Plain
  <2>4. Beyond(v.pre[i], w.pre[i])
    BY <1>1, <1>5, <2>1, <2>3, PrecedenceIsBeyond
  <2> QED
    BY <1>5, <2>1, <2>2, <2>4 DEF Above, PrereleaseAbove
<1> QED
  BY <1>2, <1>3, <1>4, <1>5 DEF Precedes

\* checker.go:233-301: on plain versions that can be read, compareVersions says
\* newer of exactly those pairs of which Semantic Versioning says it.
THEOREM ComparisonIsPrecedence ==
  ASSUME NEW v \in Versions, NEW w \in Versions, ParseVersion(v), ParseVersion(w),
         Plain(v), Plain(w)
  PROVE  CompareVersions(v, w) > 0 <=> Precedes(w, v)
<1>1. ASSUME CompareVersions(v, w) > 0 PROVE Precedes(w, v)
  BY <1>1, ComparedIsNewer, NewerIsPrecedence
<1>2. ASSUME Precedes(w, v) PROVE CompareVersions(v, w) > 0
  BY <1>2, PrecedenceIsNewer, NewerIsCompared
<1> QED
  BY <1>1, <1>2

-----------------------------------------------------------------------------
\* A result and its time: the version was the latest no longer than slack before
\* that time, as far as the clock can tell.
Honest(r, slack) ==
  /\ r \in Releases /\ r.version \in names
  /\ since[r.version] <= (now - r.at) + back + slack

\* An offer belongs to a process that has ended and is newer than what it runs
\* on, because nobody upgrades while another process looks; what is installed is
\* newer than all that was.
UpdateInv ==
  /\ UpdateTypeOK
  /\ since[feed] = 0
  /\ cache # Nothing => Honest(cache, RequestTime)
  /\ \A p \in Checkers :
       /\ check[p] = "received" => Honest(answer[p], 0)
       /\ check[p] = "answered" => Honest(answer[p], RequestTime)
  /\ \A p \in Checkers : offer[p] # Nothing =>
       /\ check[p] = "ended"
       /\ offer[p] \in names /\ Newer(offer[p], installed)
  /\ \A v \in were : Newer(installed, v)

LEMMA UpdateInitInv == UpdateInit => UpdateInv
<1> SUFFICES ASSUME UpdateInit PROVE UpdateInv
  OBVIOUS
<1>1. UpdateTypeOK
  BY UpdateAssumption DEF UpdateInit, UpdateTypeOK, LongAgo
<1> QED
  BY <1>1 DEF UpdateInit, UpdateInv, UpdateTypeOK

\* What a process that ends leaves for its user.
LEMMA EndsOffersNewer ==
  ASSUME UpdateInv, NEW p \in Checkers, NEW r \in Releases, r.version \in names,
         Ends(p, r), UNCHANGED <<names, installed>>
  PROVE  /\ check' \in [Checkers -> {"none", "asking", "received", "answered", "ended"}]
         /\ offer' \in [Checkers -> Versions \cup {Nothing}]
         /\ \A q \in Checkers : check'[q] \in {"received", "answered"}
                                => check'[q] = check[q] /\ q # p
         /\ \A q \in Checkers : offer'[q] # Nothing =>
              /\ check'[q] = "ended"
              /\ offer'[q] \in names' /\ Newer(offer'[q], installed')
<1>1. r.version \in Versions /\ installed \in Versions
  BY DEF UpdateInv, UpdateTypeOK
<1>2. /\ check' \in [Checkers -> {"none", "asking", "received", "answered", "ended"}]
      /\ check'[p] = "ended"
      /\ \A q \in Checkers \ {p} : check'[q] = check[q] /\ offer'[q] = offer[q]
  BY DEF Ends, UpdateInv, UpdateTypeOK
<1>3. offer'[p] = IF UpdateAvailable(r) THEN r.version ELSE Nothing
  BY DEF Ends, UpdateInv, UpdateTypeOK
<1>4. UpdateAvailable(r) => Newer(r.version, installed)
  BY <1>1, ComparedIsNewer DEF UpdateAvailable
<1>5. offer' \in [Checkers -> Versions \cup {Nothing}]
  BY <1>1 DEF Ends, UpdateInv, UpdateTypeOK
<1>6. offer'[p] # Nothing => offer'[p] \in names /\ Newer(offer'[p], installed)
  BY <1>3, <1>4
<1> QED
  BY <1>2, <1>5, <1>6 DEF UpdateInv

LEMMA EndsSilentlyOffersNothing ==
  ASSUME UpdateInv, NEW p \in Checkers, EndsSilently(p), UNCHANGED <<names, installed>>
  PROVE  /\ check' \in [Checkers -> {"none", "asking", "received", "answered", "ended"}]
         /\ offer' \in [Checkers -> Versions \cup {Nothing}]
         /\ \A q \in Checkers : check'[q] \in {"received", "answered"}
                                => check'[q] = check[q] /\ q # p
         /\ \A q \in Checkers : offer'[q] # Nothing =>
              /\ check'[q] = "ended"
              /\ offer'[q] \in names' /\ Newer(offer'[q], installed')
BY DEF EndsSilently, UpdateInv, UpdateTypeOK

LEMMA ProcessKeepsInv ==
  ASSUME UpdateInv, NEW p \in Checkers, Process(p)
  PROVE  UpdateInv'
<1>0. /\ now \in Nat /\ now <= MaxTime /\ MaxTime \in Nat
      /\ back \in Nat /\ RequestTime \in Nat
      /\ names \subseteq Versions /\ installed \in Versions /\ feed \in Versions
  BY UpdateAssumption DEF UpdateInv, UpdateTypeOK
<1>1. CASE UseCache(p)
  <2>1. cache \in Releases /\ cache.version \in names
    BY <1>1 DEF UseCache, Fresh, UpdateInv, Honest
  <2>2. Ends(p, cache)
    BY <1>1 DEF UseCache
  <2>3. UNCHANGED <<now, back, names, feed, installed, were, cache, answer, since>>
    BY <1>1 DEF UseCache
  <2> QED
    BY <2>1, <2>2, <2>3, EndsOffersNewer DEF UpdateInv, UpdateTypeOK, Honest
<1>2. CASE Refuses(p)
  <2>1. EndsSilently(p)
    BY <1>2 DEF Refuses
  <2>2. UNCHANGED <<now, back, names, feed, installed, were, cache, answer, since>>
    BY <1>2 DEF Refuses
  <2> QED
    BY <2>1, <2>2, EndsSilentlyOffersNothing DEF UpdateInv, UpdateTypeOK, Honest
<1>3. CASE \E force \in BOOLEAN : Ask(p, force)
  <2>1. /\ check[p] = "none" /\ check' = [check EXCEPT ![p] = "asking"]
        /\ UNCHANGED <<now, back, names, feed, installed, were, cache, answer, offer, since>>
    BY <1>3 DEF Ask
  <2> QED
    BY <2>1 DEF UpdateInv, UpdateTypeOK, Honest
<1>4. CASE FeedAnswers(p)
  <2>1. /\ check[p] = "asking" /\ ParseVersion(feed)
        /\ answer' = [answer EXCEPT ![p] = Cached(feed, now)]
        /\ check' = [check EXCEPT ![p] = "received"]
        /\ UNCHANGED <<now, back, names, feed, installed, were, cache, offer, since>>
    BY <1>4 DEF FeedAnswers
  <2>2. /\ Cached(feed, now).version = feed /\ Cached(feed, now).at = now
        /\ Cached(feed, now) \in Releases
    BY <1>0, <2>1 DEF Cached, Releases, UpdateInv, UpdateTypeOK
  <2>3. Honest(Cached(feed, now), 0)
    BY <1>0, <2>2 DEF Honest, UpdateInv, UpdateTypeOK
  <2>4. UpdateTypeOK'
    BY <2>1, <2>2 DEF UpdateInv, UpdateTypeOK
  <2>5. \A q \in Checkers :
          /\ check'[q] = "received" => Honest(answer'[q], 0)
          /\ check'[q] = "answered" => Honest(answer'[q], RequestTime)
    BY <2>1, <2>3 DEF UpdateInv, UpdateTypeOK
  <2> QED
    BY <2>1, <2>4, <2>5 DEF UpdateInv, UpdateTypeOK, Honest
<1>10. CASE Stamp(p)
  <2> DEFINE r == Cached(answer[p].version, now)
  <2>1. /\ check[p] = "received" /\ now - answer[p].at <= RequestTime
        /\ answer' = [answer EXCEPT ![p] = r]
        /\ check' = [check EXCEPT ![p] = "answered"]
        /\ UNCHANGED <<now, back, names, feed, installed, were, cache, offer, since>>
    BY <1>10 DEF Stamp
  <2>2. Honest(answer[p], 0)
    BY <2>1 DEF UpdateInv
  <2>3. /\ r.version = answer[p].version /\ r.at = now /\ r \in Releases
        /\ answer[p].at \in Nat /\ since[r.version] \in Nat
    BY <1>0, <2>2 DEF Cached, Releases, Honest, UpdateInv, UpdateTypeOK
  <2>4. since[r.version] <= (now - r.at) + back + RequestTime
    <3>1. since[r.version] <= (now - answer[p].at) + back + 0
      BY <2>2, <2>3 DEF Honest
    <3> QED
      BY <1>0, <2>1, <2>3, <3>1
  <2>5. Honest(r, RequestTime)
    BY <2>2, <2>3, <2>4 DEF Honest
  <2> HIDE DEF r
  <2>6. UpdateTypeOK'
    BY <2>1, <2>3 DEF UpdateInv, UpdateTypeOK
  <2>7. \A q \in Checkers :
          /\ check'[q] = "received" => Honest(answer'[q], 0)
          /\ check'[q] = "answered" => Honest(answer'[q], RequestTime)
    BY <2>1, <2>5 DEF UpdateInv, UpdateTypeOK
  <2> QED
    BY <2>1, <2>6, <2>7 DEF UpdateInv, UpdateTypeOK, Honest
<1>5. CASE FeedFails(p)
  <2>1. /\ EndsSilently(p) /\ answer' = [answer EXCEPT ![p] = Nothing]
        /\ UNCHANGED <<now, back, names, feed, installed, were, cache, since>>
    BY <1>5 DEF FeedFails
  <2>2. /\ answer' \in [Checkers -> Releases \cup {Nothing}]
        /\ \A q \in Checkers \ {p} : answer'[q] = answer[q]
    BY <2>1 DEF UpdateInv, UpdateTypeOK
  <2> QED
    BY <2>1, <2>2, EndsSilentlyOffersNothing DEF UpdateInv, UpdateTypeOK, Honest
<1>6. CASE WriteCache(p)
  <2>1. /\ Honest(answer[p], RequestTime) /\ cache' = answer[p] /\ Ends(p, answer[p])
        /\ answer' = [answer EXCEPT ![p] = Nothing]
        /\ UNCHANGED <<now, back, names, feed, installed, were, since>>
    BY <1>6 DEF WriteCache, UpdateInv
  <2>2. answer[p] \in Releases /\ answer[p].version \in names
    BY <2>1 DEF Honest
  <2>3. /\ answer' \in [Checkers -> Releases \cup {Nothing}]
        /\ \A q \in Checkers \ {p} : answer'[q] = answer[q]
    BY <2>1 DEF UpdateInv, UpdateTypeOK
  <2> QED
    BY <2>1, <2>2, <2>3, EndsOffersNewer DEF UpdateInv, UpdateTypeOK, Honest
<1>7. CASE WriteFails(p)
  <2>1. /\ EndsSilently(p) /\ answer' = [answer EXCEPT ![p] = Nothing]
        /\ UNCHANGED <<now, back, names, feed, installed, were, cache, since>>
    BY <1>7 DEF WriteFails
  <2>2. /\ answer' \in [Checkers -> Releases \cup {Nothing}]
        /\ \A q \in Checkers \ {p} : answer'[q] = answer[q]
    BY <2>1 DEF UpdateInv, UpdateTypeOK
  <2> QED
    BY <2>1, <2>2, EndsSilentlyOffersNothing DEF UpdateInv, UpdateTypeOK, Honest
<1>8. CASE Upgrade(p)
  <2>1. /\ \A q \in Checkers \ {p} : check[q] = "none"
        /\ check[p] = "ended" /\ offer[p] # Nothing
        /\ were' = were \cup {installed} /\ installed' = offer[p]
        /\ check' = [check EXCEPT ![p] = "none"]
        /\ offer' = [offer EXCEPT ![p] = Nothing]
        /\ UNCHANGED <<now, back, names, feed, cache, answer, since>>
    BY <1>8 DEF Upgrade
  <2>2. offer[p] \in names /\ Newer(offer[p], installed)
    BY <2>1 DEF UpdateInv
  <2>3. UpdateTypeOK'
    BY <2>1, <2>2 DEF UpdateInv, UpdateTypeOK
  <2>4. \A q \in Checkers : offer'[q] = Nothing
    BY <2>1 DEF UpdateInv, UpdateTypeOK
  <2>5. ASSUME NEW v \in were' PROVE Newer(installed', v)
    <3>1. v \in Versions /\ offer[p] \in Versions
      BY <1>0, <2>2, <2>3, <2>5 DEF UpdateTypeOK
    <3>2. CASE v = installed
      BY <2>1, <2>2, <3>2
    <3>3. CASE v \in were
      <4>1. Newer(installed, v)
        BY <3>3 DEF UpdateInv
      <4> QED
        BY <1>0, <2>1, <2>2, <3>1, <4>1, NewerTransitive
    <3> QED
      BY <2>1, <2>5, <3>2, <3>3
  <2>6. \A q \in Checkers :
          /\ check'[q] = "received" => Honest(answer[q], 0)
          /\ check'[q] = "answered" => Honest(answer[q], RequestTime)
    BY <2>1 DEF UpdateInv, UpdateTypeOK
  <2> QED
    BY <2>1, <2>3, <2>4, <2>5, <2>6 DEF UpdateInv, Honest
<1>9. CASE Forget(p)
  <2>1. /\ check' = [check EXCEPT ![p] = "none"]
        /\ offer' = [offer EXCEPT ![p] = Nothing]
        /\ UNCHANGED <<now, back, names, feed, installed, were, cache, answer, since>>
    BY <1>9 DEF Forget
  <2> QED
    BY <2>1 DEF UpdateInv, UpdateTypeOK, Honest
<1> QED
  BY <1>1, <1>2, <1>3, <1>4, <1>5, <1>6, <1>7, <1>8, <1>9, <1>10 DEF Process

\* A version that was the latest n hours ago is no more than n hours old.
LEMMA WorldKeepsInv ==
  ASSUME UpdateInv, Tick \/ SetBack \/ \E v \in names : Release(v)
  PROVE  UpdateInv'
<1>0. /\ now \in Nat /\ now <= MaxTime /\ MaxTime \in Nat /\ LongAgo \in Nat
      /\ back \in Nat /\ back <= MaxSetBack /\ MaxSetBack \in Nat /\ RequestTime \in Nat
      /\ names \subseteq Versions
      /\ \A v \in Versions : since[v] \in Nat /\ since[v] <= LongAgo
      /\ \A r \in Releases : r.at \in Nat /\ r.version \in Versions
  BY UpdateAssumption DEF UpdateInv, UpdateTypeOK, Releases, LongAgo
<1>1. CASE Tick
  <2>1. /\ now < MaxTime /\ now' = now + 1
        /\ since' = [v \in Versions |->
             IF v = feed THEN 0 ELSE IF since[v] < LongAgo THEN since[v] + 1 ELSE LongAgo]
        /\ UNCHANGED <<back, names, feed, installed, were, cache, check, answer, offer>>
    BY <1>1 DEF Tick
  <2>2. /\ since' \in [Versions -> 0..LongAgo]
        /\ \A v \in Versions : since'[v] \in Nat /\ since'[v] <= since[v] + 1
    BY <1>0, <2>1
  <2>3. since'[feed] = 0
    BY <1>0, <2>1 DEF UpdateInv, UpdateTypeOK
  <2>4. \A r \in Releases, slack \in {0, RequestTime} : Honest(r, slack) => Honest(r, slack)'
    BY <1>0, <2>1, <2>2 DEF Honest, Releases
  <2>5. UpdateTypeOK'
    BY <1>0, <2>1, <2>2 DEF UpdateInv, UpdateTypeOK, Releases
  <2> QED
    BY <2>1, <2>3, <2>4, <2>5 DEF UpdateInv, Honest
<1>3. CASE SetBack
  <2>1. /\ now > 0 /\ back < MaxSetBack /\ now' = now - 1 /\ back' = back + 1
        /\ UNCHANGED <<names, feed, installed, were, cache, check, answer, offer, since>>
    BY <1>3 DEF SetBack
  <2>2. \A r \in Releases, slack \in {0, RequestTime} : Honest(r, slack) => Honest(r, slack)'
    BY <1>0, <2>1 DEF Honest, Releases
  <2>3. UpdateTypeOK'
    BY <1>0, <2>1 DEF UpdateInv, UpdateTypeOK, Releases
  <2> QED
    BY <2>1, <2>2, <2>3 DEF UpdateInv, Honest
<1>2. ASSUME NEW v \in names, Release(v) PROVE UpdateInv'
  <2>1. /\ feed' = v /\ since' = [since EXCEPT ![v] = 0]
        /\ UNCHANGED <<now, back, names, installed, were, cache, check, answer, offer>>
    BY <1>2 DEF Release
  <2>2. /\ since' \in [Versions -> 0..LongAgo] /\ since'[v] = 0
        /\ \A w \in Versions : since'[w] \in Nat /\ since'[w] <= since[w]
    BY <1>0, <1>2, <2>1 DEF UpdateInv, UpdateTypeOK
  <2>3. \A r \in Releases, slack \in {0, RequestTime} : Honest(r, slack) => Honest(r, slack)'
    BY <1>0, <2>1, <2>2 DEF Honest, Releases
  <2>4. UpdateTypeOK'
    BY <1>2, <2>1, <2>2 DEF UpdateInv, UpdateTypeOK, Releases
  <2> QED
    BY <2>1, <2>2, <2>3, <2>4 DEF UpdateInv, Honest
<1> QED
  BY <1>1, <1>2, <1>3

LEMMA UpdateStepInv == UpdateInv /\ [UpdateNext]_updateVars => UpdateInv'
<1>1. ASSUME UpdateInv, UpdateNext PROVE UpdateInv'
  BY <1>1, ProcessKeepsInv, WorldKeepsInv DEF UpdateNext
<1>2. ASSUME UpdateInv, UNCHANGED updateVars PROVE UpdateInv'
  BY <1>2 DEF updateVars, UpdateInv, UpdateTypeOK, Honest, Releases
<1> QED
  BY <1>1, <1>2

LEMMA UpdateInvariant == UpdateSpec => []UpdateInv
BY UpdateInitInv, UpdateStepInv, PTL DEF UpdateSpec

-----------------------------------------------------------------------------
\* checker.go:211: whatever versions there are, what is offered comes after what
\* is installed in the order of Semantic Versioning.
THEOREM OffersAreNewer == UpdateSpec => []OfferIsNewer
<1>1. UpdateInv => OfferIsNewer
  BY NewerIsPrecedence DEF UpdateInv, UpdateTypeOK, OfferIsNewer
<1> QED
  BY <1>1, UpdateInvariant, PTL

\* checker.go:255-301: compareVersions is an order on all versions, so that no
\* chain of offers comes back to a version that was installed.
THEOREM NoCycleOfOffers == UpdateSpec => []OffersNeverCycle
<1>1. UpdateInv => OffersNeverCycle
  BY NewerIrreflexive DEF UpdateInv, UpdateTypeOK, OffersNeverCycle
<1> QED
  BY <1>1, UpdateInvariant, PTL

\* checker.go:75, 113: with any number of processes that write the cache, late or
\* not, and however the feed changes before an answer gets its time, a cache that
\* is used is no older than its life, a request and what the clock lost.
THEOREM CacheStaysFresh == UpdateSpec => []CacheNotStale
<1>1. UpdateInv => CacheNotStale
  <2> SUFFICES ASSUME UpdateInv, cache # Nothing, Fresh
               PROVE  since[cache.version] < Lifetime + RequestTime + back
    BY DEF CacheNotStale
  <2>1. /\ now \in Nat /\ Lifetime \in Nat /\ cache.at \in Nat
        /\ RequestTime \in Nat /\ back \in Nat
        /\ since[cache.version] \in Nat
    BY UpdateAssumption DEF UpdateInv, UpdateTypeOK, Honest, Releases, LongAgo
  <2>2. /\ since[cache.version] <= (now - cache.at) + back + RequestTime
        /\ now - cache.at < Lifetime
    BY DEF UpdateInv, Honest, Fresh
  <2> QED
    BY <2>1, <2>2
<1> QED
  BY <1>1, UpdateInvariant, PTL

\* checker.go:124, cli/updates.go:88: no process keeps a newer version, that it
\* read from the cache or wrote there, from its user.
THEOREM NewerIsNotWithheld == UpdateSpec => NewerIsOffered
<1> DEFINE Told(p) ==
      /\ check[p] # "ended" /\ check'[p] = "ended"
      /\ check[p] = "none" \/ cache' # cache
      /\ ParseVersion(installed) /\ Plain(installed)
      /\ Plain(cache'.version) /\ Precedes(installed, cache'.version)
<1>1. ASSUME UpdateInv, NEW r \in Releases, Plain(r.version),
             ParseVersion(installed), Plain(installed), Precedes(installed, r.version)
      PROVE  UpdateAvailable(r)
  <2>1. r.version \in Versions /\ ParseVersion(r.version) /\ installed \in Versions
    BY <1>1 DEF Releases, UpdateInv, UpdateTypeOK
  <2> QED
    BY <1>1, <2>1, ComparisonIsPrecedence DEF UpdateAvailable
<1>2. ASSUME UpdateInv, NEW p \in Checkers, Told(p), NEW q \in Checkers, Process(q)
      PROVE  offer'[p] = cache'.version
  <2>0. DOMAIN check = Checkers /\ DOMAIN offer = Checkers
    BY <1>2 DEF UpdateInv, UpdateTypeOK
  <2>1. ASSUME UseCache(q) PROVE offer'[p] = cache'.version
    <3>1. p = q
      BY <1>2, <2>0, <2>1 DEF UseCache, Ends
    <3>2. cache' = cache /\ cache \in Releases
      BY <1>2, <2>1 DEF UseCache, Fresh, UpdateInv, Honest
    <3>3. UpdateAvailable(cache)
      BY <1>1, <1>2, <3>2
    <3> QED
      BY <2>0, <2>1, <3>1, <3>2, <3>3 DEF UseCache, Ends
  <2>2. ASSUME WriteCache(q) PROVE offer'[p] = cache'.version
    <3>1. p = q
      BY <1>2, <2>0, <2>2 DEF WriteCache, Ends
    <3>2. cache' = answer[q] /\ answer[q] \in Releases
      BY <1>2, <2>2 DEF WriteCache, UpdateInv, Honest
    <3>3. UpdateAvailable(answer[q])
      BY <1>1, <1>2, <3>2
    <3> QED
      BY <2>0, <2>2, <3>1, <3>2, <3>3 DEF WriteCache, Ends
  <2>3. ~Refuses(q)
    BY <1>2 DEF Refuses
  <2>4. ~ \E force \in BOOLEAN : Ask(q, force)
    BY <1>2, <2>0 DEF Ask
  <2>5. ~FeedAnswers(q) /\ ~Stamp(q)
    BY <1>2, <2>0 DEF FeedAnswers, Stamp
  <2>6. ~FeedFails(q)
    BY <1>2, <2>0 DEF FeedFails, EndsSilently
  <2>7. ~WriteFails(q)
    BY <1>2, <2>0 DEF WriteFails, EndsSilently
  <2>8. ~Upgrade(q) /\ ~Forget(q)
    BY <1>2, <2>0 DEF Upgrade, Forget
  <2> QED
    BY <1>2, <2>1, <2>2, <2>3, <2>4, <2>5, <2>6, <2>7, <2>8 DEF Process
<1>3. ASSUME NEW p \in Checkers, Told(p)
      PROVE  /\ ~(Tick \/ SetBack \/ \E v \in names : Release(v))
             /\ ~UNCHANGED updateVars
  BY <1>3 DEF Tick, SetBack, Release, updateVars
<1>4. UpdateInv /\ [UpdateNext]_updateVars
        => \A p \in Checkers : Told(p) => offer'[p] = cache'.version
  BY <1>2, <1>3 DEF UpdateNext
<1>5. UpdateInv /\ [UpdateNext]_updateVars
        => [\A p \in Checkers : Told(p) => offer'[p] = cache'.version]_updateVars
  BY <1>4
<1> QED
  BY <1>5, UpdateInvariant, PTL DEF UpdateSpec, NewerIsOffered
==============================================================================
