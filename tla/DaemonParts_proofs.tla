-------------------------- MODULE DaemonParts_proofs --------------------------
(***************************************************************************)
(* Three parts of the daemon: the limit of the SSH listener and what Close *)
(* achieves, what an execution captures and redacts, and the journal of    *)
(* AuditJournal_proofs; each alone, and where they stand side by side.     *)
(***************************************************************************)
EXTENDS MCDaemonParts, AuditJournal_proofs, FiniteSetTheorems,
        WellFoundedInduction

-----------------------------------------------------------------------------
\* An execution: what was written so far decides what was captured.
LEMMA CutOfSum ==
  ASSUME NEW a \in Nat, NEW b \in Nat, NEW M \in Nat
  PROVE  Smaller(a + b, M) = Smaller(a, M) + Smaller(b, M - Smaller(a, M))
<1>1. CASE a < M
  BY <1>1 DEF Smaller
<1>2. CASE ~(a < M)
  BY <1>2 DEF Smaller
<1> QED
  BY <1>1, <1>2

LEMMA CutOfAppend ==
  ASSUME NEW w \in Seq(Symbols), NEW c \in Seq(Symbols), NEW M \in Nat
  PROVE  SubSeq(w \o c, 1, Smaller(Len(w \o c), M)) =
           SubSeq(w, 1, Smaller(Len(w), M))
             \o SubSeq(c, 1, Smaller(Len(c), M - Smaller(Len(w), M)))
<1> DEFINE m == Smaller(Len(w), M)
           k == Smaller(Len(c), M - m)
           n == Smaller(Len(w \o c), M)
<1>1. /\ Len(w) \in Nat /\ Len(c) \in Nat
      /\ w \o c \in Seq(Symbols) /\ Len(w \o c) = Len(w) + Len(c)
  OBVIOUS
<1>2. m \in 0..Len(w) /\ k \in 0..Len(c) /\ n = m + k /\ n \in 0..Len(w \o c)
  <2>1. n = Smaller(Len(w) + Len(c), M)
    BY <1>1
  <2>2. m \in 0..Len(w) /\ m <= M
    BY <1>1 DEF Smaller
  <2>3. k \in 0..Len(c)
    BY <1>1, <2>2 DEF Smaller
  <2>4. Smaller(Len(w) + Len(c), M) = m + k
    BY <1>1, CutOfSum
  <2> QED
    BY <1>1, <2>1, <2>2, <2>3, <2>4
<1>3. k # 0 => m = Len(w)
  BY <1>1 DEF Smaller
<1> HIDE DEF m, k, n
<1>4. /\ SubSeq(w, 1, m) \in Seq(Symbols) /\ Len(SubSeq(w, 1, m)) = m
      /\ \A i \in 1..m : SubSeq(w, 1, m)[i] = w[i]
  BY <1>1, <1>2
<1>5. /\ SubSeq(c, 1, k) \in Seq(Symbols) /\ Len(SubSeq(c, 1, k)) = k
      /\ \A i \in 1..k : SubSeq(c, 1, k)[i] = c[i]
  BY <1>1, <1>2
<1>6. /\ SubSeq(w \o c, 1, n) \in Seq(Symbols) /\ Len(SubSeq(w \o c, 1, n)) = n
      /\ \A i \in 1..n : SubSeq(w \o c, 1, n)[i] = (w \o c)[i]
  BY <1>1, <1>2
<1> DEFINE l == SubSeq(w \o c, 1, n)
           a == SubSeq(w, 1, m)
           b == SubSeq(c, 1, k)
           r == a \o b
<1>7. /\ r \in Seq(Symbols) /\ Len(r) = n
      /\ \A i \in 1..n : r[i] = IF i <= m THEN a[i] ELSE b[i - m]
  <2> HIDE DEF a, b
  <2> QED
    BY <1>2, <1>4, <1>5 DEF a, b
<1>8. ASSUME NEW i \in 1..n PROVE l[i] = r[i]
  <2>0. r[i] = IF i <= m THEN a[i] ELSE b[i - m]
    BY <1>7
  <2>1. CASE i <= m
    <3>1. r[i] = w[i]
      <4>1. i \in 1..m
        BY <1>2, <2>1
      <4> QED
        BY <1>4, <2>0, <2>1, <4>1, Zenon
    <3>2. (w \o c)[i] = w[i]
      BY <1>1, <1>2, <2>1
    <3> QED
      BY <1>6, <3>1, <3>2
  <2>2. CASE i > m
    <3>1. k # 0 /\ m = Len(w) /\ i - m \in 1..k
      BY <1>2, <1>3, <2>2
    <3>2. r[i] = c[i - m]
      <4>1. b[i - m] = c[i - m]
        BY <1>5, <3>1
      <4>2. ~(i <= m)
        BY <1>2, <2>2
      <4> QED
        BY <2>0, <4>1, <4>2, Zenon
    <3>3. (w \o c)[i] = c[i - m]
      BY <1>1, <1>2, <2>2, <3>1
    <3> QED
      BY <1>6, <3>2, <3>3
  <2> QED
    BY <1>2, <2>1, <2>2
<1>9. l = r
  BY <1>6, <1>7, <1>8, SeqEqual
<1> QED
  BY <1>9 DEF m, k, n

-----------------------------------------------------------------------------
\* Redaction.  ReplaceAll and Redact are defined by recursion; what they return
\* is shown by the least place where it would not hold (LeastNatural).
LEMMA LeastNatural ==
  ASSUME NEW S \in SUBSET Nat, S # {}
  PROVE  \E n \in S : \A m \in S : n <= m
<1> DEFINE R == OpToRel(<, Nat)
<1>1. IsWellFoundedOn(R, Nat)
  BY NatLessThanWellFounded
<1>2. \A m, n \in Nat : <<m, n>> \in R <=> m < n
  BY DEF OpToRel
<1> HIDE DEF R
<1>3. PICK n \in S : \A m \in S : <<m, n>> \notin R
  BY <1>1, WFMin
<1>4. n \in Nat /\ \A m \in S : m \in Nat
  OBVIOUS
<1>5. \A m \in S : ~(m < n)
  BY <1>2, <1>3, <1>4, Zenon
<1> QED
  BY <1>4, <1>5

Texts == Seq(Symbols \cup {Redacted, Truncated})
Values == Seq(Symbols) \ {<<>>}

Matches(text, value, i) ==
  /\ i + Len(value) <= Len(text) + 1
  /\ SubSeq(text, i, i + Len(value) - 1) = value

\* The body of ReplaceAll's recursion, from place i on.
From(text, value, f, i) ==
  IF i > Len(text) THEN <<>>
  ELSE IF Matches(text, value, i)
       THEN <<Redacted>> \o f[i + Len(value)]
       ELSE <<text[i]>> \o f[i + 1]

\* The body of Redact's.
Done(text, f, n) ==
  IF n = 0 THEN text ELSE ReplaceAll(f[n - 1], ValuesToRedact[n])

\* The values in their places: places of a sequence that have no note are a
\* piece of the text, and no value starts where the piece does.
Original(s, k, m) == \A q \in k..m : s[q] # Redacted

Copied(text, value, s, k, m, j) ==
  /\ j + (m - k) <= Len(text)
  /\ ~Matches(text, value, j)
  /\ \A q \in 0..(m - k) : s[k + q] = text[j + q]

Pieces(text, value, s, i) ==
  /\ s \in Texts
  /\ \A m \in 1..Len(s) : Original(s, 1, m) => Copied(text, value, s, 1, m, i)
  /\ \A k, m \in 1..Len(s) :
       k <= m /\ Original(s, k, m) =>
         \E j \in 1..Len(text) : Copied(text, value, s, k, m, j)

LEMMA ConsProperties ==
  ASSUME NEW S, NEW a \in S, NEW s \in Seq(S)
  PROVE  /\ <<a>> \o s \in Seq(S)
         /\ Len(s) \in Nat /\ Len(<<a>> \o s) = Len(s) + 1
         /\ (<<a>> \o s)[1] = a
         /\ \A q \in 2..(Len(s) + 1) : (<<a>> \o s)[q] = s[q - 1]
<1> DEFINE t == <<a>>
<1>1. t \in Seq(S) /\ Len(t) = 1 /\ t[1] = a
  OBVIOUS
<1> HIDE DEF t
<1> QED
  BY <1>1 DEF t

\* Behind a note the pieces stay what they are.
LEMMA PiecesAfterNote ==
  ASSUME NEW text \in Texts, NEW value \in Values, NEW s, NEW i \in 1..Len(text),
         NEW i2 \in Nat, Pieces(text, value, s, i2)
  PROVE  Pieces(text, value, <<Redacted>> \o s, i)
<1> DEFINE t == <<Redacted>> \o s
<1>1. s \in Texts
  BY DEF Pieces
<1>2. /\ t \in Texts /\ Len(s) \in Nat /\ Len(t) = Len(s) + 1
      /\ t[1] = Redacted /\ \A q \in 2..(Len(s) + 1) : t[q] = s[q - 1]
  BY <1>1, ConsProperties DEF Texts
<1> HIDE DEF t
<1>3. \A m \in 1..Len(t) : ~Original(t, 1, m)
  BY <1>2 DEF Original
<1>4. ASSUME NEW k \in 1..Len(t), NEW m \in 1..Len(t), k <= m, Original(t, k, m)
      PROVE  \E j \in 1..Len(text) : Copied(text, value, t, k, m, j)
  <2>1. k # 1
    BY <1>3, <1>4
  <2>2. k - 1 \in 1..Len(s) /\ m - 1 \in 1..Len(s) /\ k - 1 <= m - 1
    BY <1>2, <1>4, <2>1
  <2>3. Original(s, k - 1, m - 1)
    <3> SUFFICES ASSUME NEW q \in (k - 1)..(m - 1) PROVE s[q] # Redacted
      BY DEF Original
    <3>1. q + 1 \in k..m /\ q + 1 \in 2..(Len(s) + 1)
      BY <1>2, <2>2
    <3>2. t[q + 1] = s[q]
      BY <1>2, <3>1
    <3> QED
      BY <1>4, <3>1, <3>2 DEF Original
  <2>4. PICK j \in 1..Len(text) : Copied(text, value, s, k - 1, m - 1, j)
    BY <2>2, <2>3 DEF Pieces
  <2>5. Copied(text, value, t, k, m, j)
    <3>1. (m - 1) - (k - 1) = m - k
      BY <1>4
    <3>2. ASSUME NEW q \in 0..(m - k) PROVE t[k + q] = text[j + q]
      <4>1. k + q \in 2..(Len(s) + 1) /\ k + q - 1 = (k - 1) + q
        <5>1. /\ k \in Nat /\ m \in Nat /\ Len(s) \in Nat /\ q \in Nat
              /\ k >= 2 /\ q <= m - k /\ m <= Len(s) + 1
          BY <1>2, <2>2
        <5> QED
          BY <5>1
      <4>2. t[k + q] = s[(k - 1) + q]
        BY <1>2, <4>1
      <4> QED
        BY <2>4, <3>1, <4>2 DEF Copied
    <3> QED
      BY <2>4, <3>1, <3>2 DEF Copied
  <2> QED
    BY <2>5
<1> QED
  BY <1>2, <1>3, <1>4 DEF Pieces, t

\* A symbol that is kept is kept in its place.
LEMMA PiecesAfterSymbol ==
  ASSUME NEW text \in Texts, NEW value \in Values, NEW s, NEW i \in 1..Len(text),
         ~Matches(text, value, i), Pieces(text, value, s, i + 1)
  PROVE  Pieces(text, value, <<text[i]>> \o s, i)
<1> DEFINE t == <<text[i]>> \o s
<1>1. /\ s \in Texts /\ Len(text) \in Nat
      /\ text[i] \in Symbols \cup {Redacted, Truncated}
  BY DEF Pieces, Texts
<1>2. /\ t \in Texts /\ Len(s) \in Nat /\ Len(t) = Len(s) + 1
      /\ t[1] = text[i] /\ \A q \in 2..(Len(s) + 1) : t[q] = s[q - 1]
  BY <1>1, ConsProperties DEF Texts
<1> HIDE DEF t
<1>3. ASSUME NEW k \in 2..Len(t), NEW m \in k..Len(t), Original(t, k, m)
      PROVE  /\ k - 1 \in 1..Len(s) /\ m - 1 \in 1..Len(s) /\ k - 1 <= m - 1
             /\ Original(s, k - 1, m - 1)
             /\ \A j \in Nat : Copied(text, value, s, k - 1, m - 1, j) =>
                  Copied(text, value, t, k, m, j)
  <2>1. k - 1 \in 1..Len(s) /\ m - 1 \in 1..Len(s) /\ k - 1 <= m - 1
    BY <1>2
  <2>2. Original(s, k - 1, m - 1)
    <3> SUFFICES ASSUME NEW q \in (k - 1)..(m - 1) PROVE s[q] # Redacted
      BY DEF Original
    <3>1. q + 1 \in k..m /\ q + 1 \in 2..(Len(s) + 1)
      BY <1>2, <2>1
    <3>2. t[q + 1] = s[q]
      BY <1>2, <3>1
    <3> QED
      BY <1>3, <3>1, <3>2 DEF Original
  <2>3. ASSUME NEW j \in Nat, Copied(text, value, s, k - 1, m - 1, j)
        PROVE  Copied(text, value, t, k, m, j)
    <3>1. (m - 1) - (k - 1) = m - k
      OBVIOUS
    <3>2. ASSUME NEW q \in 0..(m - k) PROVE t[k + q] = text[j + q]
      <4>0. /\ Len(s) \in Nat /\ Len(t) = Len(s) + 1
            /\ k \in Nat /\ m \in Nat /\ q \in Nat
            /\ 2 <= k /\ k <= m /\ m <= Len(t) /\ q <= m - k
        BY <1>2
      <4>1. k + q \in 2..(Len(s) + 1) /\ k + q - 1 = (k - 1) + q
        BY <4>0
      <4>2. t[k + q] = s[(k - 1) + q]
        BY <1>2, <4>1
      <4> QED
        BY <2>3, <3>1, <4>2 DEF Copied
    <3> QED
      BY <2>3, <3>1, <3>2 DEF Copied
  <2> QED
    BY <2>1, <2>2, <2>3
<1>4. ASSUME NEW m \in 1..Len(t), Original(t, 1, m)
      PROVE  Copied(text, value, t, 1, m, i)
  <2>1. CASE m = 1
    BY <1>1, <1>2, <2>1 DEF Copied
  <2>2. CASE m # 1
    <3>1. Original(t, 2, m) /\ 2 \in 2..Len(t) /\ m \in 2..Len(t)
      BY <1>2, <1>4, <2>2 DEF Original
    <3>2. m - 1 \in 1..Len(s) /\ Original(s, 1, m - 1)
      BY <1>3, <3>1
    <3>3. Copied(text, value, s, 1, m - 1, i + 1)
      BY <3>2 DEF Pieces
    <3>4. (i + 1) + ((m - 1) - 1) = i + (m - 1)
      OBVIOUS
    <3>5. ASSUME NEW q \in 0..(m - 1) PROVE t[1 + q] = text[i + q]
      <4>1. CASE q = 0
        BY <1>2, <4>1
      <4>2. CASE q # 0
        <5>1. 1 + q \in 2..(Len(s) + 1) /\ q - 1 \in 0..((m - 1) - 1)
          BY <1>2, <3>2, <4>2
        <5>2. t[1 + q] = s[1 + (q - 1)]
          BY <1>2, <5>1
        <5>3. s[1 + (q - 1)] = text[(i + 1) + (q - 1)]
          BY <3>3, <5>1 DEF Copied
        <5> QED
          BY <5>2, <5>3
      <4> QED
        BY <4>1, <4>2
    <3> QED
      BY <3>3, <3>4, <3>5 DEF Copied
  <2> QED
    BY <2>1, <2>2
<1>5. ASSUME NEW k \in 1..Len(t), NEW m \in 1..Len(t), k <= m, Original(t, k, m)
      PROVE  \E j \in 1..Len(text) : Copied(text, value, t, k, m, j)
  <2>1. CASE k = 1
    BY <1>4, <1>5, <2>1
  <2>2. CASE k # 1
    <3>1. k \in 2..Len(t) /\ m \in k..Len(t)
      BY <1>5, <2>2
    <3>2. PICK j \in 1..Len(text) : Copied(text, value, s, k - 1, m - 1, j)
      BY <1>3, <1>5, <3>1 DEF Pieces
    <3> QED
      BY <1>3, <1>5, <3>1, <3>2
  <2> QED
    BY <2>1, <2>2
<1> QED
  BY <1>2, <1>4, <1>5 DEF Pieces, t

LEMMA FromExists ==
  ASSUME NEW text \in Texts, NEW value \in Values
  PROVE  \E f : f = [i \in 1..(Len(text) + 1) |-> From(text, value, f, i)]
<1> DEFINE L == Len(text)
           Defined(n) == \E f : f = [i \in (L + 1 - n)..(L + 1) |-> From(text, value, f, i)]
           Failing == {n \in 0..L : ~Defined(n)}
<1>1. L \in Nat /\ Len(value) \in Nat \ {0}
  BY DEF Texts, Values
<1>2. Defined(0)
  <2> DEFINE f == [i \in (L + 1)..(L + 1) |-> <<>>]
  <2>1. f = [i \in (L + 1 - 0)..(L + 1) |-> From(text, value, f, i)]
    BY <1>1 DEF From
  <2> QED
    BY <2>1
<1>3. ASSUME NEW n \in 1..L, Defined(n - 1)
      PROVE  Defined(n)
  <2> DEFINE a == L + 1 - n
  <2>1. a \in Nat /\ a + 1 = L + 1 - (n - 1) /\ a <= L
    BY <1>1
  <2>2. PICK f : f = [i \in (a + 1)..(L + 1) |-> From(text, value, f, i)]
    BY <1>3, <2>1
  <2> HIDE DEF a
  <2> DEFINE g == [i \in a..(L + 1) |-> IF i = a THEN From(text, value, f, a) ELSE f[i]]
  <2>3. \A i \in (a + 1)..(L + 1) : g[i] = f[i]
    BY <2>1
  <2>4. ASSUME NEW i \in a..(L + 1)
        PROVE  From(text, value, g, i) = From(text, value, f, i)
    <3>1. ~(i > L) => g[i + 1] = f[i + 1]
      BY <1>1, <2>1, <2>3
    <3>2. Matches(text, value, i) => g[i + Len(value)] = f[i + Len(value)]
      BY <1>1, <2>1, <2>3 DEF Matches
    <3> HIDE DEF g
    <3> QED
      BY <3>1, <3>2 DEF From
  <2>5. ASSUME NEW i \in a..(L + 1)
        PROVE  g[i] = From(text, value, g, i)
    <3>1. CASE i = a
      BY <2>4, <3>1
    <3>2. CASE i # a
      <4>1. i \in (a + 1)..(L + 1)
        BY <1>1, <2>1, <3>2
      <4>2. f[i] = From(text, value, f, i)
        BY <2>2, <4>1
      <4> QED
        BY <2>3, <2>4, <4>1, <4>2
    <3> QED
      BY <3>1, <3>2
  <2>6. g = [i \in a..(L + 1) |-> From(text, value, g, i)]
    BY <2>5
  <2> QED
    BY <2>6 DEF a
<1>4. Failing = {}
  <2> SUFFICES ASSUME Failing # {} PROVE FALSE
    OBVIOUS
  <2>1. Failing \in SUBSET Nat
    BY <1>1
  <2>2. PICK n \in Failing : \A m \in Failing : n <= m
    <3> HIDE DEF Failing
    <3> QED
      BY <2>1, LeastNatural
  <2>3. n \in 0..L /\ ~Defined(n)
    OBVIOUS
  <2> HIDE DEF Defined
  <2>4. n \in 1..L
    BY <1>1, <1>2, <2>3
  <2>5. n - 1 \in 0..L /\ n - 1 \notin Failing
    BY <1>1, <2>2, <2>4
  <2>6. Defined(n - 1)
    BY <2>5
  <2> QED
    BY <1>3, <2>3, <2>4, <2>6
<1>5. Defined(L)
  BY <1>1, <1>4
<1>6. L + 1 - L = 1
  BY <1>1
<1> QED
  BY <1>5, <1>6

\* What ReplaceAll returns is made of pieces of the text and of notes.
LEMMA ReplaceAllPieces ==
  ASSUME NEW text \in Texts, NEW value \in Values
  PROVE  \E i \in Nat : Pieces(text, value, ReplaceAll(text, value), i)
<1> DEFINE L == Len(text)
           h == CHOOSE f : f = [i \in 1..(L + 1) |-> From(text, value, f, i)]
<1>1. L \in Nat /\ Len(value) \in Nat \ {0}
  BY DEF Texts, Values
<1>2. h = [i \in 1..(L + 1) |-> From(text, value, h, i)]
  BY FromExists
<1>3. ReplaceAll(text, value) = h[1]
  BY DEF ReplaceAll, From, Matches
<1> HIDE DEF h
<1> DEFINE Failing == {n \in 0..L : ~Pieces(text, value, h[L + 1 - n], L + 1 - n)}
<1>4. Failing = {}
  <2> SUFFICES ASSUME Failing # {} PROVE FALSE
    OBVIOUS
  <2>1. Failing \in SUBSET Nat
    BY <1>1
  <2>2. PICK n \in Failing : \A m \in Failing : n <= m
    <3> HIDE DEF Failing
    <3> QED
      BY <2>1, LeastNatural
  <2> DEFINE i == L + 1 - n
  <2>3. n \in 0..L /\ ~Pieces(text, value, h[i], i) /\ i \in 1..(L + 1)
    BY <1>1
  <2>4. h[i] = From(text, value, h, i)
    BY <1>2, <2>3
  <2>5. \A j \in (i + 1)..(L + 1) : Pieces(text, value, h[j], j)
    <3> TAKE j \in (i + 1)..(L + 1)
    <3>1. L + 1 - j \in 0..L /\ L + 1 - j < n /\ L + 1 - (L + 1 - j) = j
      BY <1>1, <2>3
    <3>2. L + 1 - j \notin Failing
      BY <1>1, <2>2, <3>1
    <3> QED
      BY <3>1, <3>2
  <2> HIDE DEF i, Failing
  <2>6. CASE i > L
    <3>1. h[i] = <<>>
      BY <2>4, <2>6 DEF From
    <3>2. <<>> \in Texts /\ Len(<<>>) = 0
      BY DEF Texts
    <3> QED
      BY <2>3, <3>1, <3>2 DEF Pieces
  <2>7. CASE ~(i > L) /\ Matches(text, value, i)
    <3>1. h[i] = <<Redacted>> \o h[i + Len(value)]
      BY <2>4, <2>7 DEF From
    <3>2. i + Len(value) \in (i + 1)..(L + 1) /\ i \in 1..L
      BY <1>1, <2>3, <2>7 DEF Matches
    <3> QED
      BY <2>3, <2>5, <3>1, <3>2, PiecesAfterNote
  <2>8. CASE ~(i > L) /\ ~Matches(text, value, i)
    <3>1. h[i] = <<text[i]>> \o h[i + 1]
      BY <2>4, <2>8 DEF From
    <3>2. i + 1 \in (i + 1)..(L + 1) /\ i \in 1..L
      BY <1>1, <2>3, <2>8
    <3> QED
      BY <2>3, <2>5, <2>8, <3>1, <3>2, PiecesAfterSymbol
  <2> QED
    BY <2>6, <2>7, <2>8
<1>5. L \notin Failing
  BY <1>4
<1> QED
  BY <1>1, <1>3, <1>5

LEMMA FoundAt ==
  ASSUME NEW s \in Texts, NEW u \in Values,
         NEW k \in 1..Len(s), k + Len(u) - 1 <= Len(s)
  PROVE  SubSeq(s, k, k + Len(u) - 1) = u <=>
           \A q \in 1..Len(u) : s[k + q - 1] = u[q]
<1> DEFINE t == SubSeq(s, k, k + Len(u) - 1)
<1>1. Len(s) \in Nat /\ Len(u) \in Nat \ {0} /\ u \in Texts
  BY DEF Texts, Values
<1>2. /\ t \in Texts /\ Len(t) = Len(u)
      /\ \A q \in 1..Len(u) : t[q] = s[k + q - 1]
  BY <1>1 DEF Texts
<1> HIDE DEF t
<1>3. (\A q \in 1..Len(u) : t[q] = u[q]) => t = u
  BY <1>1, <1>2, SeqEqual DEF Texts
<1> QED
  BY <1>2, <1>3 DEF t

\* strings.ReplaceAll: the value is gone, and nothing that was not there came.
LEMMA ReplaceAllRedacts ==
  ASSUME NEW text \in Texts, NEW value \in Values
  PROVE  /\ ReplaceAll(text, value) \in Texts
         /\ ~Within(value, ReplaceAll(text, value))
         /\ \A u \in Values : Within(u, ReplaceAll(text, value)) => Within(u, text)
<1> DEFINE r == ReplaceAll(text, value)
<1>1. PICK i \in Nat : Pieces(text, value, r, i)
  BY ReplaceAllPieces
<1> HIDE DEF r
<1>2. r \in Texts /\ Len(r) \in Nat /\ Len(text) \in Nat
  BY <1>1 DEF Pieces, Texts
<1>3. ASSUME NEW u \in Values, Within(u, r)
      PROVE  Within(u, text) /\ u # value
  <2>1. Len(u) \in Nat \ {0} /\ \A q \in 1..Len(u) : u[q] # Redacted
    BY OutputAssumption DEF Values
  <2>2. PICK k \in 1..Len(r) : /\ k + Len(u) - 1 <= Len(r)
                               /\ \A q \in 1..Len(u) : r[k + q - 1] = u[q]
    BY <1>2, <1>3, FoundAt DEF Within
  <2> DEFINE m == k + Len(u) - 1
  <2>3. m \in 1..Len(r) /\ k <= m /\ m - k = Len(u) - 1
    BY <1>2, <2>1, <2>2
  <2>4. Original(r, k, m)
    <3> SUFFICES ASSUME NEW q \in k..m PROVE r[q] # Redacted
      BY DEF Original
    <3>1. q - k + 1 \in 1..Len(u) /\ k + (q - k + 1) - 1 = q
      BY <2>1, <2>3
    <3> QED
      BY <2>1, <2>2, <3>1
  <2> HIDE DEF m
  <2>5. PICK j \in 1..Len(text) : Copied(text, value, r, k, m, j)
    BY <1>1, <2>3, <2>4 DEF Pieces
  <2>6. j + Len(u) - 1 <= Len(text) /\ ~Matches(text, value, j)
    BY <1>2, <2>1, <2>3, <2>5 DEF Copied
  <2>7. ASSUME NEW q \in 1..Len(u) PROVE text[j + q - 1] = u[q]
    <3>1. q - 1 \in 0..(m - k) /\ k + (q - 1) = k + q - 1 /\ j + (q - 1) = j + q - 1
      BY <2>1, <2>3
    <3> QED
      BY <2>2, <2>5, <3>1 DEF Copied
  <2>8. SubSeq(text, j, j + Len(u) - 1) = u
    BY <2>6, <2>7, FoundAt
  <2>9. Within(u, text)
    BY <2>6, <2>8 DEF Within
  <2>10. u # value
    BY <1>2, <2>1, <2>6, <2>8 DEF Matches
  <2> QED
    BY <2>9, <2>10
<1> QED
  BY <1>2, <1>3 DEF r

\* A scan that finds nothing copies symbol by symbol what is left of the text.
Rest(text, s, i) ==
  /\ s \in Texts /\ Len(s) = Len(text) + 1 - i
  /\ \A q \in 1..Len(s) : s[q] = text[i + q - 1]

LEMMA ReplaceAllSpares ==
  ASSUME NEW text \in Texts, NEW value \in Values, ~Within(value, text)
  PROVE  ReplaceAll(text, value) = text
<1> DEFINE L == Len(text)
           h == CHOOSE f : f = [i \in 1..(L + 1) |-> From(text, value, f, i)]
<1>1. L \in Nat /\ Len(value) \in Nat \ {0}
  BY DEF Texts, Values
<1>2. h = [i \in 1..(L + 1) |-> From(text, value, h, i)]
  BY FromExists
<1>3. ReplaceAll(text, value) = h[1]
  BY DEF ReplaceAll, From, Matches
<1> HIDE DEF h
<1>4. \A i \in 1..L : ~Matches(text, value, i)
  BY <1>1 DEF Matches, Within
<1> DEFINE Failing == {n \in 0..L : ~Rest(text, h[L + 1 - n], L + 1 - n)}
<1>5. Failing = {}
  <2> SUFFICES ASSUME Failing # {} PROVE FALSE
    OBVIOUS
  <2>1. Failing \in SUBSET Nat
    BY <1>1
  <2>2. PICK n \in Failing : \A m \in Failing : n <= m
    <3> HIDE DEF Failing
    <3> QED
      BY <2>1, LeastNatural
  <2> DEFINE i == L + 1 - n
  <2>3. n \in 0..L /\ ~Rest(text, h[i], i) /\ i \in 1..(L + 1)
    BY <1>1
  <2>4. h[i] = From(text, value, h, i)
    BY <1>2, <2>3
  <2>5. i \in 1..L => Rest(text, h[i + 1], i + 1)
    <3> SUFFICES ASSUME i \in 1..L PROVE Rest(text, h[i + 1], i + 1)
      OBVIOUS
    <3>1. n - 1 \in 0..L /\ n - 1 < n /\ L + 1 - (n - 1) = i + 1
      BY <1>1, <2>3
    <3>2. n - 1 \notin Failing
      BY <1>1, <2>2, <3>1
    <3> QED
      BY <3>1, <3>2
  <2> HIDE DEF i, Failing
  <2>6. CASE i > L
    <3>1. h[i] = <<>> /\ i = L + 1
      BY <1>1, <2>3, <2>4, <2>6 DEF From
    <3>2. <<>> \in Texts /\ Len(<<>>) = 0
      BY DEF Texts
    <3> QED
      BY <1>1, <2>3, <3>1, <3>2 DEF Rest
  <2>7. CASE ~(i > L)
    <3> DEFINE s == h[i + 1]
    <3>1. i \in 1..L /\ Rest(text, s, i + 1)
      BY <1>1, <2>3, <2>5, <2>7
    <3>2. h[i] = <<text[i]>> \o s
      BY <1>4, <2>4, <2>7, <3>1 DEF From
    <3> HIDE DEF s
    <3>3. s \in Texts /\ text[i] \in Symbols \cup {Redacted, Truncated}
      BY <3>1 DEF Rest, Texts
    <3>4. /\ h[i] \in Texts /\ Len(s) \in Nat /\ Len(h[i]) = Len(s) + 1
          /\ h[i][1] = text[i] /\ \A q \in 2..(Len(s) + 1) : h[i][q] = s[q - 1]
      BY <3>2, <3>3, ConsProperties DEF Texts
    <3>5. Len(h[i]) = L + 1 - i
      BY <1>1, <3>1, <3>4 DEF Rest
    <3>6. ASSUME NEW q \in 1..Len(h[i]) PROVE h[i][q] = text[i + q - 1]
      <4>1. CASE q = 1
        BY <3>1, <3>4, <4>1
      <4>2. CASE q # 1
        <5>1. q \in 2..(Len(s) + 1) /\ q - 1 \in 1..Len(s) /\ (i + 1) + (q - 1) - 1 = i + q - 1
          BY <3>1, <3>4, <4>2
        <5> QED
          BY <3>1, <3>4, <5>1 DEF Rest
      <4> QED
        BY <4>1, <4>2
    <3> QED
      BY <2>3, <3>4, <3>5, <3>6 DEF Rest
  <2> QED
    BY <2>6, <2>7
<1>6. Rest(text, h[1], 1)
  <2>1. L \notin Failing /\ L \in 0..L /\ L + 1 - L = 1
    BY <1>1, <1>5
  <2> QED
    BY <2>1
<1>7. h[1] = text
  <2>1. Len(h[1]) = Len(text) /\ \A q \in 1..Len(h[1]) : h[1][q] = text[q]
    BY <1>1, <1>6 DEF Rest
  <2> QED
    BY <1>6, <2>1, SeqEqual DEF Rest, Texts
<1> QED
  BY <1>3, <1>7

\* redact: one sensitive value after the other.
LEMMA ValuesMean ==
  /\ Len(ValuesToRedact) \in Nat
  /\ DOMAIN ValuesToRedact = 1..Len(ValuesToRedact)
  /\ \A n \in 1..Len(ValuesToRedact) : ValuesToRedact[n] \in Values
<1>1. ValuesToRedact \in Seq(Values)
  <2>1. SecretValue \in Values
    BY OutputAssumption DEF Values
  <2>2. CASE URIPassword = NoPassword
    BY <2>1, <2>2 DEF ValuesToRedact
  <2>3. CASE URIPassword # NoPassword
    <3>1. URIPassword \in Values /\ Unescaped \in Values
      BY <2>3, OutputAssumption DEF Values
    <3> QED
      BY <2>1, <2>3, <3>1 DEF ValuesToRedact
  <2> QED
    BY <2>2, <2>3
<1> QED
  BY <1>1

\* Every sensitive value is one of them.
LEMMA SensitiveAreRedacted ==
  \A value \in Sensitive :
    \E n \in DOMAIN ValuesToRedact : value = ValuesToRedact[n]
<1>1. CASE URIPassword = NoPassword
  <2>1. ValuesToRedact = <<SecretValue>> /\ Sensitive = {SecretValue}
    BY <1>1 DEF ValuesToRedact, Sensitive
  <2>2. 1 \in DOMAIN ValuesToRedact /\ ValuesToRedact[1] = SecretValue
    BY <2>1
  <2> QED
    BY <2>1, <2>2
<1>2. CASE URIPassword # NoPassword /\ Unescaped = URIPassword
  <2>1. /\ ValuesToRedact = <<SecretValue, URIPassword>>
        /\ Sensitive = {SecretValue, URIPassword}
    BY <1>2 DEF ValuesToRedact, Sensitive
  <2>2. /\ 1 \in DOMAIN ValuesToRedact /\ ValuesToRedact[1] = SecretValue
        /\ 2 \in DOMAIN ValuesToRedact /\ ValuesToRedact[2] = URIPassword
    BY <2>1
  <2> QED
    BY <2>1, <2>2
<1>3. CASE URIPassword # NoPassword /\ Unescaped # URIPassword
  <2>1. /\ ValuesToRedact = <<SecretValue, URIPassword, Unescaped>>
        /\ Sensitive = {SecretValue, URIPassword, Unescaped}
    BY <1>3 DEF ValuesToRedact, Sensitive
  <2>2. /\ 1 \in DOMAIN ValuesToRedact /\ ValuesToRedact[1] = SecretValue
        /\ 2 \in DOMAIN ValuesToRedact /\ ValuesToRedact[2] = URIPassword
        /\ 3 \in DOMAIN ValuesToRedact /\ ValuesToRedact[3] = Unescaped
    BY <2>1
  <2> QED
    BY <2>1, <2>2
<1> QED
  BY <1>1, <1>2, <1>3

LEMMA DoneExists ==
  ASSUME NEW text
  PROVE  \E f : f = [n \in 0..Len(ValuesToRedact) |-> Done(text, f, n)]
<1> DEFINE N == Len(ValuesToRedact)
           Defined(k) == \E f : f = [n \in 0..k |-> Done(text, f, n)]
           Failing == {k \in 0..N : ~Defined(k)}
<1>1. N \in Nat
  BY ValuesMean
<1>2. Defined(0)
  <2> DEFINE f == [n \in 0..0 |-> text]
  <2>1. f = [n \in 0..0 |-> Done(text, f, n)]
    BY DEF Done
  <2> QED
    BY <2>1
<1>3. ASSUME NEW k \in 1..N, Defined(k - 1)
      PROVE  Defined(k)
  <2>1. PICK f : f = [n \in 0..(k - 1) |-> Done(text, f, n)]
    BY <1>3
  <2> DEFINE g == [n \in 0..k |-> IF n = k THEN Done(text, f, k) ELSE f[n]]
  <2>2. \A n \in 0..(k - 1) : g[n] = f[n]
    BY <1>1
  <2>3. ASSUME NEW n \in 0..k
        PROVE  Done(text, g, n) = Done(text, f, n)
    <3>1. n # 0 => g[n - 1] = f[n - 1]
      BY <1>1, <2>2
    <3> HIDE DEF g
    <3> QED
      BY <3>1 DEF Done
  <2>4. ASSUME NEW n \in 0..k
        PROVE  g[n] = Done(text, g, n)
    <3>1. CASE n = k
      BY <2>3, <3>1
    <3>2. CASE n # k
      <4>1. n \in 0..(k - 1)
        BY <1>1, <3>2
      <4>2. f[n] = Done(text, f, n)
        BY <2>1, <4>1
      <4> QED
        BY <2>2, <2>3, <4>1, <4>2
    <3> QED
      BY <3>1, <3>2
  <2>5. g = [n \in 0..k |-> Done(text, g, n)]
    BY <2>4
  <2> QED
    BY <2>5
<1>4. Failing = {}
  <2> SUFFICES ASSUME Failing # {} PROVE FALSE
    OBVIOUS
  <2>1. Failing \in SUBSET Nat
    BY <1>1
  <2>2. PICK k \in Failing : \A m \in Failing : k <= m
    <3> HIDE DEF Failing
    <3> QED
      BY <2>1, LeastNatural
  <2>3. k \in 0..N /\ ~Defined(k)
    OBVIOUS
  <2> HIDE DEF Defined
  <2>4. k \in 1..N
    BY <1>1, <1>2, <2>3
  <2>5. k - 1 \in 0..N /\ k - 1 \notin Failing
    BY <1>1, <2>2, <2>4
  <2>6. Defined(k - 1)
    BY <2>5
  <2> QED
    BY <1>3, <2>3, <2>4, <2>6
<1> QED
  BY <1>1, <1>4

\* What one value's turn took out, no later turn brings back.
LEMMA RedactLeavesNone ==
  ASSUME NEW text \in Texts
  PROVE  /\ Redact(text) \in Texts
         /\ \A n \in DOMAIN ValuesToRedact : ~Within(ValuesToRedact[n], Redact(text))
<1> DEFINE N == Len(ValuesToRedact)
           h == CHOOSE f : f = [n \in 0..N |-> Done(text, f, n)]
           Clean(n) == /\ h[n] \in Texts
                       /\ \A m \in 1..n : ~Within(ValuesToRedact[m], h[n])
           Failing == {n \in 0..N : ~Clean(n)}
<1>1. N \in Nat
  BY ValuesMean
<1>2. h = [n \in 0..N |-> Done(text, h, n)]
  BY DoneExists
<1>3. Redact(text) = h[N]
  BY DEF Redact, Done
<1> HIDE DEF h
<1>4. \A n \in 0..N : h[n] = Done(text, h, n)
  BY <1>2
<1>5. Clean(0)
  BY <1>1, <1>4 DEF Done
<1>6. ASSUME NEW n \in 1..N, Clean(n - 1)
      PROVE  Clean(n)
  <2>1. h[n] = ReplaceAll(h[n - 1], ValuesToRedact[n])
    BY <1>1, <1>4 DEF Done
  <2>2. h[n - 1] \in Texts /\ ValuesToRedact[n] \in Values
    BY <1>6, ValuesMean
  <2>3. /\ h[n] \in Texts /\ ~Within(ValuesToRedact[n], h[n])
        /\ \A u \in Values : Within(u, h[n]) => Within(u, h[n - 1])
    BY <2>1, <2>2, ReplaceAllRedacts
  <2>4. ASSUME NEW m \in 1..n PROVE ~Within(ValuesToRedact[m], h[n])
    <3>1. CASE m = n
      BY <2>3, <3>1
    <3>2. CASE m # n
      <4>1. m \in 1..(n - 1) /\ m \in 1..N
        BY <1>1, <3>2
      <4>2. ValuesToRedact[m] \in Values /\ ~Within(ValuesToRedact[m], h[n - 1])
        BY <1>6, <4>1, ValuesMean
      <4> QED
        BY <2>3, <4>2
    <3> QED
      BY <3>1, <3>2
  <2> QED
    BY <2>3, <2>4
<1>7. Failing = {}
  <2> SUFFICES ASSUME Failing # {} PROVE FALSE
    OBVIOUS
  <2>1. Failing \in SUBSET Nat
    BY <1>1
  <2>2. PICK n \in Failing : \A m \in Failing : n <= m
    <3> HIDE DEF Failing
    <3> QED
      BY <2>1, LeastNatural
  <2>3. n \in 0..N /\ ~Clean(n)
    OBVIOUS
  <2> HIDE DEF Clean
  <2>4. n \in 1..N
    BY <1>1, <1>5, <2>3
  <2>5. n - 1 \in 0..N /\ n - 1 \notin Failing
    BY <1>1, <2>2, <2>4
  <2>6. Clean(n - 1)
    BY <2>5
  <2> QED
    BY <1>6, <2>3, <2>4, <2>6
<1>8. Clean(N)
  BY <1>1, <1>7
<1> QED
  BY <1>3, <1>8, ValuesMean

\* executor.go:169: a text in which no sensitive value is found comes back as it is:
\* redaction touches nothing else.
THEOREM RedactionSparesTheRest ==
  ASSUME NEW text \in Texts,
         \A n \in DOMAIN ValuesToRedact : ~Within(ValuesToRedact[n], text)
  PROVE  Redact(text) = text
<1> DEFINE N == Len(ValuesToRedact)
           h == CHOOSE f : f = [n \in 0..N |-> Done(text, f, n)]
           Failing == {n \in 0..N : h[n] # text}
<1>1. N \in Nat
  BY ValuesMean
<1>2. h = [n \in 0..N |-> Done(text, h, n)]
  BY DoneExists
<1>3. Redact(text) = h[N]
  BY DEF Redact, Done
<1> HIDE DEF h
<1>4. \A n \in 0..N : h[n] = Done(text, h, n)
  BY <1>2
<1>5. Failing = {}
  <2> SUFFICES ASSUME Failing # {} PROVE FALSE
    OBVIOUS
  <2>1. Failing \in SUBSET Nat
    BY <1>1
  <2>2. PICK n \in Failing : \A m \in Failing : n <= m
    <3> HIDE DEF Failing
    <3> QED
      BY <2>1, LeastNatural
  <2>3. n \in 0..N /\ h[n] # text
    OBVIOUS
  <2>4. n \in 1..N
    BY <1>1, <1>4, <2>3 DEF Done
  <2>5. n - 1 \in 0..N /\ n - 1 \notin Failing
    BY <1>1, <2>2, <2>4
  <2>6. h[n - 1] = text
    BY <2>5
  <2>7. h[n] = ReplaceAll(text, ValuesToRedact[n])
    BY <1>1, <1>4, <2>4, <2>6 DEF Done
  <2> QED
    BY <2>3, <2>4, <2>7, ReplaceAllSpares, ValuesMean
<1> QED
  BY <1>1, <1>3, <1>5

-----------------------------------------------------------------------------
OutputInv == OutputTypeOK /\ CapturesTheBeginning /\ NothingWholeLeaks

\* A value has symbols, so there is none in nothing.
LEMMA NothingInNothing ==
  \A value : ~Within(value, <<>>)
<1>1. Len(<<>>) = 0
  OBVIOUS
<1> QED
  BY <1>1 DEF Within

LEMMA OutputInitially == OutputInit => OutputInv
<1> SUFFICES ASSUME OutputInit PROVE OutputInv
  OBVIOUS
<1>1. OutputTypeOK
  BY OutputAssumption DEF OutputInit, OutputTypeOK, ChildStates
<1>2. CapturesTheBeginning
  BY OutputAssumption DEF OutputInit, CapturesTheBeginning, Smaller
<1>3. NothingWholeLeaks
  BY NothingInNothing DEF OutputInit, NothingWholeLeaks
<1> QED
  BY <1>1, <1>2, <1>3 DEF OutputInv

LEMMA CaptureKeeps ==
  ASSUME OutputInv, NEW chunk \in Chunks, Capture(chunk),
         child' \in ChildStates, pipe' \in {"child", "descendant", "nobody"},
         UNCHANGED result
  PROVE  OutputInv'
<1> DEFINE M == MaximumCapturedStream
           fits == Smaller(Len(chunk), remaining)
<1>1. /\ chunk \in Seq(Symbols) /\ written \in Seq(Symbols) /\ contents \in Seq(Symbols)
      /\ Len(chunk) \in Nat /\ Len(written) \in Nat /\ M \in Nat /\ remaining \in 0..M
  <2>1. chunk \in Seq(Symbols)
    <3>1. CASE \E a \in Symbols : chunk = <<a>>
      BY <3>1
    <3>2. CASE \E a, b \in Symbols : chunk = <<a, b>>
      BY <3>2
    <3> QED
      BY <3>1, <3>2 DEF Chunks
  <2>2. /\ written \in Seq(Symbols) /\ contents \in Seq(Symbols)
        /\ M \in Nat /\ remaining \in 0..M
    BY OutputAssumption DEF OutputInv, OutputTypeOK
  <2> QED
    BY <2>1, <2>2
<1>2. /\ written' = written \o chunk
      /\ contents' = contents \o SubSeq(chunk, 1, fits)
      /\ remaining' = remaining - fits
      /\ truncated' = IF Len(chunk) > remaining THEN "yes" ELSE truncated
      /\ UNCHANGED result
  BY DEF Capture, BufferWrite
<1>3. /\ contents = SubSeq(written, 1, Smaller(Len(written), M))
      /\ Len(contents) + remaining = M
      /\ truncated = "yes" <=> Len(written) > M
      /\ truncated \in {"no", "yes"}
  BY DEF OutputInv, OutputTypeOK, CapturesTheBeginning
<1>4. fits \in 0..Len(chunk) /\ fits <= remaining /\ fits \in Nat
  BY <1>1 DEF Smaller
<1>5. written' \in Seq(Symbols) /\ Len(written') = Len(written) + Len(chunk)
  BY <1>1, <1>2
<1>6. Smaller(Len(written), M) = M - remaining
  <2>1. Smaller(Len(written), M) \in 0..Len(written)
    BY <1>1 DEF Smaller
  <2>2. Len(contents) = Smaller(Len(written), M)
    BY <1>1, <1>3, <2>1
  <2> QED
    BY <1>1, <1>3, <2>1, <2>2
<1> HIDE DEF fits
<1>7. SubSeq(chunk, 1, fits) \in Seq(Symbols) /\ Len(SubSeq(chunk, 1, fits)) = fits
  BY <1>1, <1>4
<1>8. contents' \in Seq(Symbols) /\ Len(contents') = Len(contents) + fits
  BY <1>1, <1>2, <1>7
<1>9. OutputTypeOK'
  BY <1>1, <1>2, <1>3, <1>4, <1>5, <1>8 DEF OutputInv, OutputTypeOK
<1>10. contents' = SubSeq(written', 1, Smaller(Len(written'), M))
  <2>1. M - Smaller(Len(written), M) = remaining
    BY <1>1, <1>6
  <2> QED
    BY <1>1, <1>2, <1>3, <2>1, CutOfAppend DEF fits
<1>11. Len(contents') + remaining' = M
  <2>1. Len(contents) \in Nat /\ Len(contents) + remaining = M
    BY <1>1, <1>3
  <2>2. remaining \in Nat /\ fits \in Nat
    BY <1>1, <1>4
  <2>3. Len(contents) + fits + (remaining - fits) = Len(contents) + remaining
    BY <2>1, <2>2
  <2> QED
    BY <1>2, <1>8, <2>1, <2>3
<1>12. truncated' = "yes" <=> Len(written') > M
  <2>1. Len(written) > M \/ Len(chunk) > remaining <=> Len(written') > M
    BY <1>1, <1>5, <1>6 DEF Smaller
  <2> QED
    BY <1>2, <1>3, <2>1
<1>13. NothingWholeLeaks'
  BY <1>2 DEF OutputInv, NothingWholeLeaks
<1> QED
  BY <1>9, <1>10, <1>11, <1>12, <1>13 DEF OutputInv, CapturesTheBeginning

LEMMA ReturnKeeps ==
  ASSUME OutputInv, RunReturns
  PROVE  OutputInv'
<1>1. String \in Texts
  BY DEF String, OutputInv, OutputTypeOK, Texts
<1>2. /\ \/ result' = [code |-> "exit", text |-> Redact(String)]
         \/ result' = [code |-> "124", text |-> <<>>]
      /\ UNCHANGED <<child, pipe, written, contents, remaining, truncated>>
  BY DEF RunReturns
<1>3. \A value \in Sensitive : ~Within(value, Redact(String))
  BY <1>1, RedactLeavesNone, SensitiveAreRedacted
<1>4. NothingWholeLeaks'
  BY <1>2, <1>3, NothingInNothing DEF NothingWholeLeaks
<1> QED
  BY <1>2, <1>4 DEF OutputInv, OutputTypeOK, CapturesTheBeginning

LEMMA OutputPreserved == OutputInv /\ [OutputNext]_outputVars => OutputInv'
<1> SUFFICES ASSUME OutputInv, [OutputNext]_outputVars PROVE OutputInv'
  OBVIOUS
<1>1. ASSUME child' \in ChildStates,
             pipe' \in {"child", "descendant", "nobody"},
             UNCHANGED <<written, contents, remaining, truncated, result>>
      PROVE  OutputInv'
  BY <1>1 DEF OutputInv, OutputTypeOK, CapturesTheBeginning, NothingWholeLeaks
<1>2. CASE \/ Starts \/ Spawn \/ Exits \/ TimesOut \/ DescendantExits
           \/ UNCHANGED outputVars
  <2>1. /\ child' \in ChildStates
        /\ pipe' \in {"child", "descendant", "nobody"}
        /\ UNCHANGED <<written, contents, remaining, truncated, result>>
    BY <1>2 DEF Starts, ChildStates, Spawn, Exits, TimesOut, Ends, DescendantExits, outputVars,
                OutputInv, OutputTypeOK
  <2> QED
    BY <1>1, <2>1
<1>3. ASSUME NEW chunk \in Chunks, WriteChunk(chunk) \/ StartFails(chunk)
      PROVE  OutputInv'
  <2>1. /\ Capture(chunk) /\ UNCHANGED result
        /\ child' \in ChildStates
        /\ pipe' \in {"child", "descendant", "nobody"}
    BY <1>3 DEF WriteChunk, StartFails, ChildStates, OutputInv, OutputTypeOK
  <2> QED
    BY <2>1, CaptureKeeps
<1> QED
  BY <1>2, <1>3, ReturnKeeps DEF OutputNext

LEMMA OutputInvariant == OutputSpec => []OutputInv
BY OutputInitially, OutputPreserved, PTL DEF OutputSpec

\* executor.go:30: for any sizes of the writes and any limit, what is captured is
\* the beginning of what was written, and the note tells when it is cut.
THEOREM CapturedIsTheBeginning == OutputSpec => []CapturesTheBeginning
<1>1. OutputInv => CapturesTheBeginning
  BY DEF OutputInv
<1> QED
  BY <1>1, OutputInvariant, PTL

\* executor.go:169: for any output, any cut and any list of sensitive values, also
\* ones that overlap or contain each other, none of them is in what is returned.
THEOREM RedactionLeavesNothingWhole == OutputSpec => []NothingWholeLeaks
<1>1. OutputInv => NothingWholeLeaks
  BY DEF OutputInv
<1> QED
  BY <1>1, OutputInvariant, PTL

-----------------------------------------------------------------------------
\* The listener, for any number of clients and any limit.
\* Whoever has a goroutine is in the table, and after Close is hung up on.
ListenerInv == ListenerTypeOK /\ ConnectionLimit /\ NoneServedAfterClose

\* The table is finite, since there are only so many clients.
LEMMA TableIsFinite ==
  ASSUME connections \in SUBSET Links
  PROVE  IsFiniteSet(connections) /\ Cardinality(connections) \in Nat
BY ListenerAssumption, FS_Subset, FS_CardinalityType

LEMMA ListenerInitially == ListenerInit => ListenerInv
<1>1. Cardinality({}) = 0
  BY FS_EmptySet
<1> QED
  BY <1>1, ListenerAssumption
     DEF ListenerInit, ListenerInv, ListenerTypeOK, ConnectionLimit, NoneServedAfterClose

\* A slot is given only below the limit, and only before Close.
LEMMA AdmitKeepsListener ==
  ASSUME ListenerInv, NEW c \in Links, Admit(c)
  PROVE  ListenerInv'
<1> USE DEF ListenerInv, ListenerTypeOK, ConnectionLimit, NoneServedAfterClose, Admit
<1>1. IsFiniteSet(connections) /\ Cardinality(connections) \in Nat
  BY TableIsFinite
<1>2. CASE TurnedAway
  BY <1>1, <1>2
<1>3. CASE ~TurnedAway
  <2>1. Cardinality(connections) < MaxConnections /\ socket # "closed"
    BY <1>1, <1>3, ListenerAssumption DEF TurnedAway
  <2>2. Cardinality(connections \cup {c}) <= Cardinality(connections) + 1
    BY <1>1, FS_AddElement
  <2>3. Cardinality(connections \cup {c}) \in Nat
    BY <1>1, FS_AddElement, FS_CardinalityType
  <2>4. connections' = connections \cup {c}
    BY <1>3
  <2>5. Cardinality(connections') <= MaxConnections
    BY <1>1, <2>1, <2>2, <2>3, <2>4, ListenerAssumption
  <2>6. ListenerTypeOK'
    BY <1>3
  <2> QED
    BY <1>3, <2>1, <2>4, <2>5, <2>6
<1> QED
  BY <1>2, <1>3

\* A slot that is given back leaves fewer.
LEMMA ForgetKeepsListener ==
  ASSUME ListenerInv, NEW c \in Links, Forget(c)
  PROVE  ListenerInv'
<1> USE DEF ListenerInv, ListenerTypeOK, ConnectionLimit, NoneServedAfterClose, Forget
<1>1. IsFiniteSet(connections) /\ Cardinality(connections) \in Nat
  BY TableIsFinite
<1>2. Cardinality(connections \ {c}) <= Cardinality(connections)
  BY <1>1, FS_Subset
<1>3. Cardinality(connections \ {c}) \in Nat
  BY <1>1, FS_Subset, FS_CardinalityType
<1>4. Cardinality(connections') <= MaxConnections
  BY <1>1, <1>2, <1>3, ListenerAssumption
<1> QED
  BY <1>4

LEMMA ListenerPreserved == ListenerInv /\ [ListenerNext]_listenerVars => ListenerInv'
<1> SUFFICES ASSUME ListenerInv, [ListenerNext]_listenerVars
             PROVE  ListenerInv'
  OBVIOUS
<1> USE DEF ListenerInv, ListenerTypeOK, ConnectionLimit, NoneServedAfterClose
<1>1. ASSUME NEW c \in Links, Dial(c) PROVE ListenerInv'
  BY <1>1 DEF Dial, Idle
<1>2. ASSUME NEW c \in Links, Accept(c) PROVE ListenerInv'
  BY <1>2 DEF Accept
<1>3. ASSUME NEW c \in Links, Admit(c) PROVE ListenerInv'
  BY <1>3, AdmitKeepsListener
<1>4. ASSUME NEW c \in Links, ServeEnds(c) PROVE ListenerInv'
  BY <1>4 DEF ServeEnds
<1>5. ASSUME NEW c \in Links, Forget(c) PROVE ListenerInv'
  BY <1>5, ForgetKeepsListener
<1>6. CASE AcceptFails
  BY <1>6 DEF AcceptFails
<1>7. CASE CloseSocket
  BY <1>7 DEF CloseSocket
<1>8. CASE CloseConnections
  BY <1>8 DEF CloseConnections
<1>9. CASE UNCHANGED listenerVars
  BY <1>9 DEF listenerVars
<1> QED
  BY <1>1, <1>2, <1>3, <1>4, <1>5, <1>6, <1>7, <1>8, <1>9 DEF ListenerNext

LEMMA ListenerInvariant == ListenerSpec => []ListenerInv
BY ListenerInitially, ListenerPreserved, PTL DEF ListenerSpec

\* ssh_agent.go:175: never more connections than the limit, goroutines that have
\* yet to give their slot back included.
THEOREM ListenerKeepsLimit == ListenerSpec => []ConnectionLimit
<1>1. ListenerInv => ConnectionLimit
  BY DEF ListenerInv
<1> QED
  BY <1>1, ListenerInvariant, PTL

\* ssh_agent.go:129: a connection that was accepted before Close and judged after
\* it is not served, and whoever was served is hung up on.
THEOREM CloseEndsService == ListenerSpec => []NoneServedAfterClose
<1>1. ListenerInv => NoneServedAfterClose
  BY DEF ListenerInv
<1> QED
  BY <1>1, ListenerInvariant, PTL

-----------------------------------------------------------------------------
\* The composition: a step of one part is a step of its own specification, and
\* the others stand still.
LEMMA PartsMoveAlone ==
  Next => /\ [ListenerNext]_listenerVars
          /\ [JournalNext]_journalVars
          /\ [OutputNext]_outputVars
BY DEF Next

\* What is shown of the listener, of the journal and of an execution alone holds
\* of the specification that the run checks.
THEOREM DaemonPartsBehave == Spec => ListenerSpec /\ JournalSpec /\ OutputSpec
<1>1. Init => ListenerInit /\ JournalInit /\ OutputInit
  BY DEF Init
<1>2. UNCHANGED vars => /\ UNCHANGED listenerVars
                        /\ UNCHANGED journalVars
                        /\ UNCHANGED outputVars
  BY DEF vars
<1> QED
  BY <1>1, <1>2, PartsMoveAlone, PTL DEF Spec, ListenerSpec, JournalSpec, OutputSpec

\* Types of these parts, for all clients, leases, texts and limits.
THEOREM DaemonPartsTyped == Spec => []TypeOK
<1>1. ListenerInv /\ JournalInv /\ OutputInv => TypeOK
  <2> SUFFICES ASSUME JournalInv PROVE JournalTypeOK
    BY DEF ListenerInv, OutputInv, TypeOK
  <2>1. JournalShape /\ file = Newest(SubSeq(history, 1, saved))
    BY DEF JournalInv, JournalIsWindow
  <2>2. SubSeq(history, 1, saved) \in Seq(Events)
    BY <2>1 DEF JournalShape
  <2>3. file \in Seq(Events)
    BY <2>1, <2>2, NewestProperties
  <2> QED
    BY <2>1, <2>3 DEF JournalShape, JournalTypeOK
<1> QED
  BY <1>1, DaemonPartsBehave, ListenerInvariant, JournalInvariant, OutputInvariant, PTL
=============================================================================
