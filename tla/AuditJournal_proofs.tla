-------------------------- MODULE AuditJournal_proofs --------------------------
(***************************************************************************)
(* The journal, for every limit and every number of leases.  The critical  *)
(* sections of mu are what makes it work: what a handler is about to       *)
(* record of a lease is still true when it does (Pending), also when it    *)
(* records several ends one after the other.                               *)
(***************************************************************************)
EXTENDS AuditJournal, SequenceTheorems, TLAPS

-----------------------------------------------------------------------------
\* The window: recording with what is left of it gives the same window as
\* recording with all of it.
LEMMA NewestProperties ==
  ASSUME NEW s \in Seq(Events)
  PROVE  /\ Newest(s) \in Seq(Events)
         /\ Len(s) <= MaximumAuditEvents => Newest(s) = s
         /\ Len(s) > MaximumAuditEvents =>
              /\ Len(Newest(s)) = MaximumAuditEvents
              /\ \A i \in 1..MaximumAuditEvents :
                   Newest(s)[i] = s[Len(s) - MaximumAuditEvents + i]
<1> DEFINE M == MaximumAuditEvents
<1>1. M \in Nat \ {0} /\ Len(s) \in Nat
  BY JournalAssumption, LenProperties
<1>2. CASE Len(s) <= M
  BY <1>1, <1>2 DEF Newest
<1>3. CASE Len(s) > M
  <2>1. \A i \in (Len(s) - M + 1)..Len(s) : s[i] \in Events
    BY <1>1, <1>3, ElementOfSeq
  <2>2. Newest(s) = SubSeq(s, Len(s) - M + 1, Len(s))
    BY <1>3 DEF Newest
  <2>3. /\ Newest(s) \in Seq(Events)
        /\ Len(Newest(s)) = M
        /\ \A i \in 1..M : Newest(s)[i] = s[Len(s) - M + 1 + i - 1]
    BY <1>1, <1>3, <2>1, <2>2, SubSeqProperties
  <2> QED
    BY <1>1, <1>3, <2>3
<1> QED
  BY <1>1, <1>2, <1>3

LEMMA NewestOfNewest ==
  ASSUME NEW s \in Seq(Events), NEW e \in Events
  PROVE  Newest(Append(Newest(s), e)) = Newest(Append(s, e))
<1> DEFINE M == MaximumAuditEvents
           w == Newest(s)
<1>1. M \in Nat \ {0} /\ Len(s) \in Nat
  BY JournalAssumption, LenProperties
<1>2. CASE Len(s) <= M
  BY <1>2, NewestProperties
<1>3. CASE Len(s) > M
  <2>1. /\ w \in Seq(Events) /\ Len(w) = M
        /\ \A i \in 1..M : w[i] = s[Len(s) - M + i]
    BY <1>3, NewestProperties
  <2>2. /\ Append(s, e) \in Seq(Events) /\ Len(Append(s, e)) = Len(s) + 1
        /\ \A i \in 1..Len(s) : Append(s, e)[i] = s[i]
        /\ Append(s, e)[Len(s) + 1] = e
    BY AppendProperties
  <2> HIDE DEF w
  <2>3. /\ Append(w, e) \in Seq(Events) /\ Len(Append(w, e)) = M + 1
        /\ \A i \in 1..M : Append(w, e)[i] = w[i]
        /\ Append(w, e)[M + 1] = e
    BY <2>1, AppendProperties
  <2> DEFINE a == Append(s, e)
             b == Append(w, e)
  <2>4. /\ a \in Seq(Events) /\ Len(a) = Len(s) + 1 /\ Len(a) > M
        /\ b \in Seq(Events) /\ Len(b) = M + 1 /\ Len(b) > M
    BY <1>1, <1>3, <2>2, <2>3
  <2> HIDE DEF a, b
  <2>5. /\ Newest(a) \in Seq(Events) /\ Len(Newest(a)) = M
        /\ \A i \in 1..M : Newest(a)[i] = a[Len(a) - M + i]
    BY <2>4, NewestProperties
  <2>6. /\ Newest(b) \in Seq(Events) /\ Len(Newest(b)) = M
        /\ \A i \in 1..M : Newest(b)[i] = b[Len(b) - M + i]
    BY <2>4, NewestProperties
  <2>7. ASSUME NEW i \in 1..M
        PROVE  Newest(a)[i] = Newest(b)[i]
    <3>1. CASE i = M
      <4>1. Len(a) - M + i = Len(s) + 1 /\ Len(b) - M + i = M + 1
        BY <1>1, <2>4, <3>1
      <4>2. a[Len(s) + 1] = e /\ b[M + 1] = e
        BY <2>2, <2>3 DEF a, b
      <4> QED
        BY <2>5, <2>6, <4>1, <4>2
    <3>2. CASE i # M
      <4>1. /\ i + 1 \in 1..M /\ Len(s) - M + (i + 1) \in 1..Len(s)
            /\ Len(a) - M + i = Len(s) - M + (i + 1)
            /\ Len(b) - M + i = i + 1
        BY <1>1, <1>3, <2>4, <3>2
      <4>2. a[Len(s) - M + (i + 1)] = s[Len(s) - M + (i + 1)]
        BY <2>2, <4>1 DEF a
      <4>3. b[i + 1] = s[Len(s) - M + (i + 1)]
        BY <2>1, <2>3, <4>1 DEF b
      <4> QED
        BY <2>5, <2>6, <4>1, <4>2, <4>3
    <3> QED
      BY <3>1, <3>2
  <2>8. Newest(a) = Newest(b)
    BY <2>5, <2>6, <2>7, SeqEqual
  <2> QED
    BY <2>8 DEF a, b, w
<1> QED
  BY <1>1, <1>2, <1>3

LEMMA PrefixProperties ==
  ASSUME NEW s \in Seq(Events), NEW n \in 0..Len(s)
  PROVE  /\ SubSeq(s, 1, n) \in Seq(Events)
         /\ Len(SubSeq(s, 1, n)) = n
         /\ \A i \in 1..n : SubSeq(s, 1, n)[i] = s[i]
<1>1. n \in Nat /\ Len(s) \in Nat
  BY LenProperties
<1>2. \A i \in 1..n : s[i] \in Events
  BY <1>1, ElementOfSeq
<1> QED
  BY <1>1, <1>2, SubSeqProperties

\* What was saved is the same before and after an event is appended or lost.
LEMMA PrefixStable ==
  ASSUME NEW s \in Seq(Events), NEW n \in 0..Len(s), NEW e \in Events
  PROVE  /\ SubSeq(Append(s, e), 1, n) = SubSeq(s, 1, n)
         /\ SubSeq(SubSeq(s, 1, n), 1, n) = SubSeq(s, 1, n)
         /\ SubSeq(Append(s, e), 1, Len(s) + 1) = Append(s, e)
<1>1. n \in Nat /\ Len(s) \in Nat
  BY LenProperties
<1>2. /\ SubSeq(s, 1, n) \in Seq(Events) /\ Len(SubSeq(s, 1, n)) = n
      /\ \A i \in 1..n : SubSeq(s, 1, n)[i] = s[i]
  BY PrefixProperties
<1>3. /\ Append(s, e) \in Seq(Events) /\ Len(Append(s, e)) = Len(s) + 1
      /\ \A i \in 1..Len(s) : Append(s, e)[i] = s[i]
  BY AppendProperties
<1>4. /\ SubSeq(Append(s, e), 1, n) \in Seq(Events)
      /\ Len(SubSeq(Append(s, e), 1, n)) = n
      /\ \A i \in 1..n : SubSeq(Append(s, e), 1, n)[i] = Append(s, e)[i]
  <2>1. n \in 0..Len(Append(s, e))
    BY <1>1, <1>3
  <2> QED
    BY <1>3, <2>1, PrefixProperties
<1>5. SubSeq(Append(s, e), 1, n) = SubSeq(s, 1, n)
  <2>1. \A i \in 1..n : i \in 1..Len(s)
    BY <1>1
  <2>2. \A i \in 1..n : SubSeq(Append(s, e), 1, n)[i] = SubSeq(s, 1, n)[i]
    BY <1>2, <1>3, <1>4, <2>1
  <2> QED
    BY <1>2, <1>4, <2>2, SeqEqual
<1>6. SubSeq(SubSeq(s, 1, n), 1, n) = SubSeq(s, 1, n)
  BY <1>2, SubSeqFull
<1>7. SubSeq(Append(s, e), 1, Len(s) + 1) = Append(s, e)
  BY <1>3, SubSeqFull
<1> QED
  BY <1>5, <1>6, <1>7

-----------------------------------------------------------------------------
(***************************************************************************)
(* The invariant.                                                          *)
(***************************************************************************)
JournalShape ==
  /\ process \in {"up", "closed", "down"}
  /\ live \subseteq JournalLeases
  /\ todo \in Seq(Events) /\ history \in Seq(Events)
  /\ events \in Seq(Events)
  /\ saved \in 0..Len(history)
  /\ cleared \in Nat
  /\ process # "down" => cleared <= Len(history)
  /\ process = "down" => live = {} /\ todo = <<>> /\ saved = Len(history)

\* What a handler will record of a lease is true of it as long as it holds mu.
PendingEvent(e) ==
  /\ e.kind \in Endings => e.lease \in live
  /\ e.kind = "granted" =>
       /\ e.lease \in JournalLeases \ live
       /\ ~Granted(e.lease) /\ ~Ended(e.lease)
  /\ e.kind = "other" => e.lease = NoLease

Pending ==
  /\ \A i \in DOMAIN todo : PendingEvent(todo[i])
  /\ \A i, j \in DOMAIN todo :
       todo[i].lease = todo[j].lease => i = j \/ todo[i].lease = NoLease

\* An event of no lease is none of a grant or of an end.
OthersHaveNoLease ==
  \A i \in DOMAIN history :
    /\ history[i].kind = "other" => history[i].lease = NoLease
    /\ history[i].kind # "other" => history[i].lease \in JournalLeases

\* Granted since the leases were last cleared.
GrantedSince(l) ==
  \E i \in (cleared + 1)..Len(history) : history[i] = Event("granted", l)

JournalInv ==
  /\ JournalShape
  /\ JournalIsWindow
  /\ Pending
  /\ OthersHaveNoLease
  /\ EndsOnce
  /\ LivesUntilRecorded

LEMMA JournalInitially == JournalInit => JournalInv
<1> SUFFICES ASSUME JournalInit
             PROVE  JournalInv
  OBVIOUS
<1>1. <<>> \in Seq(Events) /\ Len(<<>>) = 0 /\ DOMAIN <<>> = {}
  BY EmptySeq
<1>2. JournalShape
  BY <1>1 DEF JournalInit, JournalShape
<1>3. JournalIsWindow
  <2>1. SubSeq(<<>>, 1, 0) = <<>>
    BY SubSeqEmpty
  <2>2. Newest(<<>>) = <<>>
    BY <1>1, JournalAssumption DEF Newest
  <2> QED
    BY <2>1, <2>2 DEF JournalInit, JournalIsWindow
<1> QED
  BY <1>1, <1>2, <1>3
  DEF JournalInit, JournalInv, Pending, OthersHaveNoLease, EndsOnce,
      LivesUntilRecorded

\* The journal after an event: its old part is what it was.
LEMMA HistoryAppend ==
  ASSUME JournalShape, NEW e \in Events, history' = Append(history, e)
  PROVE  /\ Len(history) \in Nat /\ DOMAIN history = 1..Len(history)
         /\ history' \in Seq(Events)
         /\ Len(history') = Len(history) + 1
         /\ DOMAIN history' = 1..(Len(history) + 1)
         /\ \A i \in 1..Len(history) : history'[i] = history[i]
         /\ history'[Len(history) + 1] = e
BY AppendProperties, LenProperties DEF JournalShape

LEMMA GrantedAfter ==
  ASSUME JournalShape, NEW e \in Events, history' = Append(history, e), NEW l
  PROVE  /\ Granted(l)' <=> Granted(l) \/ e = Event("granted", l)
         /\ Ended(l)' <=> Ended(l) \/ (e.lease = l /\ e.kind \in Endings)
<1>1. /\ Len(history) \in Nat /\ DOMAIN history = 1..Len(history)
      /\ DOMAIN history' = 1..(Len(history) + 1)
      /\ \A i \in 1..Len(history) : history'[i] = history[i]
      /\ history'[Len(history) + 1] = e
  BY HistoryAppend
<1>2. \A i \in 1..(Len(history) + 1) :
        i \in 1..Len(history) \/ i = Len(history) + 1
  BY <1>1
<1>3. \A i \in 1..Len(history) : i \in 1..(Len(history) + 1)
  BY <1>1
<1>4. Len(history) + 1 \in 1..(Len(history) + 1)
  BY <1>1
<1>5. Granted(l)' <=> Granted(l) \/ e = Event("granted", l)
  BY <1>1, <1>2, <1>3, <1>4 DEF Granted, Event
<1>6. Ended(l)' <=> Ended(l) \/ (e.lease = l /\ e.kind \in Endings)
  BY <1>1, <1>2, <1>3, <1>4 DEF Ended
<1> QED
  BY <1>5, <1>6

LEMMA EnterKeeps ==
  ASSUME JournalInv, NEW s \in Seq(Events), Enter(s),
         \A i \in DOMAIN s : PendingEvent(s[i]),
         \A i, j \in DOMAIN s :
           s[i].lease = s[j].lease => i = j \/ s[i].lease = NoLease
  PROVE  JournalInv'
<1>1. /\ todo' = s /\ process # "down"
      /\ UNCHANGED <<process, live, events, file, history, saved, cleared>>
  BY DEF Enter
<1>2. JournalShape'
  BY <1>1 DEF JournalInv, JournalShape
<1>3. Pending'
  BY <1>1 DEF Pending, PendingEvent, Granted, Ended
<1> QED
  BY <1>1, <1>2, <1>3
  DEF JournalInv, JournalIsWindow, OthersHaveNoLease, EndsOnce,
      LivesUntilRecorded, Ended

LEMMA SectionsPend ==
  ASSUME JournalInv, process # "down",
         \/ \E l \in JournalLeases : Grant(l)
         \/ \E l \in live, kind \in Endings : End(l, kind)
         \/ \E l, m \in live, kind \in Endings : EndConsumer(l, m, kind)
         \/ RecordOther
  PROVE  JournalInv'
<1>1. ASSUME NEW a \in Events, NEW b \in Events, NEW c \in Events,
             PendingEvent(a), PendingEvent(b), PendingEvent(c),
             a.lease = b.lease => a.lease = NoLease,
             a.lease = c.lease => a.lease = NoLease,
             b.lease = c.lease => b.lease = NoLease,
             Enter(<<a>>) \/ Enter(<<a, b>>) \/ Enter(<<a, b, c>>)
      PROVE  JournalInv'
  <2>1. CASE Enter(<<a>>)
    <3> DEFINE s == <<a>>
    <3>1. s \in Seq(Events) /\ DOMAIN s = {1} /\ s[1] = a
      OBVIOUS
    <3> HIDE DEF s
    <3> QED
      BY <1>1, <2>1, <3>1, EnterKeeps DEF s
  <2>2. CASE Enter(<<a, b>>)
    <3> DEFINE s == <<a, b>>
    <3>1. s \in Seq(Events) /\ DOMAIN s = {1, 2} /\ s[1] = a /\ s[2] = b
      OBVIOUS
    <3>2. Enter(s)
      BY <2>2
    <3> HIDE DEF s
    <3> QED
      BY <1>1, <3>1, <3>2, EnterKeeps
  <2>3. CASE Enter(<<a, b, c>>)
    <3> DEFINE s == <<a, b, c>>
    <3>1. /\ s \in Seq(Events) /\ DOMAIN s = {1, 2, 3}
          /\ s[1] = a /\ s[2] = b /\ s[3] = c
      OBVIOUS
    <3>2. Enter(s)
      BY <2>3
    <3> HIDE DEF s
    <3> QED
      BY <1>1, <3>1, <3>2, EnterKeeps
  <2> QED
    BY <1>1, <2>1, <2>2, <2>3
<1>2. Other \in Events /\ PendingEvent(Other) /\ Other.lease = NoLease
  BY DEF Other, Event, Events, Kinds, Endings, PendingEvent
<1>3. ASSUME NEW l \in live, NEW kind \in Endings
      PROVE  /\ Event(kind, l) \in Events /\ PendingEvent(Event(kind, l))
             /\ Event(kind, l).lease = l /\ l \in JournalLeases
  BY DEF Event, Events, Kinds, Endings, PendingEvent, JournalInv, JournalShape
<1>4. ASSUME NEW l \in JournalLeases, l \notin live, ~Granted(l), ~Ended(l)
      PROVE  /\ Event("granted", l) \in Events
             /\ PendingEvent(Event("granted", l))
             /\ Event("granted", l).lease = l
  BY <1>4 DEF Event, Events, Kinds, Endings, PendingEvent
<1>5. ASSUME NEW l \in JournalLeases, Grant(l)
      PROVE  JournalInv'
  <2>1. l \notin live /\ ~Granted(l) /\ ~Ended(l) /\ l # NoLease
    BY <1>5, JournalAssumption DEF Grant
  <2> DEFINE g == Event("granted", l)
  <2>2. g \in Events /\ PendingEvent(g) /\ g.lease = l
    BY <1>4, <2>1
  <2>3. CASE Enter(<<g>>)
    <3> HIDE DEF g
    <3> QED
      BY <1>1, <1>2, <2>1, <2>2, <2>3
  <2>4. CASE Enter(<<Other, g>>)
    <3> HIDE DEF g
    <3> QED
      BY <1>1, <1>2, <2>1, <2>2, <2>4
  <2>5. ASSUME NEW old \in live, Enter(<<Event("revoked", old), g>>)
        PROVE  JournalInv'
    <3> DEFINE r == Event("revoked", old)
    <3>1. r \in Events /\ PendingEvent(r) /\ r.lease = old /\ old # l
      BY <1>3, <2>1 DEF Endings
    <3>2. Enter(<<r, g>>)
      BY <2>5
    <3> HIDE DEF g, r
    <3> QED
      BY <1>1, <1>2, <2>1, <2>2, <3>1, <3>2
  <2> QED
    BY <1>5, <2>3, <2>4, <2>5 DEF Grant
<1>6. ASSUME NEW l \in live, NEW kind \in Endings, End(l, kind)
      PROVE  JournalInv'
  <2> DEFINE r == Event(kind, l)
  <2>1. r \in Events /\ PendingEvent(r) /\ r.lease = l /\ l # NoLease
    BY <1>3, JournalAssumption
  <2>2. Enter(<<r>>)
    BY <1>6 DEF End
  <2> HIDE DEF r
  <2> QED
    BY <1>1, <1>2, <2>1, <2>2
<1>7. ASSUME NEW l \in live, NEW m \in live, NEW kind \in Endings,
             EndConsumer(l, m, kind)
      PROVE  JournalInv'
  <2> DEFINE r == Event(kind, l)
             q == Event(kind, m)
  <2>1. /\ r \in Events /\ PendingEvent(r) /\ r.lease = l /\ l # NoLease
        /\ q \in Events /\ PendingEvent(q) /\ q.lease = m /\ m # NoLease
    BY <1>3, JournalAssumption
  <2>2. l # m /\ Enter(<<r, q, Other>>)
    BY <1>7 DEF EndConsumer
  <2> HIDE DEF r, q
  <2> QED
    BY <1>1, <1>2, <2>1, <2>2
<1>8. CASE RecordOther
  BY <1>1, <1>2, <1>8 DEF RecordOther
<1> QED
  BY <1>5, <1>6, <1>7, <1>8

LEMMA RecordKeeps ==
  ASSUME JournalInv, RecordLocked
  PROVE  JournalInv'
<1> DEFINE e == Head(todo)
<1>1. /\ process # "down" /\ todo # <<>>
      /\ live' = LiveAfter(e)
      /\ history' = Append(history, e)
      /\ events' = Newest(Append(events, e))
      /\ Save(e)
      /\ todo' = Tail(todo)
      /\ UNCHANGED <<process, cleared>>
  BY DEF RecordLocked, JournalInv, JournalShape
<1>2. /\ e \in Events
      /\ todo' \in Seq(Events) /\ Len(todo') = Len(todo) - 1
      /\ \A i \in 1..Len(todo') : todo'[i] = todo[i + 1]
      /\ DOMAIN todo = 1..Len(todo) /\ DOMAIN todo' = 1..Len(todo')
      /\ Len(todo) \in Nat \ {0}
      /\ e = todo[1]
  BY <1>1, HeadTailProperties, EmptySeq, LenProperties DEF JournalInv, JournalShape
<1> HIDE DEF e
<1>3. PendingEvent(e)
  BY <1>2 DEF JournalInv, Pending
<1>4. JournalShape
  BY DEF JournalInv
<1>5. /\ Len(history) \in Nat /\ DOMAIN history = 1..Len(history)
      /\ history' \in Seq(Events)
      /\ Len(history') = Len(history) + 1
      /\ DOMAIN history' = 1..(Len(history) + 1)
      /\ \A i \in 1..Len(history) : history'[i] = history[i]
      /\ history'[Len(history) + 1] = e
  BY <1>1, <1>2, <1>4, HistoryAppend
<1>6. /\ history \in Seq(Events) /\ saved \in 0..Len(history)
      /\ saved \in Nat /\ saved <= Len(history) /\ Len(history) \in Nat
      /\ cleared \in Nat /\ cleared <= Len(history)
  BY <1>1, LenProperties DEF JournalInv, JournalShape
<1>7. /\ events = Newest(history)
      /\ file = Newest(SubSeq(history, 1, saved))
  BY <1>1 DEF JournalInv, JournalIsWindow
<1>8. events' = Newest(history')
  BY <1>1, <1>2, <1>6, <1>7, NewestOfNewest
<1>9. file' = Newest(SubSeq(history', 1, saved')) /\ saved' \in 0..Len(history')
  <2>1. CASE file' = Newest(Append(events, e)) /\ saved' = Len(history) + 1
    <3>1. SubSeq(history', 1, saved') = history'
      BY <1>1, <1>2, <1>6, <2>1, PrefixStable
    <3>2. file' = Newest(SubSeq(history', 1, saved'))
      BY <1>1, <1>8, <2>1, <3>1
    <3>3. saved' \in 0..Len(history')
      BY <1>5, <2>1
    <3> QED
      BY <3>2, <3>3
  <2>2. CASE UNCHANGED <<file, saved>>
    <3>1. SubSeq(history', 1, saved) = SubSeq(history, 1, saved)
      BY <1>1, <1>2, <1>6, PrefixStable
    <3>2. file' = Newest(SubSeq(history', 1, saved'))
      BY <1>7, <2>2, <3>1
    <3>3. saved' \in 0..Len(history')
      BY <1>5, <1>6, <2>2
    <3> QED
      BY <3>2, <3>3
  <2> QED
    BY <1>1, <2>1, <2>2 DEF Save
<1>10. JournalIsWindow'
  BY <1>8, <1>9 DEF JournalIsWindow
<1>11. live' \subseteq JournalLeases
  BY <1>1, <1>3, <1>4 DEF LiveAfter, PendingEvent, JournalShape
<1>12. JournalShape'
  <2>1. events' \in Seq(Events)
    BY <1>5, <1>8, NewestProperties
  <2>2. cleared' <= Len(history')
    BY <1>1, <1>5, <1>6
  <2> QED
    BY <1>1, <1>2, <1>4, <1>5, <1>6, <1>9, <1>11, <2>1, <2>2
    DEF JournalShape
<1>13. /\ \A l : Granted(l)' <=> Granted(l) \/ e = Event("granted", l)
       /\ \A l : Ended(l)' <=> Ended(l) \/ (e.lease = l /\ e.kind \in Endings)
  BY <1>1, <1>2, <1>4, GrantedAfter
<1>14. Pending'
  <2>1. ASSUME NEW i \in 1..Len(todo')
        PROVE  /\ i + 1 \in 1..Len(todo) /\ todo'[i] = todo[i + 1]
               /\ PendingEvent(todo[i + 1])
               /\ todo[i + 1].lease # e.lease \/ todo[i + 1].lease = NoLease
               /\ todo[i + 1] \in Events
    <3>1. i + 1 \in 1..Len(todo) /\ i + 1 # 1 /\ 1 \in 1..Len(todo)
      BY <1>2
    <3>2. todo[i + 1] \in Events
      BY <1>4, <3>1, ElementOfSeq DEF JournalShape
    <3> QED
      BY <1>2, <3>1, <3>2 DEF JournalInv, Pending
  <2>2. ASSUME NEW i \in 1..Len(todo')
        PROVE  /\ todo'[i].kind \in Endings => todo'[i].lease \in live'
               /\ todo'[i].kind = "granted" =>
                    /\ todo'[i].lease \in JournalLeases \ live'
                    /\ ~ \E k \in DOMAIN history' :
                           history'[k] = Event("granted", todo'[i].lease)
                    /\ ~ \E k \in DOMAIN history' :
                           /\ history'[k].lease = todo'[i].lease
                           /\ history'[k].kind \in Endings
               /\ todo'[i].kind = "other" => todo'[i].lease = NoLease
    <3>1. PICK f : f = todo[i + 1]
      OBVIOUS
    <3>2. /\ f \in Events /\ PendingEvent(f) /\ todo'[i] = f
          /\ f.lease # e.lease \/ f.lease = NoLease
      BY <2>1, <3>1
    <3>3. ASSUME f.kind \in Endings
          PROVE  f.lease \in live'
      <4>1. f.lease \in live /\ f.lease # NoLease
        BY <1>4, <3>2, <3>3, JournalAssumption DEF PendingEvent, JournalShape
      <4> QED
        BY <1>1, <3>2, <4>1 DEF LiveAfter
    <3>4. ASSUME f.kind = "granted"
          PROVE  /\ f.lease \in JournalLeases \ live'
                 /\ ~Granted(f.lease)' /\ ~Ended(f.lease)'
      <4>1. /\ f.lease \in JournalLeases \ live /\ f.lease # NoLease
            /\ ~Granted(f.lease) /\ ~Ended(f.lease)
        BY <3>2, <3>4, JournalAssumption DEF PendingEvent
      <4>2. f.lease # e.lease /\ e # Event("granted", f.lease)
        BY <3>2, <4>1 DEF Event
      <4>3. f.lease \notin live'
        BY <1>1, <4>1, <4>2 DEF LiveAfter
      <4> QED
        BY <1>13, <4>1, <4>2, <4>3
    <3>5. f.kind = "other" => f.lease = NoLease
      BY <3>2 DEF PendingEvent
    <3> QED
      BY <3>2, <3>3, <3>4, <3>5 DEF Granted, Ended
  <2>3. ASSUME NEW i \in 1..Len(todo'), NEW j \in 1..Len(todo'),
               todo'[i].lease = todo'[j].lease
        PROVE  i = j \/ todo'[i].lease = NoLease
    <3>1. i + 1 = j + 1 \/ todo[i + 1].lease = NoLease
      BY <1>2, <2>1, <2>3 DEF JournalInv, Pending
    <3> QED
      BY <2>1, <3>1
  <2> QED
    BY <1>2, <2>2, <2>3 DEF Pending, PendingEvent, Granted, Ended
<1>15. e.kind \in Endings \/ e.kind = "granted" \/ e.kind = "other"
  BY <1>2 DEF Events, Kinds, Endings
<1>16. OthersHaveNoLease'
  <2>1. /\ e.kind = "other" => e.lease = NoLease
        /\ e.kind # "other" => e.lease \in JournalLeases
    BY <1>3, <1>4, <1>15 DEF PendingEvent, JournalShape
  <2>2. \A i \in 1..(Len(history) + 1) :
          i \in 1..Len(history) \/ i = Len(history) + 1
    BY <1>5
  <2> QED
    BY <1>5, <2>1, <2>2 DEF JournalInv, OthersHaveNoLease
<1>17. \A l \in JournalLeases : l \in live <=> GrantedSince(l) /\ ~Ended(l)
  BY <1>1 DEF JournalInv, LivesUntilRecorded, GrantedSince
<1>18. e.kind # "other" => ~Ended(e.lease)
  BY <1>3, <1>4, <1>15, <1>17 DEF PendingEvent, JournalShape
<1>19. EndsOnce'
  <2> SUFFICES ASSUME NEW i \in 1..(Len(history) + 1),
                      NEW j \in 1..(Len(history) + 1),
                      history'[i].lease = history'[j].lease,
                      history'[i].kind \in Endings
               PROVE  IF history'[j].kind = "granted" THEN j < i
                      ELSE history'[j].kind \in Endings => i = j
    BY <1>5 DEF EndsOnce
  <2>1. CASE i \in 1..Len(history) /\ j \in 1..Len(history)
    BY <1>5, <2>1 DEF JournalInv, EndsOnce
  <2>2. CASE i = Len(history) + 1 /\ j \in 1..Len(history)
    <3>1. history'[i] = e /\ history'[j] = history[j] /\ j < i
      BY <1>5, <2>2
    <3>2. ~Ended(e.lease)
      BY <1>18, <3>1 DEF Endings
    <3>3. history[j].kind \notin Endings
      BY <1>5, <2>2, <3>1, <3>2 DEF Ended
    <3> QED
      BY <3>1, <3>3
  <2>3. CASE i \in 1..Len(history) /\ j = Len(history) + 1
    <3>1. history'[j] = e /\ history'[i] = history[i]
      BY <1>5, <2>3
    <3>2. Ended(e.lease)
      BY <1>5, <2>3, <3>1 DEF Ended
    <3>3. e.kind = "other"
      BY <1>18, <3>2
    <3> QED
      BY <3>1, <3>3 DEF Endings
  <2>4. CASE i = Len(history) + 1 /\ j = Len(history) + 1
    BY <2>4 DEF Endings
  <2> QED
    BY <1>5, <2>1, <2>2, <2>3, <2>4
<1>20. \A l : GrantedSince(l)' <=> GrantedSince(l) \/ e = Event("granted", l)
  <2>1. /\ \A i \in (cleared + 1)..(Len(history) + 1) :
             i \in (cleared + 1)..Len(history) \/ i = Len(history) + 1
        /\ \A i \in (cleared + 1)..Len(history) :
             i \in 1..Len(history) /\ i \in (cleared + 1)..(Len(history) + 1)
        /\ Len(history) + 1 \in (cleared + 1)..(Len(history) + 1)
    BY <1>5, <1>6
  <2> QED
    BY <1>1, <1>5, <2>1 DEF GrantedSince, Event
<1>21. \A l \in JournalLeases : l \in live' <=> GrantedSince(l)' /\ ~Ended(l)'
  <2> SUFFICES ASSUME NEW l \in JournalLeases
               PROVE  l \in live' <=> GrantedSince(l)' /\ ~Ended(l)'
    OBVIOUS
  <2>1. CASE e.kind = "granted"
    <3>1. /\ l \in live' <=> l \in live \/ l = e.lease
          /\ e.kind \notin Endings
      BY <1>1, <2>1 DEF LiveAfter, Endings
    <3>2. e = Event("granted", l) <=> l = e.lease
      BY <1>2, <2>1 DEF Events, Event
    <3> QED
      BY <1>13, <1>17, <1>18, <1>20, <2>1, <3>1, <3>2
  <2>2. CASE e.kind \in Endings
    <3>1. l \in live' <=> l \in live /\ l # e.lease
      BY <1>1, <2>2 DEF LiveAfter, Endings
    <3>2. e # Event("granted", l)
      BY <2>2 DEF Event, Endings
    <3> QED
      BY <1>13, <1>17, <1>20, <2>2, <3>1, <3>2
  <2>3. CASE e.kind = "other"
    <3>1. e.lease # l
      BY <1>3, <2>3, JournalAssumption DEF PendingEvent
    <3>2. l \in live' <=> l \in live
      BY <1>1, <2>3, <3>1 DEF LiveAfter
    <3>3. e # Event("granted", l)
      BY <2>3 DEF Event
    <3> QED
      BY <1>13, <1>17, <1>20, <3>1, <3>2, <3>3
  <2> QED
    BY <1>15, <2>1, <2>2, <2>3
<1>22. LivesUntilRecorded'
  BY <1>11, <1>21 DEF LivesUntilRecorded, GrantedSince
<1> QED
  BY <1>10, <1>12, <1>14, <1>16, <1>19, <1>22 DEF JournalInv

\* What was not saved is lost; what is left is a prefix.
LEMMA DiesKeeps ==
  ASSUME JournalInv, Dies
  PROVE  JournalInv'
<1>1. /\ process' = "down" /\ live' = {} /\ todo' = <<>> /\ events' = <<>>
      /\ history' = SubSeq(history, 1, saved)
      /\ UNCHANGED <<file, saved, cleared>>
  BY DEF Dies
<1>2. /\ history \in Seq(Events) /\ saved \in 0..Len(history)
      /\ Len(history) \in Nat /\ DOMAIN history = 1..Len(history)
  BY LenProperties DEF JournalInv, JournalShape
<1>3. /\ history' \in Seq(Events) /\ Len(history') = saved
      /\ \A i \in 1..saved : history'[i] = history[i]
      /\ DOMAIN history' = 1..saved
  BY <1>1, <1>2, PrefixProperties, LenProperties
<1>4. SubSeq(history', 1, saved) = history'
  BY <1>3, SubSeqFull
<1>5. JournalShape'
  <2>1. <<>> \in Seq(Events)
    BY EmptySeq
  <2>2. saved' \in 0..Len(history') /\ saved' = Len(history')
    <3>1. saved' = saved /\ Len(history') = saved /\ saved \in Nat
      BY <1>1, <1>2, <1>3
    <3> QED
      BY <3>1
  <2> QED
    BY <1>1, <1>3, <2>1, <2>2 DEF JournalInv, JournalShape
<1>6. JournalIsWindow'
  BY <1>1, <1>4 DEF JournalInv, JournalIsWindow
<1>7. Pending'
  <2>1. DOMAIN todo' = {}
    BY <1>1
  <2> QED
    BY <2>1 DEF Pending
<1>8. \A i \in 1..saved : i \in 1..Len(history)
  BY <1>2
<1>9. OthersHaveNoLease' /\ EndsOnce'
  BY <1>2, <1>3, <1>8 DEF JournalInv, OthersHaveNoLease, EndsOnce
<1> QED
  BY <1>1, <1>5, <1>6, <1>7, <1>9 DEF JournalInv, LivesUntilRecorded

\* Close clears leases that were granted before, and nothing else.
LEMMA CloseKeeps ==
  ASSUME JournalInv, ServiceClose
  PROVE  JournalInv'
<1>1. /\ process = "up" /\ process' = "closed" /\ live' = {} /\ todo = <<>>
      /\ cleared' = Len(history)
      /\ UNCHANGED <<todo, events, file, history, saved>>
  BY DEF ServiceClose
<1>2. history \in Seq(Events) /\ Len(history) \in Nat
  BY LenProperties DEF JournalInv, JournalShape
<1>3. JournalShape'
  BY <1>1, <1>2 DEF JournalInv, JournalShape
<1>4. JournalIsWindow'
  BY <1>1 DEF JournalInv, JournalIsWindow
<1>5. Pending'
  BY <1>1 DEF Pending
<1>6. LivesUntilRecorded'
  BY <1>1, <1>2 DEF LivesUntilRecorded
<1> QED
  BY <1>1, <1>3, <1>4, <1>5, <1>6
  DEF JournalInv, OthersHaveNoLease, EndsOnce

LEMMA NewServiceKeeps ==
  ASSUME JournalInv, NewService
  PROVE  JournalInv'
<1>1. /\ process = "down" /\ process' = "up" /\ events' = file
      /\ cleared' = Len(history)
      /\ UNCHANGED <<live, todo, file, history, saved>>
  BY DEF NewService
<1>2. /\ live = {} /\ todo = <<>> /\ saved = Len(history)
      /\ history \in Seq(Events) /\ Len(history) \in Nat
  BY <1>1, LenProperties DEF JournalInv, JournalShape
<1>3. SubSeq(history, 1, saved) = history
  BY <1>2, SubSeqFull
<1>4. file = Newest(history)
  BY <1>3 DEF JournalInv, JournalIsWindow
<1>5. JournalShape'
  BY <1>1, <1>2, <1>4, NewestProperties DEF JournalInv, JournalShape
<1>6. JournalIsWindow'
  BY <1>1, <1>3, <1>4 DEF JournalIsWindow
<1>7. Pending'
  BY <1>1, <1>2 DEF Pending
<1>8. LivesUntilRecorded'
  BY <1>1, <1>2 DEF LivesUntilRecorded
<1> QED
  BY <1>1, <1>5, <1>6, <1>7, <1>8
  DEF JournalInv, OthersHaveNoLease, EndsOnce

LEMMA JournalPreserved == JournalInv /\ [JournalNext]_journalVars => JournalInv'
<1> SUFFICES ASSUME JournalInv, [JournalNext]_journalVars
             PROVE  JournalInv'
  OBVIOUS
<1>1. CASE \/ \E l \in JournalLeases : Grant(l)
           \/ \E l \in live, kind \in Endings : End(l, kind)
           \/ \E l, m \in live, kind \in Endings : EndConsumer(l, m, kind)
           \/ RecordOther
  <2>1. process # "down"
    BY <1>1 DEF Grant, End, EndConsumer, RecordOther, Enter
  <2> QED
    BY <1>1, <2>1, SectionsPend
<1>2. CASE RecordLocked
  BY <1>2, RecordKeeps
<1>3. CASE ServiceClose \/ Dies
  BY <1>3, CloseKeeps, DiesKeeps
<1>4. CASE NewService
  BY <1>4, NewServiceKeeps
<1>5. CASE UNCHANGED journalVars
  BY <1>5
  DEF journalVars, JournalInv, JournalShape, JournalIsWindow, Pending,
      PendingEvent, Granted, Ended, OthersHaveNoLease, EndsOnce,
      LivesUntilRecorded
<1> QED
  BY <1>1, <1>2, <1>3, <1>4, <1>5 DEF JournalNext

LEMMA JournalInvariant == JournalSpec => []JournalInv
BY JournalInitially, JournalPreserved, PTL DEF JournalSpec

\* Memory and file hold the newest events there are, for every limit, however
\* saves fail and wherever the process dies.
THEOREM JournalKeepsTheNewest == JournalSpec => []JournalIsWindow
<1>1. JournalInv => JournalIsWindow
  BY DEF JournalInv
<1> QED
  BY <1>1, JournalInvariant, PTL

\* No lease ends twice in the journal, nor before it was granted.
THEOREM LeasesEndOnce == JournalSpec => []EndsOnce
<1>1. JournalInv => EndsOnce
  BY DEF JournalInv
<1> QED
  BY <1>1, JournalInvariant, PTL

\* The journal tells which leases the process holds, before Close and after it.
THEOREM JournalTellsWhoLives == JournalSpec => []LivesUntilRecorded
<1>1. JournalInv => LivesUntilRecorded
  BY DEF JournalInv
<1> QED
  BY <1>1, JournalInvariant, PTL
==============================================================================
