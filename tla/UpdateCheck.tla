------------------------------ MODULE UpdateCheck ------------------------------
(***************************************************************************)
(* The update check of the command line: internal/updatecheck/checker.go   *)
(* and internal/cli/updates.go.  Processes that know nothing of each other *)
(* share one cache file, which is replaced by a rename.                    *)
(*                                                                         *)
(* A version is its three numbers and the identifiers after the hyphen; an *)
(* identifier is what the code asks of its text: its place in the order of *)
(* strings, what strconv.Atoi makes of it (Overflow when that fails),      *)
(* whether it has digits only and whether it starts with a zero and goes   *)
(* on.  Texts that are no version at all are one value.                    *)
(***************************************************************************)
EXTENDS Integers, Sequences

CONSTANTS
  Checkers,   \* processes
  Versions,   \* what the feed may name and what may be installed
  NotAVersion,  \* a tag that is none
  Overflow,   \* of Atoi: no number, or too large for one
  Lifetime,   \* cacheLifetime, 24 hours
  RequestTime,  \* Timeout of the Client, 2 seconds
  MaxTime,    \* the bound of the clock, and
  MaxSetBack, \* of how far it is set back
  Nothing

ASSUME UpdateAssumption ==
  Lifetime \in Nat /\ RequestTime \in Nat /\ MaxTime \in Nat /\ MaxSetBack \in Nat

Identifiers ==
  UNION {{v.pre[i] : i \in DOMAIN v.pre} : v \in Versions \ {NotAVersion}}

\* What is true of texts: the order of strings tells them apart, and digits
\* without a leading zero are the only way to write their number.
ASSUME IdentifierAssumption ==
  /\ Overflow \notin Int
  /\ Identifiers \subseteq [rank : Int, atoi : Int \cup {Overflow},
                            digits : BOOLEAN, zeroLed : BOOLEAN]
  /\ \A x, y \in Identifiers :
       \/ x.rank = y.rank
       \/ /\ x.digits /\ ~x.zeroLed /\ y.digits /\ ~y.zeroLed
          /\ x.atoi = y.atoi /\ x.atoi # Overflow
       => x = y

ASSUME VersionAssumption ==
  \A v \in Versions \ {NotAVersion} :
    v \in [core : [1..3 -> Nat], pre : Seq(Identifiers)]

VARIABLES
  now,        \* the wall clock, and
  back,       \* by how much it was set back so far
  names,      \* the releases there are in this behaviour
  feed,       \* the latest release
  installed,  \* the version of the executable
  were,       \* what was installed before
  cache,      \* the file, or Nothing
  check, answer, offer,  \* of each process
  since       \* history: for how long each version has not been the latest

updateVars ==
  <<now, back, names, feed, installed, were, cache, check, answer, offer, since>>

(***************************************************************************)
(* parseVersion and compareVersions.  -1, 0, 1.                            *)
(***************************************************************************)
ValidPrerelease(pre) ==
  \A i \in DOMAIN pre : ~(pre[i].digits /\ pre[i].zeroLed)

ParseVersion(v) == v # NotAVersion /\ ValidPrerelease(v.pre)

\* Atoi also reads a hyphen and digits: "-1" counts as a number.
Numeric(id) == ~id.zeroLed /\ id.atoi # Overflow

Sign(x, y) == IF x > y THEN 1 ELSE -1

\* The first place where two sequences differ, or 0.
FirstDifference(s, t) ==
  LET D == {i \in DOMAIN s \cap DOMAIN t : s[i] # t[i]} IN
  IF D = {} THEN 0 ELSE CHOOSE i \in D : \A j \in D : i <= j

\* Mutant: a number and a text are compared as strings.
CompareTexts(x, y) ==
  IF Numeric(x) /\ Numeric(y) /\ x.atoi # y.atoi
    THEN Sign(x.atoi, y.atoi)
    ELSE Sign(x.rank, y.rank)

CompareIdentifiers(x, y) ==
  IF Numeric(x) /\ Numeric(y) /\ x.atoi # y.atoi
    THEN Sign(x.atoi, y.atoi)
    ELSE IF Numeric(x) # Numeric(y)
      THEN IF Numeric(x) THEN -1 ELSE 1
      ELSE Sign(x.rank, y.rank)

\* Mutant: a prerelease is newer than its release.
LongerWins(left, right) ==
  IF left = right THEN 0
  ELSE LET i == FirstDifference(left, right) IN
       IF i > 0 THEN CompareIdentifiers(left[i], right[i])
       ELSE Sign(Len(left), Len(right))

ComparePrerelease(left, right) ==
  IF left = right THEN 0
  ELSE IF left = <<>> THEN 1
  ELSE IF right = <<>> THEN -1
  ELSE LET i == FirstDifference(left, right) IN
       IF i > 0 THEN CompareIdentifiers(left[i], right[i])
       ELSE Sign(Len(left), Len(right))

CompareVersions(left, right) ==
  IF ~ParseVersion(left) \/ ~ParseVersion(right) THEN 0
  ELSE LET i == FirstDifference(left.core, right.core) IN
       IF i > 0 THEN Sign(left.core[i], right.core[i])
       ELSE ComparePrerelease(left.pre, right.pre)

(***************************************************************************)
(* Check.  The result goes to the user; failures are not told and not      *)
(* cached.                                                                 *)
(***************************************************************************)
Cached(version, at) == [version |-> version, at |-> at]

\* A clock that was set back to before the check makes its result useless until
\* that time comes again; one set back by less lets it be used for longer.
Fresh == cache # Nothing /\ now - cache.at >= 0 /\ now - cache.at < Lifetime

UpdateAvailable(release) == CompareVersions(release.version, installed) > 0

Ends(p, release) ==
  /\ check' = [check EXCEPT ![p] = "ended"]
  /\ offer' = [offer EXCEPT ![p] =
       IF UpdateAvailable(release) THEN release.version ELSE Nothing]

EndsSilently(p) ==
  /\ check' = [check EXCEPT ![p] = "ended"]
  /\ offer' = [offer EXCEPT ![p] = Nothing]

UseCache(p) ==
  /\ check[p] = "none"
  /\ ParseVersion(installed)
  /\ Fresh
  /\ Ends(p, cache)
  /\ UNCHANGED <<now, back, names, feed, installed, were, cache, answer, since>>

\* With --force the cache is not read.
Ask(p, force) ==
  /\ check[p] = "none"
  /\ ParseVersion(installed)
  /\ force \/ ~Fresh
  /\ check' = [check EXCEPT ![p] = "asking"]
  /\ UNCHANGED <<now, back, names, feed, installed, were, cache, answer, offer, since>>

\* An executable that is no release does not ask.
Refuses(p) ==
  /\ check[p] = "none"
  /\ ~ParseVersion(installed)
  /\ EndsSilently(p)
  /\ UNCHANGED <<now, back, names, feed, installed, were, cache, answer, since>>

\* Mutant: the tag of the release is taken as it is.
TagAsItIs(p) ==
  /\ check[p] = "asking"
  /\ answer' = [answer EXCEPT ![p] = Cached(feed, now)]
  /\ check' = [check EXCEPT ![p] = "received"]
  /\ UNCHANGED <<now, back, names, feed, installed, were, cache, offer, since>>

\* What the server answers is decided there and then; the time with it is when.
FeedAnswers(p) ==
  /\ check[p] = "asking"
  /\ ParseVersion(feed)
  /\ answer' = [answer EXCEPT ![p] = Cached(feed, now)]
  /\ check' = [check EXCEPT ![p] = "received"]
  /\ UNCHANGED <<now, back, names, feed, installed, were, cache, offer, since>>

\* CheckedAt is read when the answer has come and is decoded, in RequestTime.
Stamp(p) ==
  /\ check[p] = "received"
  /\ now - answer[p].at <= RequestTime
  /\ answer' = [answer EXCEPT ![p] = Cached(answer[p].version, now)]
  /\ check' = [check EXCEPT ![p] = "answered"]
  /\ UNCHANGED <<now, back, names, feed, installed, were, cache, offer, since>>

\* The answer is no version, does not come in time, or is an error.
FeedFails(p) ==
  /\ check[p] \in {"asking", "received"}
  /\ EndsSilently(p)
  /\ answer' = [answer EXCEPT ![p] = Nothing]
  /\ UNCHANGED <<now, back, names, feed, installed, were, cache, since>>

\* Mutant: the time of the check is that of the write.
WriteNow(p) ==
  /\ check[p] = "answered"
  /\ cache' = Cached(answer[p].version, now)
  /\ Ends(p, answer[p])
  /\ answer' = [answer EXCEPT ![p] = Nothing]
  /\ UNCHANGED <<now, back, names, feed, installed, were, since>>

WriteCache(p) ==
  /\ check[p] = "answered"
  /\ cache' = answer[p]
  /\ Ends(p, answer[p])
  /\ answer' = [answer EXCEPT ![p] = Nothing]
  /\ UNCHANGED <<now, back, names, feed, installed, were, since>>

WriteFails(p) ==
  /\ check[p] = "answered"
  /\ EndsSilently(p)
  /\ answer' = [answer EXCEPT ![p] = Nothing]
  /\ UNCHANGED <<now, back, names, feed, installed, were, cache, since>>

\* The user installs what was offered; no process of the old version is left.
Upgrade(p) ==
  /\ \A q \in Checkers \ {p} : check[q] = "none"
  /\ check[p] = "ended" /\ offer[p] # Nothing
  /\ were' = were \cup {installed}
  /\ installed' = offer[p]
  /\ check' = [check EXCEPT ![p] = "none"]
  /\ offer' = [offer EXCEPT ![p] = Nothing]
  /\ UNCHANGED <<now, back, names, feed, cache, answer, since>>

\* The next process starts.
Forget(p) ==
  /\ check[p] = "ended"
  /\ check' = [check EXCEPT ![p] = "none"]
  /\ offer' = [offer EXCEPT ![p] = Nothing]
  /\ UNCHANGED <<now, back, names, feed, installed, were, cache, answer, since>>

(***************************************************************************)
(* The world: the feed names any of its releases, newer or not.  An hour   *)
(* passes also while a process has yet to write its answer.                *)
(***************************************************************************)
Release(v) ==
  /\ v # feed
  /\ feed' = v
  /\ since' = [since EXCEPT ![v] = 0]
  /\ UNCHANGED <<now, back, names, installed, were, cache, check, answer, offer>>

\* The history stops at the longest time that a property asks about.
LongAgo == Lifetime + RequestTime + MaxSetBack

Tick ==
  /\ now < MaxTime
  /\ now' = now + 1
  /\ since' = [v \in Versions |->
       IF v = feed THEN 0 ELSE IF since[v] < LongAgo THEN since[v] + 1 ELSE LongAgo]
  /\ UNCHANGED <<back, names, feed, installed, were, cache, check, answer, offer>>

\* Somebody sets the clock back.
SetBack ==
  /\ now > 0 /\ back < MaxSetBack
  /\ now' = now - 1 /\ back' = back + 1
  /\ UNCHANGED <<names, feed, installed, were, cache, check, answer, offer, since>>

UpdateInit ==
  /\ now = 0 /\ back = 0
  /\ names \in SUBSET Versions
  /\ feed \in names
  /\ installed \in names
  /\ were = {}
  /\ cache = Nothing
  /\ check = [p \in Checkers |-> "none"]
  /\ answer = [p \in Checkers |-> Nothing]
  /\ offer = [p \in Checkers |-> Nothing]
  /\ since = [v \in Versions |-> IF v = feed THEN 0 ELSE LongAgo]

Process(p) ==
  \/ UseCache(p) \/ Refuses(p) \/ \E force \in BOOLEAN : Ask(p, force)
  \/ FeedAnswers(p) \/ Stamp(p) \/ FeedFails(p) \/ WriteCache(p) \/ WriteFails(p)
  \/ Upgrade(p) \/ Forget(p)

UpdateNext ==
  \/ \E p \in Checkers : Process(p)
  \/ \E v \in names : Release(v)
  \/ Tick \/ SetBack

UpdateSpec == UpdateInit /\ [][UpdateNext]_updateVars

-----------------------------------------------------------------------------
Releases == [version : {v \in Versions : ParseVersion(v)}, at : 0..MaxTime]

UpdateTypeOK ==
  /\ now \in 0..MaxTime /\ back \in 0..MaxSetBack
  /\ names \in SUBSET Versions /\ feed \in names /\ installed \in names
  /\ were \in SUBSET names
  /\ cache \in Releases \cup {Nothing}
  /\ check \in [Checkers -> {"none", "asking", "received", "answered", "ended"}]
  /\ answer \in [Checkers -> Releases \cup {Nothing}]
  /\ offer \in [Checkers -> Versions \cup {Nothing}]
  /\ since \in [Versions -> 0..LongAgo]

\* Semantic Versioning 2.0.0, section 11, for identifiers on which Atoi and that
\* document agree about what is a number.
Plain(v) ==
  v # NotAVersion /\ \A i \in DOMAIN v.pre : v.pre[i].digits <=> v.pre[i].atoi # Overflow

IdentifierPrecedes(x, y) ==
  \/ x.digits /\ y.digits /\ x.atoi < y.atoi
  \/ x.digits /\ ~y.digits
  \/ ~x.digits /\ ~y.digits /\ x.rank < y.rank

AgreeUpTo(s, t, n) == \A i \in 1..n : s[i] = t[i]

Precedes(v, w) ==
  \/ \E i \in 1..3 : AgreeUpTo(v.core, w.core, i - 1) /\ v.core[i] < w.core[i]
  \/ /\ v.core = w.core
     /\ \/ v.pre # <<>> /\ w.pre = <<>>
        \/ /\ v.pre # <<>> /\ Len(v.pre) < Len(w.pre)
           /\ AgreeUpTo(v.pre, w.pre, Len(v.pre))
        \/ \E i \in DOMAIN v.pre \cap DOMAIN w.pre :
             AgreeUpTo(v.pre, w.pre, i - 1) /\ IdentifierPrecedes(v.pre[i], w.pre[i])

\* checker.go:211: what is offered is newer than what is installed.
OfferIsNewer ==
  \A p \in Checkers :
    offer[p] # Nothing /\ Plain(offer[p]) /\ Plain(installed)
      => Precedes(installed, offer[p])

\* checker.go:124, cli/updates.go:88: the other way round, a process that has a newer
\* version from the cache, or from an answer that it wrote there, does offer it.
NewerIsOffered ==
  [][\A p \in Checkers :
       /\ check[p] # "ended" /\ check'[p] = "ended"
       /\ check[p] = "none" \/ cache' # cache
       /\ ParseVersion(installed) /\ Plain(installed)
       /\ Plain(cache'.version) /\ Precedes(installed, cache'.version)
       => offer'[p] = cache'.version]_updateVars

\* checker.go:255-301: whatever the feed names in whatever order, and also where
\* an identifier counts as a number that is none, who takes every offer never
\* gets back to a version he had.
OffersNeverCycle == installed \notin were

\* checker.go:75, 113: a cache that is used names a version that was the latest
\* within the last Lifetime and the time of a request, whichever process wrote it,
\* and however late, and also where the clock was set back, but for by how much.
CacheNotStale ==
  cache # Nothing /\ Fresh => since[cache.version] < Lifetime + RequestTime + back
=============================================================================
