----------------------------- MODULE AuditJournal -----------------------------
(***************************************************************************)
(* The audit journal: auditStore in internal/daemon/audit.go, recordLocked *)
(* of service.go, and what of a lease's life goes into it.                 *)
(*                                                                         *)
(* Everything is recorded under mu, one event and one save at a time: a    *)
(* handler that ends three leases saves three times, and the process may   *)
(* die between two of them.  The error of a save is ignored.  When the     *)
(* service is closed it clears its leases without a record, and the        *)
(* process goes on: handlers that Shutdown no longer waits for may still   *)
(* grant, end and record.                                                  *)
(***************************************************************************)
EXTENDS Integers, Sequences, FiniteSets

CONSTANTS
  JournalLeases,       \* lease IDs; each is drawn once
  NoLease,
  MaximumAuditEvents,  \* 200 in the code
  MaxEvents            \* the bound of the history

ASSUME JournalAssumption ==
  /\ MaximumAuditEvents \in Nat \ {0}
  /\ MaxEvents \in Nat
  /\ NoLease \notin JournalLeases

VARIABLES
  process,  \* "up", "closed" or "down"
  live,     \* the leases in memory
  todo,     \* what the handler that holds mu has yet to clear and to record
  events,   \* the journal in memory
  file,     \* audit.json
  history,  \* every event that is not lost, oldest first
  saved,    \* how many of them there were when the file was written
  cleared   \* how many there were when memory last lost all leases unrecorded

journalVars ==
  <<process, live, todo, events, file, history, saved, cleared>>

Endings == {"revoked", "expired"}
Kinds == Endings \cup {"granted", "other"}
Events == [kind : Kinds, lease : JournalLeases \cup {NoLease}]

Event(kind, l) == [kind |-> kind, lease |-> l]
\* Consumers that start and end, and everything that happens to profiles.
Other == Event("other", NoLease)

\* Mutant: the newest events are the ones cut off.
Oldest(s) ==
  IF Len(s) > MaximumAuditEvents THEN SubSeq(s, 1, MaximumAuditEvents) ELSE s

Newest(s) ==
  IF Len(s) > MaximumAuditEvents
    THEN SubSeq(s, Len(s) - MaximumAuditEvents + 1, Len(s))
    ELSE s

Ended(l) == \E i \in DOMAIN history : /\ history[i].lease = l
                                      /\ history[i].kind \in Endings
Granted(l) == \E i \in DOMAIN history : history[i] = Event("granted", l)

(***************************************************************************)
(* Handlers.  Each is one critical section of mu: what it will record is   *)
(* fixed when it starts.                                                   *)
(***************************************************************************)
Enter(section) ==
  /\ process # "down"
  /\ todo = <<>>
  /\ Len(history) + Len(section) <= MaxEvents
  /\ todo' = section
  /\ UNCHANGED <<process, live, events, file, history, saved, cleared>>

\* A lease for a consumer that is new, that is known, or that has a lease of
\* the profile, which is replaced.
Grant(l) ==
  /\ l \notin live /\ ~Granted(l) /\ ~Ended(l)
  /\ \/ Enter(<<Other, Event("granted", l)>>)
     \/ Enter(<<Event("granted", l)>>)
     \/ \E old \in live : Enter(<<Event("revoked", old), Event("granted", l)>>)

\* One lease ends.
End(l, kind) == Enter(<<Event(kind, l)>>)

\* A consumer ends with all its leases (two here); the order is a Go map's.
EndConsumer(l, m, kind) ==
  /\ l # m
  /\ Enter(<<Event(kind, l), Event(kind, m), Other>>)

RecordOther == Enter(<<Other>>)

(***************************************************************************)
(* recordLocked, with the change of the leases that goes before it.        *)
(***************************************************************************)
\* Mutants: the map keeps an ended lease; a grant makes the consumer's map of
\* leases anew.
KeepsEnded(e) == IF e.kind = "granted" THEN live \cup {e.lease} ELSE live
MapMadeAnew(e) == IF e.kind = "granted" THEN {e.lease} ELSE live \ {e.lease}

LiveAfter(e) ==
  IF e.kind = "granted" THEN live \cup {e.lease} ELSE live \ {e.lease}

\* Mutant: a failed save is not made good by the next one.
SaveNewOnly(e) ==
  \/ file' = Newest(Append(file, e)) /\ saved' = Len(history) + 1
  \/ UNCHANGED <<file, saved>>

\* save writes all that is in memory to a temporary file and renames it; what
\* was there stays when anything of this fails.
Save(e) ==
  \/ file' = Newest(Append(events, e)) /\ saved' = Len(history) + 1
  \/ UNCHANGED <<file, saved>>

RecordLocked ==
  /\ todo # <<>>
  /\ LET e == Head(todo) IN
       /\ live' = LiveAfter(e)
       /\ history' = Append(history, e)
       /\ events' = Newest(Append(events, e))
       /\ Save(e)
  /\ todo' = Tail(todo)
  /\ UNCHANGED <<process, cleared>>

(***************************************************************************)
(* The process.  Close waits for mu, its end does not; what was not saved  *)
(* is lost with it.                                                        *)
(***************************************************************************)
ServiceClose ==
  /\ process = "up"
  /\ todo = <<>>
  /\ process' = "closed"
  /\ live' = {}
  /\ cleared' = Len(history)
  /\ UNCHANGED <<todo, events, file, history, saved>>

\* The last deferred call has returned, or a crash.
Dies ==
  /\ process # "down"
  /\ process' = "down"
  /\ live' = {}
  /\ todo' = <<>>
  /\ events' = <<>>
  /\ history' = SubSeq(history, 1, saved)
  /\ UNCHANGED <<file, saved, cleared>>

\* Mutant: the journal starts empty.
StartAfresh ==
  /\ process = "down"
  /\ process' = "up"
  /\ events' = <<>>
  /\ cleared' = Len(history)
  /\ UNCHANGED <<live, todo, file, history, saved>>

NewService ==
  /\ process = "down"
  /\ process' = "up"
  /\ events' = file
  /\ cleared' = Len(history)
  /\ UNCHANGED <<live, todo, file, history, saved>>

JournalInit ==
  /\ process = "down"
  /\ live = {}
  /\ todo = <<>>
  /\ events = <<>>
  /\ file = <<>>
  /\ history = <<>>
  /\ saved = 0
  /\ cleared = 0

JournalNext ==
  \/ \E l \in JournalLeases : Grant(l)
  \/ \E l \in live, kind \in Endings : End(l, kind)
  \/ \E l, m \in live, kind \in Endings : EndConsumer(l, m, kind)
  \/ RecordOther
  \/ RecordLocked
  \/ ServiceClose \/ Dies
  \/ NewService

JournalSpec == JournalInit /\ [][JournalNext]_journalVars

-----------------------------------------------------------------------------
JournalTypeOK ==
  /\ process \in {"up", "closed", "down"}
  /\ live \in SUBSET JournalLeases
  /\ todo \in Seq(Events)
  /\ events \in Seq(Events)
  /\ file \in Seq(Events)
  /\ history \in Seq(Events)
  /\ saved \in 0..Len(history)
  /\ cleared \in Nat

\* audit.go:44, service.go:702: memory holds the newest events there are, and
\* the file the newest there were when a save last worked.  A failed save loses
\* nothing that the next one does not write, a restart loses only what came
\* after the last one, and neither reorders or repeats an event.
JournalIsWindow ==
  /\ file = Newest(SubSeq(history, 1, saved))
  /\ process # "down" => events = Newest(history)

\* service.go:618-675: a lease ends once, after it was granted, whatever saves
\* failed and wherever the process died.
EndsOnce ==
  \A i, j \in DOMAIN history :
    /\ history[i].lease = history[j].lease
    /\ history[i].kind \in Endings
    => IF history[j].kind = "granted" THEN j < i
       ELSE history[j].kind \in Endings => i = j

\* service.go:86-91, 231-262, 618-675: as long as the process lives, the journal
\* tells which leases do: those granted since the process started, or since
\* Close if that was later, whose end is not recorded.  No other lease lives
\* in memory, and none is gone without a record, whoever replaced, revoked or
\* expired it, before Close and in the handlers that outlive it.
LivesUntilRecorded ==
  process # "down" =>
    live = {l \in JournalLeases :
              /\ \E i \in (cleared + 1)..Len(history) :
                   history[i] = Event("granted", l)
              /\ ~Ended(l)}
=============================================================================
