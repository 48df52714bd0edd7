---------------------- MODULE KeySessionService_proofs ----------------------
(***************************************************************************)
(* Proofs about KeySessionService, for every value of its constants.       *)
(***************************************************************************)
EXTENDS KeySessionService, TLAPS

(***************************************************************************)
(* Handlers: the locals each step assigns are well formed.                 *)
(***************************************************************************)
LEMMA IdleIsWellFormed == Idle \in HandlerRecords
BY NoneAssumption DEF Idle, HandlerRecords, Locals, Stages, Locked, GrantStages, Entries

\* A handler of the type invariant may be given well-formed locals.
LEMMA HandlerStep ==
  ASSUME handler \in [Handlers -> HandlerRecords],
         NEW h \in Handlers, NEW g \in HandlerRecords,
         handler' = [handler EXCEPT ![h] = g]
  PROVE  handler' \in [Handlers -> HandlerRecords]
OBVIOUS

LEMMA ReturnStep ==
  ASSUME handler \in [Handlers -> HandlerRecords], NEW h \in Handlers, Return(h)
  PROVE  handler' \in [Handlers -> HandlerRecords]
BY IdleIsWellFormed DEF Return

\* expireLocked only removes.
LEMMA ExpireShrinks ==
  ASSUME NEW t, ExpireLocked(t)
  PROVE  consumers' \subseteq consumers /\ leases' \subseteq leases
BY DEF ExpireLocked, LiveConsumers, LiveLeases

-----------------------------------------------------------------------------
LEMMA InitTypeOK == Init => TypeOK
BY IdleIsWellFormed DEF Init, TypeOK

LEMMA GrantTypeOK ==
  ASSUME TypeOK, NEW h \in Handlers, Grant(h)
  PROVE  TypeOK'
<1>1. ASSUME NEW c \in Capabilities,
             NEW d \in MinimumConsumerDuration .. MaximumConsumerDuration,
             GrantNewConsumer(h, c, d)
      PROVE  TypeOK'
  <2>1. now + d \in Nat
    BY DurationAssumption DEF TypeOK
  <2>2. [Idle EXCEPT !.at = "waiting", !.cap = c, !.new = TRUE,
                     !.until = now + d] \in HandlerRecords
    BY <2>1, IdleIsWellFormed
    DEF HandlerRecords, Locals, Stages, Locked, GrantStages
  <2>3. handler' \in [Handlers -> HandlerRecords]
    BY <1>1, <2>2 DEF GrantNewConsumer, TypeOK
  <2> QED
    BY <1>1, <2>3 DEF GrantNewConsumer, TypeOK, disk, memory
<1>2. ASSUME NEW s \in consumers, GrantToConsumer(h, s)
      PROVE  TypeOK'
  <2>1. [Idle EXCEPT !.at = "waiting", !.cap = s.cap,
                     !.until = s.expiresAt] \in HandlerRecords
    BY IdleIsWellFormed
    DEF TypeOK, ConsumerRecords, HandlerRecords, Locals, Stages, Locked,
        GrantStages
  <2>2. handler' \in [Handlers -> HandlerRecords]
    BY <1>2, <2>1 DEF GrantToConsumer, TypeOK
  <2> QED
    BY <1>2, <2>2, ExpireShrinks DEF GrantToConsumer, TypeOK, disk
<1>3. ASSUME NEW p \in Profiles, NEW d \in MinimumLease .. MaximumLease,
             GrantPrompt(h, p, d)
      PROVE  TypeOK'
  <2> DEFINE n == Earlier(d, handler[h].until - now)
  <2>1. n \in Nat
    BY <1>3, DurationAssumption
    DEF GrantPrompt, EnoughRemains, Earlier, TypeOK, HandlerRecords, Locals
  <2>2. handler[h] \in HandlerRecords /\ config[p] \in Entries
    BY DEF TypeOK
  <2>3. handler[h].cap \in Capabilities
    BY <1>3, <2>2 DEF GrantPrompt, At, HandlerRecords, GrantStages
  <2> HIDE DEF n
  <2>4. [handler[h] EXCEPT !.at = "granting", !.profile = p,
           !.entry = config[p], !.duration = n] \in HandlerRecords
    BY <2>1, <2>2, <2>3 DEF HandlerRecords, Locals, Stages, Locked
  <2>5. handler' \in [Handlers -> HandlerRecords]
    BY <1>3, <2>4 DEF GrantPrompt, Lock, TypeOK, n
  <2> QED
    BY <1>3, <2>5 DEF GrantPrompt, Lock, TypeOK, disk, memory
<1>4. CASE GrantRefused(h)
  BY <1>4, ReturnStep DEF GrantRefused, TypeOK, disk, memory
<1>5. CASE GrantApproved(h)
  <2>1. handler[h] \in HandlerRecords /\ now \in Nat
    BY DEF TypeOK
  <2>2. /\ handler[h].at = "granting"
        /\ keychain[handler[h].profile] # None
    BY <1>5 DEF GrantApproved, At
  <2>3. keychain[handler[h].profile] \in Secrets
    BY <2>1, <2>2 DEF TypeOK, HandlerRecords, Locked
  <2>4. [handler[h] EXCEPT !.at = "approved", !.readAt = now,
           !.secret = keychain[handler[h].profile]] \in HandlerRecords
    BY <2>1, <2>2, <2>3
    DEF HandlerRecords, Locals, Stages, Locked, GrantStages
  <2>5. handler' \in [Handlers -> HandlerRecords]
    BY <1>5, <2>4 DEF GrantApproved, TypeOK
  <2> QED
    BY <1>5, <2>5 DEF GrantApproved, TypeOK, disk, memory
<1>6. CASE GrantDenied(h)
  BY <1>6, ReturnStep DEF GrantDenied, Unlock, TypeOK, disk, memory
<1>7. ASSUME NEW id \in LeaseIds, GrantCommit(h, id)
      PROVE  TypeOK'
  <2> DEFINE g == handler[h]
  <2>1. /\ g \in Locals /\ g.profile \in Profiles /\ g.cap \in Capabilities
        /\ g.secret \in Secrets
    BY <1>7
    DEF GrantCommit, At, TypeOK, HandlerRecords, Locked, GrantStages
  <2>2. Earlier(g.readAt + g.duration, g.until) \in Nat
    BY <2>1 DEF Locals, Earlier
  <2>3. LeaseOf(g, id) \in LeaseRecords
    BY <2>1, <2>2 DEF LeaseOf, LeaseRecords, Locals
  <2>4. leases' \subseteq LeaseRecords
    BY <1>7, <2>3 DEF GrantCommit, LiveLeases, TypeOK
  <2>5. [cap |-> g.cap, createdAt |-> g.readAt, expiresAt |-> g.until]
          \in ConsumerRecords
    BY <2>1 DEF ConsumerRecords, Locals
  <2>6. consumers' \subseteq ConsumerRecords
    BY <1>7, <2>5 DEF GrantCommit, CommitConsumers, LiveConsumers, TypeOK
  <2>7. handler' \in [Handlers -> HandlerRecords]
    BY <1>7, ReturnStep DEF GrantCommit, Unlock, TypeOK
  <2> QED
    BY <1>7, <2>4, <2>6, <2>7 DEF GrantCommit, Unlock, TypeOK, disk
<1>8. CASE GrantOrphaned(h)
  <2>1. handler' \in [Handlers -> HandlerRecords]
    BY <1>8, ReturnStep DEF GrantOrphaned, Unlock, TypeOK
  <2>2. consumers' \subseteq consumers /\ leases' \subseteq leases
    BY <1>8, ExpireShrinks DEF GrantOrphaned
  <2> QED
    BY <1>8, <2>1, <2>2 DEF GrantOrphaned, Unlock, TypeOK, disk
<1> QED
  BY <1>1, <1>2, <1>3, <1>4, <1>5, <1>6, <1>7, <1>8 DEF Grant

LEMMA UseTypeOK ==
  ASSUME TypeOK, NEW h \in Handlers, Use(h)
  PROVE  TypeOK'
<1>1. ASSUME NEW c \in Capabilities, NEW id \in LeaseIds, Execute(h, c, id)
      PROVE  TypeOK'
  <2>1. PICK l \in LiveLeases(now) :
          handler' = [handler EXCEPT ![h] =
            [Idle EXCEPT !.at = "copied", !.secret = l.secret]]
    BY <1>1 DEF Execute
  <2>2. l \in LeaseRecords
    BY DEF LiveLeases, TypeOK
  <2>3. [Idle EXCEPT !.at = "copied", !.secret = l.secret] \in HandlerRecords
    BY <2>2, IdleIsWellFormed
    DEF LeaseRecords, HandlerRecords, Locals, Stages, Locked, GrantStages
  <2>4. handler' \in [Handlers -> HandlerRecords]
    BY <2>1, <2>3 DEF TypeOK
  <2>5. consumers' \subseteq consumers /\ leases' \subseteq leases
    BY <1>1, ExpireShrinks DEF Execute
  <2> QED
    BY <1>1, <2>4, <2>5 DEF Execute, TypeOK, disk
<1>2. CASE StartChild(h)
  <2>1. [handler[h] EXCEPT !.at = "running"] \in HandlerRecords
    BY DEF TypeOK, HandlerRecords, Locals, Stages, Locked, GrantStages
  <2>2. handler' \in [Handlers -> HandlerRecords]
    BY <1>2, <2>1 DEF StartChild, TypeOK
  <2> QED
    BY <1>2, <2>2 DEF StartChild, TypeOK, disk, memory
<1>3. CASE ExecuteReturns(h)
  BY <1>3, ReturnStep DEF ExecuteReturns, TypeOK, disk, memory
<1> QED
  BY <1>1, <1>2, <1>3 DEF Use

\* What a failed Store or Save leaves is well typed.
LEMMA FailureTypes ==
  ASSUME TypeOK, NEW p \in Profiles, NEW entry \in Entries
  PROVE  /\ ItemsAfterFailedStore(p)
              \subseteq [Profiles -> Secrets \cup {None}]
         /\ ConfigsAfterFailedSave(p, entry) \subseteq [Profiles -> Entries]
         /\ {l.id : l \in LeasesOf(p)} \subseteq LeaseIds
BY DEF ItemsAfterFailedStore, ConfigsAfterFailedSave, LeasesOf, LeaseRecords,
       TypeOK

LEMMA StoreTypeOK ==
  ASSUME TypeOK, NEW h \in Handlers, Store(h)
  PROVE  TypeOK'
<1>1. ASSUME NEW p \in Profiles, NEW s \in Secrets, NEW entry \in Entries,
             StoreItem(h, p, entry, s)
      PROVE  TypeOK'
  <2>1. [Idle EXCEPT !.at = "saving", !.profile = p, !.entry = entry]
          \in HandlerRecords
    BY IdleIsWellFormed
    DEF HandlerRecords, Locals, Stages, Locked, GrantStages
  <2>2. handler' \in [Handlers -> HandlerRecords]
    BY <1>1, <2>1 DEF StoreItem, Lock, TypeOK
  <2>3. overwritten' \subseteq LeaseIds
    BY <1>1, FailureTypes DEF StoreItem, KeepLeases, TypeOK
  <2> QED
    BY <1>1, <2>2, <2>3 DEF StoreItem, Lock, TypeOK, memory
<1>2. ASSUME NEW p \in Profiles, NEW s \in Secrets,
             StoreProfile(h, p, s) \/ CreateSSHProfile(h, p, s)
      PROVE  TypeOK'
  BY <1>1, <1>2 DEF StoreProfile, CreateSSHProfile, Entries
<1>3. ASSUME NEW p \in Profiles, StoreItemFails(h, p)
      PROVE  TypeOK'
  <2>1. Unlisted \in Entries
    BY DEF Entries
  <2>2. /\ keychain' \in [Profiles -> Secrets \cup {None}]
        /\ overwritten' \subseteq LeaseIds
    BY <1>3, <2>1, FailureTypes DEF StoreItemFails, KeepLeases, TypeOK
  <2> QED
    BY <1>3, <2>2 DEF StoreItemFails, TypeOK, memory
<1>4. CASE SaveProfile(h) \/ SaveProfileFails(h)
  <2>1. handler[h].profile \in Profiles /\ handler[h].entry \in Entries
    BY <1>4 DEF SaveProfile, SaveProfileFails, At, TypeOK, HandlerRecords,
                Locals, Locked
  <2>2. config' \in [Profiles -> Entries]
    BY <1>4, <2>1 DEF SaveProfile, SaveProfileFails, ConfigsAfterFailedSave,
                      TypeOK
  <2>3. handler' \in [Handlers -> HandlerRecords]
    BY <1>4, ReturnStep DEF SaveProfile, SaveProfileFails, Unlock, TypeOK
  <2> QED
    BY <1>4, <2>2, <2>3 DEF SaveProfile, SaveProfileFails, Unlock, TypeOK,
                            memory
<1> QED
  BY <1>2, <1>3, <1>4 DEF Store

LEMMA ManageTypeOK ==
  ASSUME TypeOK, NEW h \in Handlers, Manage(h)
  PROVE  TypeOK'
<1>1. ASSUME NEW p \in Profiles, BeginProfileManagement(h, p)
      PROVE  TypeOK'
  <2>1. [Idle EXCEPT !.at = "revealing", !.profile = p] \in HandlerRecords
    BY IdleIsWellFormed
    DEF HandlerRecords, Locals, Stages, Locked, GrantStages
  <2>2. handler' \in [Handlers -> HandlerRecords]
    BY <1>1, <2>1 DEF BeginProfileManagement, Lock, TypeOK
  <2> QED
    BY <1>1, <2>2 DEF BeginProfileManagement, Lock, TypeOK, disk, memory
<1>2. ASSUME NEW t \in ManagementTokens, ManagementApproved(h, t)
      PROVE  TypeOK'
  <2>1. handler[h].profile \in Profiles
    BY <1>2 DEF ManagementApproved, At, TypeOK, HandlerRecords, Locked
  <2>2. now + ManagementSessionTTL \in Nat
    BY DurationAssumption DEF TypeOK
  <2>3. sessions' \subseteq SessionRecords
    BY <1>2, <2>1, <2>2
    DEF ManagementApproved, LiveSessions, SessionRecords, TypeOK
  <2>4. handler' \in [Handlers -> HandlerRecords]
    BY <1>2, ReturnStep DEF ManagementApproved, Unlock, TypeOK
  <2> QED
    BY <1>2, <2>3, <2>4 DEF ManagementApproved, Unlock, TypeOK, disk
<1>3. CASE ManagementDenied(h) \/ UpdateRefused(h)
  BY <1>3, ReturnStep
  DEF ManagementDenied, UpdateRefused, LiveSessions, Unlock, TypeOK, disk,
      memory
<1>4. ASSUME NEW s \in sessions, NEW secret \in Secrets,
             UpdateProfile(h, s, secret)
      PROVE  TypeOK'
  <2>1. s.profile \in Profiles
    BY DEF TypeOK, SessionRecords
  <2>2. [Idle EXCEPT !.at = "updating", !.profile = s.profile]
          \in HandlerRecords
    BY <2>1, IdleIsWellFormed
    DEF HandlerRecords, Locals, Stages, Locked, GrantStages
  <2>3. handler' \in [Handlers -> HandlerRecords]
    BY <1>4, <2>2 DEF UpdateProfile, Lock, TypeOK
  <2>4. /\ keychain' \in [Profiles -> Secrets \cup {None}]
        /\ sessions' \subseteq SessionRecords
    BY <1>4, <2>1 DEF UpdateProfile, SpendSession, LiveSessions, TypeOK
  <2> QED
    BY <1>4, <2>3, <2>4 DEF UpdateProfile, Lock, TypeOK
<1>5. ASSUME NEW s \in sessions, UpdateStoreFails(h, s)
      PROVE  TypeOK'
  <2>1. s.profile \in Profiles /\ Unlisted \in Entries
    BY DEF TypeOK, SessionRecords, Entries
  <2>2. /\ keychain' \in [Profiles -> Secrets \cup {None}]
        /\ overwritten' \subseteq LeaseIds
    BY <1>5, <2>1, FailureTypes DEF UpdateStoreFails, KeepLeases, TypeOK
  <2>3. sessions' \subseteq SessionRecords
    BY <1>5 DEF UpdateStoreFails, SpendSession, LiveSessions, TypeOK
  <2> QED
    BY <1>5, <2>2, <2>3 DEF UpdateStoreFails, TypeOK
<1>6. CASE UpdateSaved(h)
  <2>1. handler' \in [Handlers -> HandlerRecords]
    BY <1>6, ReturnStep DEF UpdateSaved, Unlock, TypeOK
  <2> QED
    BY <1>6, <2>1 DEF UpdateSaved, Unlock, LeasesAfterUpdate, TypeOK, disk
<1>7. CASE UpdateSaveFails(h)
  <2>1. handler[h].profile \in Profiles /\ Unlisted \in Entries
    BY <1>7 DEF UpdateSaveFails, At, TypeOK, HandlerRecords, Locked, Entries
  <2>2. overwritten' \subseteq LeaseIds
    BY <1>7, <2>1, FailureTypes DEF UpdateSaveFails, KeepLeases, TypeOK
  <2>3. handler' \in [Handlers -> HandlerRecords]
    BY <1>7, ReturnStep DEF UpdateSaveFails, Unlock, TypeOK
  <2> QED
    BY <1>7, <2>2, <2>3 DEF UpdateSaveFails, Unlock, TypeOK, disk, memory
<1> QED
  BY <1>1, <1>2, <1>3, <1>4, <1>5, <1>6, <1>7 DEF Manage

LEMMA DeleteTypeOK ==
  ASSUME TypeOK, NEW h \in Handlers, Delete(h)
  PROVE  TypeOK'
<1>1. ASSUME NEW p \in Profiles, DeleteProfile(h, p)
      PROVE  TypeOK'
  <2>1. [Idle EXCEPT !.at = "deleting", !.profile = p] \in HandlerRecords
    BY IdleIsWellFormed
    DEF HandlerRecords, Locals, Stages, Locked, GrantStages
  <2>2. handler' \in [Handlers -> HandlerRecords]
    BY <1>1, <2>1 DEF DeleteProfile, Lock, TypeOK
  <2> QED
    BY <1>1, <2>2 DEF DeleteProfile, Lock, TypeOK, disk, memory
<1>2. CASE DeleteApproved(h)
  <2>1. handler[h] \in HandlerRecords /\ handler[h].at = "deleting"
    BY <1>2 DEF DeleteApproved, At, TypeOK
  <2>2. [handler[h] EXCEPT !.at = "deleted"] \in HandlerRecords
    BY <2>1 DEF HandlerRecords, Locals, Stages, Locked, GrantStages
  <2>3. handler' \in [Handlers -> HandlerRecords]
    BY <1>2, <2>2 DEF DeleteApproved, TypeOK
  <2> QED
    BY <1>2, <2>3 DEF DeleteApproved, TypeOK, memory
<1>3. CASE DeleteDenied(h)
  BY <1>3, ReturnStep DEF DeleteDenied, Unlock, TypeOK, disk, memory
<1>4. CASE ClearDeleted(h)
  <2>1. handler[h] \in HandlerRecords /\ handler[h].at = "deleted"
    BY <1>4 DEF ClearDeleted, At, TypeOK
  <2>2. [handler[h] EXCEPT !.at = "unlisting"] \in HandlerRecords
    BY <2>1 DEF HandlerRecords, Locals, Stages, Locked, GrantStages
  <2>3. handler' \in [Handlers -> HandlerRecords]
    BY <1>4, <2>2 DEF ClearDeleted, TypeOK
  <2> QED
    BY <1>4, <2>3 DEF ClearDeleted, SessionsAfterDelete, TypeOK, disk
<1>5. CASE Unlist(h) \/ UnlistFails(h)
  <2>1. handler[h].profile \in Profiles /\ Unlisted \in Entries
    BY <1>5 DEF Unlist, UnlistFails, At, TypeOK, HandlerRecords, Locked,
                Entries
  <2>2. config' \in [Profiles -> Entries]
    BY <1>5, <2>1 DEF Unlist, UnlistFails, ConfigsAfterFailedSave, TypeOK
  <2>3. handler' \in [Handlers -> HandlerRecords]
    BY <1>5, ReturnStep DEF Unlist, UnlistFails, Unlock, TypeOK
  <2> QED
    BY <1>5, <2>2, <2>3 DEF Unlist, UnlistFails, Unlock, TypeOK, memory
<1> QED
  BY <1>1, <1>2, <1>3, <1>4, <1>5 DEF Delete

LEMMA EndOfAccessTypeOK ==
  ASSUME TypeOK, EndOfAccess
  PROVE  TypeOK'
<1>1. CASE Lookup
  BY <1>1, ExpireShrinks DEF Lookup, TypeOK, disk
<1>2. CASE Snapshot
  BY <1>2, ExpireShrinks DEF Snapshot, LiveSessions, TypeOK, disk
<1>3. ASSUME NEW c \in Capabilities, NEW id \in LeaseIds \cup {None},
             Revoke(c, id) \/ AdminRevoke(c, id)
      PROVE  TypeOK'
  BY <1>3 DEF Revoke, AdminRevoke, EndAccess, LiveConsumers, LiveLeases,
              TypeOK, disk
<1>4. ASSUME NEW s \in sessions, EndProfileManagement(s)
      PROVE  TypeOK'
  BY <1>4 DEF EndProfileManagement, TypeOK, disk
<1> QED
  BY <1>1, <1>2, <1>3, <1>4 DEF EndOfAccess

LEMMA ProcessTypeOK ==
  ASSUME TypeOK, Process
  PROVE  TypeOK'
<1>1. CASE Tick
  BY <1>1 DEF Tick, TypeOK, disk, memory
<1>2. ASSUME NEW t \in SweepTimes, Sweep(t)
      PROVE  TypeOK'
  BY <1>2, ExpireShrinks DEF Sweep, LiveSessions, TypeOK, disk
<1>3. CASE Shutdown \/ Close \/ Restart
  BY <1>3 DEF Shutdown, Close, Restart, TypeOK, disk, memory
<1>4. CASE Exit \/ Crash
  BY <1>4, IdleIsWellFormed DEF Exit, Crash, Gone, TypeOK, disk
<1> QED
  BY <1>1, <1>2, <1>3, <1>4 DEF Process

LEMMA StepTypeOK == TypeOK /\ [Next]_vars => TypeOK'
<1> SUFFICES ASSUME TypeOK, [Next]_vars
             PROVE  TypeOK'
  OBVIOUS
<1>1. ASSUME NEW h \in Handlers,
             Grant(h) \/ Use(h) \/ Store(h) \/ Manage(h) \/ Delete(h)
      PROVE  TypeOK'
  BY <1>1, GrantTypeOK, UseTypeOK, StoreTypeOK, ManageTypeOK, DeleteTypeOK
<1>2. CASE UNCHANGED vars
  BY <1>2 DEF vars, TypeOK
<1> QED
  BY <1>1, <1>2, EndOfAccessTypeOK, ProcessTypeOK DEF Next

\* The service's variables keep their types, and a handler has the locals its
\* stage uses: a profile while it holds profileMu, a secret once approved.
THEOREM TypeCorrect == Spec => []TypeOK
<1>1. Init => TypeOK
  BY InitTypeOK
<1>2. TypeOK /\ [Next]_vars => TypeOK'
  BY StepTypeOK
<1> QED
  BY <1>1, <1>2, PTL DEF Spec

-----------------------------------------------------------------------------
(***************************************************************************)
(* Who holds access.  LeaseWithinConsumer is not inductive: a commit uses  *)
(* a deadline read before the prompt, and an expiry drops a lease with the *)
(* consumer of the same capability.  It takes that capabilities name one   *)
(* consumer, that the consumer a grant will create is nobody else's, and   *)
(* that the deadline a grant carries is still its consumer's, if that      *)
(* consumer is still there at all.                                         *)
(***************************************************************************)
Granting(h) == handler[h].at \in GrantStages

ConsumersUnique == \A s, r \in consumers : s.cap = r.cap => s = r

IdentifiersDrawn ==
  /\ \A s \in consumers : s.cap \in issued
  /\ \A h \in Handlers : Granting(h) => handler[h].cap \in issued
  /\ \A l \in leases : l.id \in issued

NewConsumerUnseen ==
  \A h \in Handlers : Granting(h) /\ handler[h].new =>
    /\ \A s \in consumers : s.cap # handler[h].cap
    /\ \A i \in Handlers : Granting(i) /\ handler[i].cap = handler[h].cap => i = h

DeadlineKnown ==
  \A h \in Handlers : Granting(h) /\ ~handler[h].new =>
    \A s \in consumers : s.cap = handler[h].cap => s.expiresAt = handler[h].until

LeaseIdsUnique == \A l, m \in leases : l.id = m.id => l = m

AccessInv ==
  /\ ConsumersUnique
  /\ IdentifiersDrawn
  /\ NewConsumerUnseen
  /\ DeadlineKnown
  /\ LeaseIdsUnique
  /\ LeaseWithinConsumer
  /\ OneLeasePerProfile

\* What almost every step does to access: it takes some away, a consumer never
\* without its leases, and starts no grant.
Owned == \A l \in leases : \E s \in consumers : s.cap = l.cap

KeepsGrants ==
  \A i \in Handlers : Granting(i)' =>
    /\ Granting(i)
    /\ handler'[i].cap = handler[i].cap
    /\ handler'[i].new = handler[i].new
    /\ handler'[i].until = handler[i].until

Withdrawal ==
  /\ consumers' \subseteq consumers
  /\ leases' \subseteq leases
  /\ issued \subseteq issued'
  /\ Owned'
  /\ KeepsGrants

LEMMA InitAccessInv == Init => AccessInv
BY DEF Init, AccessInv, ConsumersUnique, IdentifiersDrawn, NewConsumerUnseen,
       DeadlineKnown, LeaseIdsUnique, LeaseWithinConsumer, OneLeasePerProfile,
       Granting, GrantStages, Idle

LEMMA WithdrawalAccessInv ==
  ASSUME AccessInv, Withdrawal
  PROVE  AccessInv'
<1> USE DEF AccessInv, Withdrawal
<1>1. ConsumersUnique'
  BY DEF ConsumersUnique
<1>2. IdentifiersDrawn'
  BY DEF IdentifiersDrawn, KeepsGrants
<1>3. NewConsumerUnseen'
  BY DEF NewConsumerUnseen, KeepsGrants
<1>4. DeadlineKnown'
  BY DEF DeadlineKnown, KeepsGrants
<1>5. LeaseIdsUnique' /\ OneLeasePerProfile'
  BY DEF LeaseIdsUnique, OneLeasePerProfile
<1>6. LeaseWithinConsumer'
  BY DEF LeaseWithinConsumer, Owned, ConsumersUnique
<1> QED
  BY <1>1, <1>2, <1>3, <1>4, <1>5, <1>6

\* Returning handlers and handlers that go on with other work keep the grants.
LEMMA IdleKeepsGrants ==
  ASSUME TypeOK, NEW h \in Handlers, NEW g,
         g.at \notin GrantStages,
         handler' = [handler EXCEPT ![h] = g]
  PROVE  KeepsGrants
BY DEF KeepsGrants, Granting, TypeOK

LEMMA ReturnKeepsGrants ==
  ASSUME TypeOK, NEW h \in Handlers, Return(h)
  PROVE  KeepsGrants
BY IdleKeepsGrants DEF Return, Idle, GrantStages

LEMMA SameHandlersKeepGrants ==
  ASSUME UNCHANGED handler
  PROVE  KeepsGrants
BY DEF KeepsGrants, Granting

\* Expiry takes leases with their consumer.
LEMMA ExpireOwned ==
  ASSUME NEW t, ExpireLocked(t)
  PROVE  Owned'
BY DEF ExpireLocked, LiveLeases, Owned

LEMMA InvOwned == AccessInv => Owned
BY DEF AccessInv, LeaseWithinConsumer, Owned

\* The three steps that start or finish a grant.
LEMMA GrantNewConsumerAccessInv ==
  ASSUME TypeOK, AccessInv, NEW h \in Handlers, NEW c \in Capabilities,
         NEW d, GrantNewConsumer(h, c, d)
  PROVE  AccessInv'
<1>1. /\ consumers' = consumers /\ leases' = leases
      /\ issued' = issued \cup {c} /\ c \notin issued
      /\ handler' = [handler EXCEPT ![h] =
           [Idle EXCEPT !.at = "waiting", !.cap = c, !.new = TRUE,
                        !.until = now + d]]
  BY DEF GrantNewConsumer, memory
<1>2. /\ handler'[h].cap = c /\ handler'[h].new
      /\ \A i \in Handlers \ {h} : handler'[i] = handler[i]
  BY <1>1 DEF TypeOK, Idle
<1>3. ConsumersUnique' /\ LeaseIdsUnique' /\ LeaseWithinConsumer'
      /\ OneLeasePerProfile'
  BY <1>1 DEF AccessInv, ConsumersUnique, LeaseIdsUnique, LeaseWithinConsumer,
              OneLeasePerProfile
<1>4. IdentifiersDrawn'
  BY <1>1, <1>2 DEF AccessInv, IdentifiersDrawn, Granting
<1>5. NewConsumerUnseen'
  BY <1>1, <1>2 DEF AccessInv, NewConsumerUnseen, IdentifiersDrawn, Granting
<1>6. DeadlineKnown'
  BY <1>1, <1>2 DEF AccessInv, DeadlineKnown, Granting
<1> QED
  BY <1>3, <1>4, <1>5, <1>6 DEF AccessInv

LEMMA GrantToConsumerAccessInv ==
  ASSUME TypeOK, AccessInv, NEW h \in Handlers, NEW s \in consumers,
         GrantToConsumer(h, s)
  PROVE  AccessInv'
<1>1. /\ consumers' \subseteq consumers /\ leases' \subseteq leases /\ Owned'
      /\ issued' = issued
      /\ handler' = [handler EXCEPT ![h] =
           [Idle EXCEPT !.at = "waiting", !.cap = s.cap,
                        !.until = s.expiresAt]]
  BY ExpireShrinks, ExpireOwned DEF GrantToConsumer
<1>2. /\ handler'[h].cap = s.cap /\ ~handler'[h].new
      /\ handler'[h].until = s.expiresAt
      /\ \A i \in Handlers \ {h} : handler'[i] = handler[i]
  BY <1>1 DEF TypeOK, Idle
<1>3. ConsumersUnique' /\ LeaseIdsUnique' /\ OneLeasePerProfile'
  BY <1>1 DEF AccessInv, ConsumersUnique, LeaseIdsUnique, OneLeasePerProfile
<1>4. LeaseWithinConsumer'
  BY <1>1 DEF AccessInv, LeaseWithinConsumer, Owned, ConsumersUnique
<1>5. IdentifiersDrawn'
  BY <1>1, <1>2 DEF AccessInv, IdentifiersDrawn, Granting
<1>6. NewConsumerUnseen'
  BY <1>1, <1>2 DEF AccessInv, NewConsumerUnseen, Granting
<1>7. DeadlineKnown'
  BY <1>1, <1>2 DEF AccessInv, DeadlineKnown, ConsumersUnique, Granting
<1> QED
  BY <1>3, <1>4, <1>5, <1>6, <1>7 DEF AccessInv

LEMMA GrantCommitAccessInv ==
  ASSUME TypeOK, AccessInv, NEW h \in Handlers, NEW id \in LeaseIds,
         GrantCommit(h, id)
  PROVE  AccessInv'
<1> DEFINE g == handler[h]
           new == [cap |-> g.cap, createdAt |-> g.readAt,
                   expiresAt |-> g.until]
<1>1. /\ Granting(h) /\ g \in Locals
      /\ id \notin issued /\ issued' = issued \cup {id}
      /\ g.new \/ \E s \in LiveConsumers(g.readAt) : s.cap = g.cap
      /\ consumers' = LiveConsumers(g.readAt)
                        \cup IF g.new THEN {new} ELSE {}
      /\ leases' = {l \in LiveLeases(g.readAt) : ~ReplacedBy(g, l)}
                     \cup {LeaseOf(g, id)}
  BY DEF GrantCommit, At, Granting, GrantStages, TypeOK, HandlerRecords,
         StillHeld, ConsumersOf, CommitConsumers
<1>2. KeepsGrants /\ ~Granting(h)' /\ \A i \in Handlers \ {h} : handler'[i] = handler[i]
  BY ReturnKeepsGrants DEF GrantCommit, Unlock, Return, TypeOK, Granting,
                           GrantStages, Idle
<1>3. PICK s \in consumers' : s.cap = g.cap /\ s.expiresAt = g.until
  <2>1. CASE g.new
    <3>1. new \in consumers'
      BY <1>1, <2>1
    <3>2. new.cap = g.cap /\ new.expiresAt = g.until
      OBVIOUS
    <3> QED
      BY <3>1, <3>2
  <2>2. CASE ~g.new
    BY <1>1, <2>2 DEF AccessInv, DeadlineKnown, LiveConsumers
  <2> QED
    BY <2>1, <2>2
<1>4. ConsumersUnique'
  BY <1>1 DEF AccessInv, ConsumersUnique, NewConsumerUnseen, LiveConsumers
<1>5. IdentifiersDrawn'
  <2>1. g.cap \in issued
    BY <1>1 DEF AccessInv, IdentifiersDrawn
  <2> QED
    BY <1>1, <1>2, <2>1 DEF AccessInv, IdentifiersDrawn, KeepsGrants,
                            LiveConsumers, LiveLeases, LeaseOf
<1>6. NewConsumerUnseen'
  BY <1>1, <1>2 DEF AccessInv, NewConsumerUnseen, KeepsGrants, LiveConsumers
<1>7. DeadlineKnown'
  BY <1>1, <1>2 DEF AccessInv, DeadlineKnown, NewConsumerUnseen, KeepsGrants,
                    LiveConsumers
<1>8. LeaseIdsUnique'
  BY <1>1 DEF AccessInv, LeaseIdsUnique, IdentifiersDrawn, LiveLeases, LeaseOf
<1>9. LeaseWithinConsumer'
  <2>1. Earlier(g.readAt + g.duration, g.until) <= g.until
    BY <1>1 DEF Locals, Earlier
  <2>2. LeaseOf(g, id).cap = s.cap /\ LeaseOf(g, id).expiresAt <= s.expiresAt
    BY <1>3, <2>1 DEF LeaseOf
  <2>3. \A l \in LiveLeases(g.readAt) :
          \E c \in LiveConsumers(g.readAt) :
            c.cap = l.cap /\ l.expiresAt <= c.expiresAt
    BY DEF AccessInv, LeaseWithinConsumer, ConsumersUnique, LiveLeases,
           LiveConsumers
  <2> QED
    BY <1>1, <1>3, <2>2, <2>3 DEF LeaseWithinConsumer
<1>10. OneLeasePerProfile'
  <2>1. LeaseOf(g, id).cap = g.cap /\ LeaseOf(g, id).profile = g.profile
    BY DEF LeaseOf
  <2> QED
    BY <1>1, <2>1 DEF AccessInv, OneLeasePerProfile, LiveLeases, ReplacedBy
<1> QED
  BY <1>4, <1>5, <1>6, <1>7, <1>8, <1>9, <1>10 DEF AccessInv

\* A step that keeps the consumers and drops leases at most.
LEMMA FewerLeasesOwned ==
  ASSUME AccessInv, UNCHANGED consumers, leases' \subseteq leases
  PROVE  Owned'
BY InvOwned DEF Owned

\* Every other step withdraws access, or leaves it alone.
LEMMA GrantAccessInv ==
  ASSUME TypeOK, AccessInv, NEW h \in Handlers, Grant(h)
  PROVE  AccessInv'
<1>1. ASSUME NEW p \in Profiles, NEW d \in MinimumLease .. MaximumLease,
             GrantPrompt(h, p, d)
      PROVE  AccessInv'
  <2> DEFINE n == Earlier(d, handler[h].until - now)
  <2> HIDE DEF n
  <2>1. /\ UNCHANGED <<consumers, leases, issued>>
        /\ Granting(h)
        /\ handler' = [handler EXCEPT ![h] =
             [handler[h] EXCEPT !.at = "granting", !.profile = p,
                !.entry = config[p], !.duration = n]]
    BY <1>1 DEF GrantPrompt, Lock, At, memory, Granting, GrantStages, n
  <2>2. handler[h] \in Locals
    BY DEF TypeOK, HandlerRecords
  <2>3. /\ handler'[h].cap = handler[h].cap
        /\ handler'[h].new = handler[h].new
        /\ handler'[h].until = handler[h].until
        /\ \A i \in Handlers \ {h} : handler'[i] = handler[i]
    BY <2>1, <2>2 DEF TypeOK, Locals
  <2>4. KeepsGrants
    BY <2>1, <2>3 DEF KeepsGrants, Granting
  <2> QED
    BY <2>1, <2>4, FewerLeasesOwned, WithdrawalAccessInv DEF Withdrawal
<1>2. CASE GrantApproved(h)
  <2> DEFINE item == keychain[handler[h].profile]
  <2> HIDE DEF item
  <2>1. /\ UNCHANGED <<consumers, leases, issued>>
        /\ Granting(h)
        /\ handler' = [handler EXCEPT ![h] =
             [handler[h] EXCEPT !.at = "approved", !.readAt = now,
                                !.secret = item]]
    BY <1>2 DEF GrantApproved, At, memory, Granting, GrantStages, item
  <2>2. handler[h] \in Locals
    BY DEF TypeOK, HandlerRecords
  <2>3. /\ handler'[h].cap = handler[h].cap
        /\ handler'[h].new = handler[h].new
        /\ handler'[h].until = handler[h].until
        /\ \A i \in Handlers \ {h} : handler'[i] = handler[i]
    BY <2>1, <2>2 DEF TypeOK, Locals
  <2>4. KeepsGrants
    BY <2>1, <2>3 DEF KeepsGrants, Granting
  <2> QED
    BY <2>1, <2>4, FewerLeasesOwned, WithdrawalAccessInv DEF Withdrawal
<1>3. CASE GrantRefused(h) \/ GrantDenied(h)
  BY <1>3, ReturnKeepsGrants, FewerLeasesOwned, WithdrawalAccessInv
  DEF GrantRefused, GrantDenied, Unlock, memory, Withdrawal
<1>4. CASE GrantOrphaned(h)
  BY <1>4, ReturnKeepsGrants, ExpireShrinks, ExpireOwned, WithdrawalAccessInv
  DEF GrantOrphaned, Unlock, Withdrawal
<1> QED
  BY <1>1, <1>2, <1>3, <1>4, GrantNewConsumerAccessInv,
     GrantToConsumerAccessInv, GrantCommitAccessInv
  DEF Grant

LEMMA UseWithdraws ==
  ASSUME TypeOK, AccessInv, NEW h \in Handlers, Use(h)
  PROVE  Withdrawal
<1>1. ASSUME NEW c \in Capabilities, NEW id \in LeaseIds, Execute(h, c, id)
      PROVE  Withdrawal
  <2>1. PICK l \in LiveLeases(now) :
          handler' = [handler EXCEPT ![h] =
            [Idle EXCEPT !.at = "copied", !.secret = l.secret]]
    BY <1>1 DEF Execute
  <2>2. KeepsGrants
    BY <2>1 DEF KeepsGrants, Granting, GrantStages, Idle, TypeOK
  <2> QED
    BY <1>1, <2>2, ExpireShrinks, ExpireOwned DEF Execute, Withdrawal
<1>2. CASE StartChild(h)
  <2>1. KeepsGrants
    BY <1>2 DEF StartChild, At, KeepsGrants, Granting, GrantStages, TypeOK
  <2> QED
    BY <1>2, <2>1, FewerLeasesOwned DEF StartChild, memory, Withdrawal
<1>3. CASE ExecuteReturns(h)
  BY <1>3, ReturnKeepsGrants, FewerLeasesOwned
  DEF ExecuteReturns, memory, Withdrawal
<1> QED
  BY <1>1, <1>2, <1>3 DEF Use

LEMMA StoreWithdraws ==
  ASSUME TypeOK, AccessInv, NEW h \in Handlers, Store(h)
  PROVE  Withdrawal
<1>1. UNCHANGED <<consumers, leases, issued>>
  BY DEF Store, StoreProfile, CreateSSHProfile, StoreItem, StoreItemFails,
         SaveProfile, SaveProfileFails, memory
<1>2. KeepsGrants
  <2>1. ASSUME NEW p, NEW entry, NEW s, StoreItem(h, p, entry, s)
        PROVE  KeepsGrants
    BY <2>1 DEF StoreItem, Lock, KeepsGrants, Granting, GrantStages, Idle,
                TypeOK
  <2> QED
    BY <2>1, ReturnKeepsGrants, SameHandlersKeepGrants
    DEF Store, StoreProfile, CreateSSHProfile, StoreItemFails, SaveProfile,
        SaveProfileFails, Unlock
<1> QED
  BY <1>1, <1>2, FewerLeasesOwned DEF Withdrawal

LEMMA ManageWithdraws ==
  ASSUME TypeOK, AccessInv, NEW h \in Handlers, Manage(h)
  PROVE  Withdrawal
<1>1. /\ UNCHANGED consumers
      /\ leases' \subseteq leases
      /\ issued \subseteq issued'
  BY DEF Manage, BeginProfileManagement, ManagementApproved, ManagementDenied,
         UpdateRefused, UpdateProfile, UpdateStoreFails, UpdateSaved, LeasesAfterUpdate,
         UpdateSaveFails, memory
<1>2. KeepsGrants
  <2>1. ASSUME NEW p, BeginProfileManagement(h, p)
        PROVE  KeepsGrants
    BY <2>1 DEF BeginProfileManagement, Lock, KeepsGrants, Granting,
                GrantStages, Idle, TypeOK
  <2>2. ASSUME NEW s, NEW secret, UpdateProfile(h, s, secret)
        PROVE  KeepsGrants
    BY <2>2 DEF UpdateProfile, Lock, KeepsGrants, Granting, GrantStages, Idle,
                TypeOK
  <2> QED
    BY <2>1, <2>2, ReturnKeepsGrants, SameHandlersKeepGrants
    DEF Manage, ManagementApproved, ManagementDenied, UpdateRefused,
        UpdateStoreFails, UpdateSaved, UpdateSaveFails, Unlock
<1> QED
  BY <1>1, <1>2, FewerLeasesOwned DEF Withdrawal

LEMMA DeleteWithdraws ==
  ASSUME TypeOK, AccessInv, NEW h \in Handlers, Delete(h)
  PROVE  Withdrawal
<1>1. /\ UNCHANGED <<consumers, issued>>
      /\ leases' \subseteq leases
  BY DEF Delete, DeleteProfile, DeleteApproved, DeleteDenied, ClearDeleted,
         Unlist, UnlistFails, memory
<1>2. KeepsGrants
  <2>1. ASSUME NEW p, DeleteProfile(h, p)
        PROVE  KeepsGrants
    BY <2>1 DEF DeleteProfile, Lock, KeepsGrants, Granting, GrantStages, Idle,
                TypeOK
  <2>2. ASSUME NEW stage \in {"deleted", "unlisting"},
               handler' = [handler EXCEPT ![h].at = stage]
        PROVE  KeepsGrants
    BY <2>2 DEF KeepsGrants, Granting, GrantStages, TypeOK, HandlerRecords,
                Locals
  <2> QED
    BY <2>1, <2>2, ReturnKeepsGrants
    DEF Delete, DeleteApproved, DeleteDenied, ClearDeleted, Unlist,
        UnlistFails, Unlock
<1> QED
  BY <1>1, <1>2, FewerLeasesOwned DEF Withdrawal

LEMMA EndOfAccessWithdraws ==
  ASSUME TypeOK, AccessInv, EndOfAccess
  PROVE  Withdrawal
<1>1. KeepsGrants /\ UNCHANGED issued
  BY SameHandlersKeepGrants
  DEF EndOfAccess, Lookup, Snapshot, Revoke, AdminRevoke, EndProfileManagement
<1>2. CASE Lookup \/ Snapshot
  BY <1>1, <1>2, ExpireShrinks, ExpireOwned DEF Lookup, Snapshot, Withdrawal
<1>3. ASSUME NEW c, NEW id, EndAccess(c, id)
      PROVE  Withdrawal
  <2>1. consumers' \subseteq consumers /\ leases' \subseteq leases
    BY <1>3 DEF EndAccess, LiveConsumers, LiveLeases
  <2>2. ASSUME NEW l \in leases'
        PROVE  \E s \in consumers' : s.cap = l.cap
    <3>1. PICK s \in LiveConsumers(now) : s.cap = l.cap
      BY <1>3 DEF EndAccess, LiveLeases
    <3>2. s.cap # c \/ id # None
      BY <1>3, <3>1 DEF EndAccess
    <3> QED
      BY <1>3, <3>1, <3>2 DEF EndAccess
  <2> QED
    BY <1>1, <2>1, <2>2 DEF Withdrawal, Owned
<1>4. ASSUME NEW s, EndProfileManagement(s)
      PROVE  Withdrawal
  BY <1>1, <1>4, FewerLeasesOwned DEF EndProfileManagement, Withdrawal
<1> QED
  BY <1>2, <1>3, <1>4 DEF EndOfAccess, Revoke, AdminRevoke

LEMMA ProcessWithdraws ==
  ASSUME TypeOK, AccessInv, Process
  PROVE  Withdrawal
<1>1. UNCHANGED issued
  BY DEF Process, Tick, Sweep, Shutdown, Close, Exit, Crash, Gone, Restart
<1>2. CASE Tick \/ Shutdown \/ Restart
  BY <1>1, <1>2, SameHandlersKeepGrants, FewerLeasesOwned
  DEF Tick, Shutdown, Restart, memory, Withdrawal
<1>3. ASSUME NEW t, Sweep(t)
      PROVE  Withdrawal
  BY <1>1, <1>3, SameHandlersKeepGrants, ExpireShrinks, ExpireOwned
  DEF Sweep, Withdrawal
<1>4. CASE Close
  BY <1>1, <1>4, SameHandlersKeepGrants DEF Close, Withdrawal, Owned
<1>5. CASE Exit \/ Crash
  BY <1>1, <1>5
  DEF Exit, Crash, Gone, Withdrawal, Owned, KeepsGrants, Granting, GrantStages,
      Idle
<1> QED
  BY <1>2, <1>3, <1>4, <1>5 DEF Process

LEMMA StepAccessInv == TypeOK /\ AccessInv /\ [Next]_vars => AccessInv'
<1> SUFFICES ASSUME TypeOK, AccessInv, [Next]_vars
             PROVE  AccessInv'
  OBVIOUS
<1>1. ASSUME NEW h \in Handlers,
             Grant(h) \/ Use(h) \/ Store(h) \/ Manage(h) \/ Delete(h)
      PROVE  AccessInv'
  BY <1>1, GrantAccessInv, UseWithdraws, StoreWithdraws, ManageWithdraws,
     DeleteWithdraws, WithdrawalAccessInv
<1>2. CASE EndOfAccess \/ Process
  BY <1>2, EndOfAccessWithdraws, ProcessWithdraws, WithdrawalAccessInv
<1>3. CASE UNCHANGED vars
  BY <1>3, SameHandlersKeepGrants, FewerLeasesOwned, WithdrawalAccessInv
  DEF vars, Withdrawal
<1> QED
  BY <1>1, <1>2, <1>3 DEF Next

LEMMA AccessInvariant == Spec => [](TypeOK /\ AccessInv)
<1>1. Init => TypeOK /\ AccessInv
  BY InitTypeOK, InitAccessInv
<1>2. TypeOK /\ AccessInv /\ [Next]_vars => (TypeOK /\ AccessInv)'
  BY StepTypeOK, StepAccessInv
<1> QED
  BY <1>1, <1>2, PTL DEF Spec

\* No lease is held without its consumer or past its consumer's deadline, for
\* any number of concurrent grants, prompts, revocations and expiries.
THEOREM LeaseNeverOutlivesConsumer == Spec => []LeaseWithinConsumer
<1>1. TypeOK /\ AccessInv => LeaseWithinConsumer
  BY DEF AccessInv
<1> QED
  BY <1>1, AccessInvariant, PTL

\* Concurrent grants leave one lease of a consumer for a profile.
THEOREM OneLeaseEach == Spec => []OneLeasePerProfile
<1>1. TypeOK /\ AccessInv => OneLeasePerProfile
  BY DEF AccessInv
<1> QED
  BY <1>1, AccessInvariant, PTL

-----------------------------------------------------------------------------
(***************************************************************************)
(* Profiles.  profileMu is a lock: whoever is in a locked stage is alone   *)
(* there, so what it read of config.json and the Keychain still holds when *)
(* it acts on it.  That is what HandlerView says, stage by stage, and what *)
(* makes the claims about leases and sessions inductive.                   *)
(***************************************************************************)
HandlerView(h) ==
  LET g == handler[h] IN
  /\ g.at \in {"granting", "approved"} =>
       g.entry = config[g.profile] /\ g.entry # Unlisted
  /\ g.at = "approved" /\ g.entry.kind = "ssh" => g.secret = g.entry.key
  /\ g.at = "saving" =>
       /\ Writable(g.profile, g.entry)
       /\ g.entry # Unlisted
       /\ g.entry.kind = "ssh" => keychain[g.profile] = g.entry.key
  /\ g.at \in {"revealing", "updating"} => config[g.profile] = SecretEntry
  /\ g.at = "unlisting" =>
       /\ \A l \in leases : l.profile # g.profile
       /\ \A s \in sessions : s.profile # g.profile

ProfileInv ==
  /\ KeysMatchItems
  /\ \A h \in Handlers : HandlerView(h)
  /\ LeasedProfileConfigured
  /\ SessionOnlyForSecrets

\* How the model encodes the mutex, a part of the invariant.
PromptHoldsProfileMu ==
  \A h \in Handlers : handler[h].at \in Locked <=> profileMu = h

\* The four ways in which a step treats profileMu.
LEMMA LockStep ==
  ASSUME TypeOK, PromptHoldsProfileMu, NEW h \in Handlers, NEW g,
         g.at \in Locked, Lock(h, g)
  PROVE  /\ PromptHoldsProfileMu'
         /\ handler'[h] = g
         /\ \A i \in Handlers \ {h} : handler'[i].at \notin Locked
BY NoneAssumption DEF Lock, PromptHoldsProfileMu, TypeOK

LEMMA UnlockStep ==
  ASSUME TypeOK, PromptHoldsProfileMu, NEW h \in Handlers,
         handler[h].at \in Locked, Unlock(h)
  PROVE  /\ PromptHoldsProfileMu'
         /\ \A i \in Handlers : handler'[i].at \notin Locked
BY NoneAssumption
DEF Unlock, Return, Idle, Locked, PromptHoldsProfileMu, TypeOK

\* A holder goes on to its next stage.
LEMMA HoldStep ==
  ASSUME TypeOK, PromptHoldsProfileMu, NEW h \in Handlers, NEW g,
         handler[h].at \in Locked, g.at \in Locked, UNCHANGED profileMu,
         handler' = [handler EXCEPT ![h] = g]
  PROVE  /\ PromptHoldsProfileMu'
         /\ handler'[h] = g
         /\ \A i \in Handlers \ {h} : handler'[i].at \notin Locked
BY NoneAssumption DEF PromptHoldsProfileMu, TypeOK

LEMMA OutsideStep ==
  ASSUME TypeOK, PromptHoldsProfileMu, NEW h \in Handlers, NEW g,
         handler[h].at \notin Locked, g.at \notin Locked, UNCHANGED profileMu,
         handler' = [handler EXCEPT ![h] = g]
  PROVE  /\ PromptHoldsProfileMu'
         /\ \A i \in Handlers :
              handler'[i] = handler[i] \/ handler'[i].at \notin Locked
BY DEF PromptHoldsProfileMu, TypeOK

LEMMA UnlockedReturn ==
  ASSUME TypeOK, PromptHoldsProfileMu, NEW h \in Handlers,
         handler[h].at \notin Locked, UNCHANGED profileMu, Return(h)
  PROVE  /\ PromptHoldsProfileMu'
         /\ \A i \in Handlers :
              handler'[i] = handler[i] \/ handler'[i].at \notin Locked
BY OutsideStep DEF Return, Idle, Locked

\* Steps that touch neither the disk nor the lock's holders, and only
\* withdraw access.
Quiet ==
  /\ UNCHANGED disk
  /\ leases' \subseteq leases
  /\ sessions' \subseteq sessions
  /\ \A i \in Handlers :
       handler'[i] = handler[i] \/ handler'[i].at \notin Locked

LEMMA QuietProfileInv ==
  ASSUME ProfileInv, Quiet
  PROVE  ProfileInv'
<1>1. ASSUME NEW i \in Handlers
      PROVE  HandlerView(i)'
  <2>1. HandlerView(i)
    BY DEF ProfileInv
  <2>2. CASE handler'[i].at \notin Locked
    BY <2>2 DEF HandlerView, Locked
  <2>3. CASE handler'[i] = handler[i]
    BY <2>1, <2>3 DEF HandlerView, Quiet, disk, Writable
  <2> QED
    BY <2>2, <2>3 DEF Quiet
<1>2. KeysMatchItems'
  BY DEF ProfileInv, Quiet, disk, KeysMatchItems
<1>3. LeasedProfileConfigured' /\ SessionOnlyForSecrets'
  BY DEF ProfileInv, Quiet, disk, LeasedProfileConfigured,
         SessionOnlyForSecrets
<1> QED
  BY <1>1, <1>2, <1>3 DEF ProfileInv

\* An entry is known by its kind.
LEMMA EntryKinds ==
  ASSUME NEW e \in Entries
  PROVE  /\ e = Unlisted \/ e.kind = "secret" \/ e.kind = "ssh"
         /\ e.kind = "secret" <=> e = SecretEntry
         /\ e = Unlisted => e.kind = "none"
BY DEF Entries, Unlisted, SecretEntry, SSHEntry

LockInv == TypeOK /\ PromptHoldsProfileMu /\ ProfileInv

LEMMA GrantProfileInv ==
  ASSUME LockInv, NEW h \in Handlers, Grant(h)
  PROVE  PromptHoldsProfileMu' /\ ProfileInv'
<1> USE DEF LockInv
<1>1. ASSUME NEW c \in Capabilities, NEW d, GrantNewConsumer(h, c, d)
      PROVE  PromptHoldsProfileMu' /\ ProfileInv'
  <2> DEFINE g == [Idle EXCEPT !.at = "waiting", !.cap = c, !.new = TRUE,
                               !.until = now + d]
  <2>1. handler[h].at \notin Locked /\ g.at \notin Locked
    BY <1>1 DEF GrantNewConsumer, Arrives, Locked, Idle
  <2>2. /\ handler' = [handler EXCEPT ![h] = g]
        /\ UNCHANGED <<profileMu, disk, leases, sessions>>
    BY <1>1 DEF GrantNewConsumer, memory
  <2> HIDE DEF g
  <2> QED
    BY <2>1, <2>2, OutsideStep, QuietProfileInv DEF Quiet
<1>2. ASSUME NEW s \in consumers, GrantToConsumer(h, s)
      PROVE  PromptHoldsProfileMu' /\ ProfileInv'
  <2> DEFINE g == [Idle EXCEPT !.at = "waiting", !.cap = s.cap,
                               !.until = s.expiresAt]
  <2>1. handler[h].at \notin Locked /\ g.at \notin Locked
    BY <1>2 DEF GrantToConsumer, Arrives, Locked, Idle
  <2>2. /\ handler' = [handler EXCEPT ![h] = g]
        /\ UNCHANGED <<profileMu, disk, sessions>>
        /\ leases' \subseteq leases
    BY <1>2, ExpireShrinks DEF GrantToConsumer
  <2> HIDE DEF g
  <2> QED
    BY <2>1, <2>2, OutsideStep, QuietProfileInv DEF Quiet
<1>3. ASSUME NEW p \in Profiles, NEW d, GrantPrompt(h, p, d)
      PROVE  PromptHoldsProfileMu' /\ ProfileInv'
  <2> DEFINE n == Earlier(d, handler[h].until - now)
             g == [handler[h] EXCEPT !.at = "granting", !.profile = p,
                     !.entry = config[p], !.duration = n]
  <2> HIDE DEF n
  <2>1. /\ g.at = "granting" /\ g.at \in Locked
        /\ g.profile = p /\ g.entry = config[p]
    BY DEF Locked, TypeOK, HandlerRecords, Locals
  <2>2. /\ Lock(h, g) /\ config[p] # Unlisted
        /\ UNCHANGED <<disk, leases, sessions>>
    BY <1>3 DEF GrantPrompt, memory, n
  <2> HIDE DEF g
  <2>3. /\ PromptHoldsProfileMu' /\ handler'[h] = g
        /\ \A i \in Handlers \ {h} : handler'[i].at \notin Locked
    BY <2>1, <2>2, LockStep
  <2>4. HandlerView(h)'
    BY <2>1, <2>2, <2>3 DEF HandlerView, disk
  <2>5. \A i \in Handlers \ {h} : HandlerView(i)'
    BY <2>3 DEF HandlerView, Locked
  <2> QED
    BY <2>2, <2>3, <2>4, <2>5
    DEF ProfileInv, disk, KeysMatchItems, LeasedProfileConfigured,
        SessionOnlyForSecrets
<1>4. CASE GrantRefused(h)
  <2>1. handler[h].at \notin Locked
    BY <1>4 DEF GrantRefused, At, Locked
  <2> QED
    BY <1>4, <2>1, UnlockedReturn, QuietProfileInv
    DEF GrantRefused, memory, Quiet
<1>5. CASE GrantApproved(h)
  <2> DEFINE item == keychain[handler[h].profile]
             g == [handler[h] EXCEPT !.at = "approved", !.readAt = now,
                                     !.secret = item]
  <2>1. /\ handler[h].at = "granting" /\ handler[h].at \in Locked
        /\ handler[h] \in Locals
        /\ handler[h].entry.kind = "ssh" => item = handler[h].entry.key
        /\ handler' = [handler EXCEPT ![h] = g]
        /\ UNCHANGED <<profileMu, disk, leases, sessions>>
    BY <1>5 DEF GrantApproved, At, Locked, memory, TypeOK, HandlerRecords
  <2> HIDE DEF item
  <2>2. /\ g.at = "approved" /\ g.at \in Locked /\ g.secret = item
        /\ g.profile = handler[h].profile /\ g.entry = handler[h].entry
    BY <2>1 DEF Locked, Locals
  <2> HIDE DEF g
  <2>3. /\ PromptHoldsProfileMu' /\ handler'[h] = g
        /\ \A i \in Handlers \ {h} : handler'[i].at \notin Locked
    BY <2>1, <2>2, HoldStep
  <2>4. HandlerView(h)
    BY DEF ProfileInv
  <2>5. HandlerView(h)'
    BY <2>1, <2>2, <2>3, <2>4 DEF HandlerView, disk
  <2>6. \A i \in Handlers \ {h} : HandlerView(i)'
    BY <2>3 DEF HandlerView, Locked
  <2> QED
    BY <2>1, <2>3, <2>5, <2>6
    DEF ProfileInv, disk, KeysMatchItems, LeasedProfileConfigured,
        SessionOnlyForSecrets
<1>6. CASE GrantDenied(h) \/ GrantOrphaned(h)
  <2>1. handler[h].at \in Locked
    BY <1>6 DEF GrantDenied, GrantOrphaned, At, Locked
  <2>2. Unlock(h) /\ UNCHANGED <<disk, sessions>> /\ leases' \subseteq leases
    BY <1>6, ExpireShrinks DEF GrantDenied, GrantOrphaned, memory
  <2> QED
    BY <2>1, <2>2, UnlockStep, QuietProfileInv DEF Quiet
<1>7. ASSUME NEW id \in LeaseIds, GrantCommit(h, id)
      PROVE  PromptHoldsProfileMu' /\ ProfileInv'
  <2> DEFINE g == handler[h]
  <2>1. g.at = "approved" /\ g.at \in Locked
    BY <1>7 DEF GrantCommit, At, Locked
  <2>2. Unlock(h) /\ UNCHANGED <<disk, sessions>>
    BY <1>7 DEF GrantCommit
  <2>3. /\ PromptHoldsProfileMu'
        /\ \A i \in Handlers : handler'[i].at \notin Locked
    BY <2>1, <2>2, UnlockStep
  <2>4. leases' \subseteq leases \cup {LeaseOf(g, id)}
    BY <1>7 DEF GrantCommit, LiveLeases
  <2>5. HandlerView(h)
    BY DEF ProfileInv
  <2>6. /\ g.entry = config[g.profile] /\ g.entry # Unlisted
        /\ g.entry.kind = "ssh" => g.secret = g.entry.key
    BY <2>1, <2>5 DEF HandlerView
  <2>7. LeasedProfileConfigured'
    BY <2>2, <2>4, <2>6
    DEF ProfileInv, LeasedProfileConfigured, LeaseOf, disk
  <2>8. \A i \in Handlers : HandlerView(i)'
    BY <2>3 DEF HandlerView, Locked
  <2> QED
    BY <2>2, <2>3, <2>7, <2>8
    DEF ProfileInv, disk, KeysMatchItems, SessionOnlyForSecrets
<1> QED
  BY <1>1, <1>2, <1>3, <1>4, <1>5, <1>6, <1>7 DEF Grant

LEMMA UseProfileInv ==
  ASSUME LockInv, NEW h \in Handlers, Use(h)
  PROVE  PromptHoldsProfileMu' /\ ProfileInv'
<1> USE DEF LockInv
<1>1. ASSUME NEW c, NEW id, Execute(h, c, id)
      PROVE  PromptHoldsProfileMu' /\ ProfileInv'
  <2>1. PICK l \in LiveLeases(now) :
          handler' = [handler EXCEPT ![h] =
            [Idle EXCEPT !.at = "copied", !.secret = l.secret]]
    BY <1>1 DEF Execute
  <2> DEFINE g == [Idle EXCEPT !.at = "copied", !.secret = l.secret]
  <2>2. handler[h].at \notin Locked /\ g.at \notin Locked
    BY <1>1 DEF Execute, Arrives, Locked, Idle
  <2>3. /\ handler' = [handler EXCEPT ![h] = g]
        /\ UNCHANGED <<profileMu, disk, sessions>>
        /\ leases' \subseteq leases
    BY <1>1, <2>1, ExpireShrinks DEF Execute
  <2> HIDE DEF g
  <2> QED
    BY <2>2, <2>3, OutsideStep, QuietProfileInv DEF Quiet
<1>2. CASE StartChild(h)
  <2> DEFINE g == [handler[h] EXCEPT !.at = "running"]
  <2>1. handler[h].at \notin Locked /\ g.at \notin Locked
    BY <1>2 DEF StartChild, At, Locked, TypeOK, HandlerRecords, Locals
  <2>2. /\ handler' = [handler EXCEPT ![h] = g]
        /\ UNCHANGED <<profileMu, disk, sessions, leases>>
    BY <1>2 DEF StartChild, memory
  <2> HIDE DEF g
  <2> QED
    BY <2>1, <2>2, OutsideStep, QuietProfileInv DEF Quiet
<1>3. CASE ExecuteReturns(h)
  <2>1. handler[h].at \notin Locked
    BY <1>3 DEF ExecuteReturns, At, Locked
  <2> QED
    BY <1>3, <2>1, UnlockedReturn, QuietProfileInv
    DEF ExecuteReturns, memory, Quiet
<1> QED
  BY <1>1, <1>2, <1>3 DEF Use

LEMMA StoreProfileInv ==
  ASSUME LockInv, NEW h \in Handlers, Store(h)
  PROVE  PromptHoldsProfileMu' /\ ProfileInv'
<1> USE DEF LockInv
<1>1. ASSUME NEW p \in Profiles, NEW s \in Secrets,
             NEW entry \in {SecretEntry, SSHEntry(s)},
             StoreItem(h, p, entry, s)
      PROVE  PromptHoldsProfileMu' /\ ProfileInv'
  <2> DEFINE g == [Idle EXCEPT !.at = "saving", !.profile = p,
                               !.entry = entry]
  <2>1. /\ g.at = "saving" /\ g.at \in Locked
        /\ g.profile = p /\ g.entry = entry
    BY DEF Locked, Idle
  <2>2. /\ Lock(h, g) /\ Writable(p, entry)
        /\ keychain' = [keychain EXCEPT ![p] = s]
        /\ UNCHANGED <<config, leases, sessions>>
    BY <1>1 DEF StoreItem, memory
  <2> HIDE DEF g
  <2>3. /\ PromptHoldsProfileMu' /\ handler'[h] = g
        /\ \A i \in Handlers \ {h} : handler'[i].at \notin Locked
    BY <2>1, <2>2, LockStep
  <2>4. /\ entry # Unlisted
        /\ entry.kind = "ssh" => keychain'[p] = entry.key
        /\ config[p].kind # "ssh"
    BY <2>2 DEF SecretEntry, SSHEntry, Unlisted, TypeOK, Writable
  <2>5. HandlerView(h)'
    BY <2>1, <2>2, <2>3, <2>4 DEF HandlerView, Writable
  <2>6. \A i \in Handlers \ {h} : HandlerView(i)'
    BY <2>3 DEF HandlerView, Locked
  <2>7. KeysMatchItems'
    BY <2>2, <2>4 DEF ProfileInv, KeysMatchItems, TypeOK
  <2> QED
    BY <2>2, <2>3, <2>5, <2>6, <2>7
    DEF ProfileInv, LeasedProfileConfigured, SessionOnlyForSecrets
<1>2. ASSUME NEW p \in Profiles, StoreItemFails(h, p)
      PROVE  PromptHoldsProfileMu' /\ ProfileInv'
  <2>1. /\ UNCHANGED <<profileMu, handler, config, leases, sessions>>
        /\ keychain' \in ItemsAfterFailedStore(p)
        /\ \A i \in Handlers : handler[i].at \notin Locked
    BY <1>2, NoneAssumption
    DEF StoreItemFails, memory, PromptHoldsProfileMu
  <2>2. KeysMatchItems'
    BY <2>1 DEF ProfileInv, KeysMatchItems, ItemsAfterFailedStore, TypeOK
  <2>3. \A i \in Handlers : HandlerView(i)'
    BY <2>1 DEF HandlerView, Locked
  <2> QED
    BY <2>1, <2>2, <2>3
    DEF ProfileInv, LeasedProfileConfigured, SessionOnlyForSecrets,
        PromptHoldsProfileMu
<1>3. CASE SaveProfile(h) \/ SaveProfileFails(h)
  <2> DEFINE p == handler[h].profile
             entry == handler[h].entry
  <2>1. /\ handler[h].at = "saving" /\ handler[h].at \in Locked
        /\ p \in Profiles /\ entry \in Entries
    BY <1>3 DEF SaveProfile, SaveProfileFails, At, Locked, TypeOK,
                HandlerRecords, Locals
  <2>2. /\ Unlock(h) /\ UNCHANGED <<keychain, leases, sessions>>
        /\ config' = config \/ config' = [config EXCEPT ![p] = entry]
    BY <1>3 DEF SaveProfile, SaveProfileFails, ConfigsAfterFailedSave, memory
  <2>3. /\ PromptHoldsProfileMu'
        /\ \A i \in Handlers : handler'[i].at \notin Locked
    BY <2>1, <2>2, UnlockStep
  <2>4. /\ Writable(p, entry) /\ entry # Unlisted
        /\ entry.kind = "ssh" => keychain[p] = entry.key
    BY <2>1 DEF ProfileInv, HandlerView
  <2>5. KeysMatchItems'
    BY <2>1, <2>2, <2>4 DEF ProfileInv, KeysMatchItems, TypeOK
  <2>6. config'[p] = config[p] \/ config[p] = Unlisted
    <3>1. config[p] \in Entries
      BY <2>1 DEF TypeOK
    <3>2. CASE entry.kind = "ssh"
      BY <2>4, <3>2 DEF Writable
    <3>3. CASE entry.kind # "ssh"
      <4>1. entry = SecretEntry /\ config[p].kind # "ssh"
        BY <2>1, <2>4, <3>3, EntryKinds DEF Writable
      <4>2. config[p] = SecretEntry \/ config[p] = Unlisted
        BY <3>1, <4>1, EntryKinds
      <4> QED
        BY <2>1, <2>2, <4>1, <4>2 DEF TypeOK
    <3> QED
      BY <3>2, <3>3
  <2>7. \A q \in Profiles : config'[q] = config[q] \/ config[q] = Unlisted
    BY <2>1, <2>2, <2>6 DEF TypeOK
  <2>8. LeasedProfileConfigured'
    BY <2>2, <2>7
    DEF ProfileInv, LeasedProfileConfigured, TypeOK, LeaseRecords
  <2>9. SessionOnlyForSecrets'
    BY <2>2, <2>7
    DEF ProfileInv, SessionOnlyForSecrets, TypeOK, SessionRecords, Unlisted,
        SecretEntry
  <2>10. \A i \in Handlers : HandlerView(i)'
    BY <2>3 DEF HandlerView, Locked
  <2> QED
    BY <2>3, <2>5, <2>8, <2>9, <2>10 DEF ProfileInv
<1> QED
  BY <1>1, <1>2, <1>3 DEF Store, StoreProfile, CreateSSHProfile

LEMMA ManageProfileInv ==
  ASSUME LockInv, NEW h \in Handlers, Manage(h)
  PROVE  PromptHoldsProfileMu' /\ ProfileInv'
<1> USE DEF LockInv
<1>1. ASSUME NEW p \in Profiles, BeginProfileManagement(h, p)
      PROVE  PromptHoldsProfileMu' /\ ProfileInv'
  <2> DEFINE g == [Idle EXCEPT !.at = "revealing", !.profile = p]
  <2>1. g.at = "revealing" /\ g.at \in Locked /\ g.profile = p
    BY DEF Locked, Idle
  <2>2. /\ Lock(h, g) /\ config[p].kind = "secret"
        /\ UNCHANGED <<disk, leases, sessions>>
    BY <1>1 DEF BeginProfileManagement, memory
  <2> HIDE DEF g
  <2>3. /\ PromptHoldsProfileMu' /\ handler'[h] = g
        /\ \A i \in Handlers \ {h} : handler'[i].at \notin Locked
    BY <2>1, <2>2, LockStep
  <2>4. config[p] = SecretEntry
    BY <2>2, EntryKinds DEF TypeOK
  <2>5. HandlerView(h)'
    BY <2>1, <2>2, <2>3, <2>4 DEF HandlerView, disk
  <2>6. \A i \in Handlers \ {h} : HandlerView(i)'
    BY <2>3 DEF HandlerView, Locked
  <2> QED
    BY <2>2, <2>3, <2>5, <2>6
    DEF ProfileInv, disk, KeysMatchItems, LeasedProfileConfigured,
        SessionOnlyForSecrets
<1>2. ASSUME NEW t \in ManagementTokens, ManagementApproved(h, t)
      PROVE  PromptHoldsProfileMu' /\ ProfileInv'
  <2> DEFINE p == handler[h].profile
             new == [token |-> t, profile |-> p,
                     expiresAt |-> now + ManagementSessionTTL]
  <2>1. handler[h].at = "revealing" /\ handler[h].at \in Locked
    BY <1>2 DEF ManagementApproved, At, Locked
  <2>2. /\ Unlock(h) /\ UNCHANGED <<disk, leases>>
        /\ sessions' \subseteq sessions \cup {new}
    BY <1>2 DEF ManagementApproved, LiveSessions
  <2>3. /\ PromptHoldsProfileMu'
        /\ \A i \in Handlers : handler'[i].at \notin Locked
    BY <2>1, <2>2, UnlockStep
  <2>4. config[p] = SecretEntry
    BY <2>1 DEF ProfileInv, HandlerView
  <2>5. SessionOnlyForSecrets'
    BY <2>2, <2>4 DEF ProfileInv, SessionOnlyForSecrets, disk
  <2>6. \A i \in Handlers : HandlerView(i)'
    BY <2>3 DEF HandlerView, Locked
  <2> QED
    BY <2>2, <2>3, <2>5, <2>6
    DEF ProfileInv, disk, KeysMatchItems, LeasedProfileConfigured
<1>3. CASE ManagementDenied(h) \/ UpdateSaved(h) \/ UpdateSaveFails(h)
  <2>1. handler[h].at \in Locked
    BY <1>3 DEF ManagementDenied, UpdateSaved, UpdateSaveFails, At, Locked
  <2>2. Unlock(h) /\ UNCHANGED <<disk, sessions>> /\ leases' \subseteq leases
    BY <1>3 DEF ManagementDenied, UpdateSaved, UpdateSaveFails,
                LeasesAfterUpdate, memory
  <2> QED
    BY <2>1, <2>2, UnlockStep, QuietProfileInv DEF Quiet
<1>4. CASE UpdateRefused(h)
  BY <1>4, QuietProfileInv
  DEF UpdateRefused, LiveSessions, Quiet, PromptHoldsProfileMu
<1>5. ASSUME NEW s \in sessions, NEW secret \in Secrets,
             UpdateProfile(h, s, secret)
      PROVE  PromptHoldsProfileMu' /\ ProfileInv'
  <2> DEFINE g == [Idle EXCEPT !.at = "updating", !.profile = s.profile]
  <2>1. g.at = "updating" /\ g.at \in Locked /\ g.profile = s.profile
    BY DEF Locked, Idle
  <2>2. /\ Lock(h, g) /\ UNCHANGED <<config, leases>>
        /\ keychain' = [keychain EXCEPT ![s.profile] = secret]
        /\ sessions' \subseteq sessions
    BY <1>5 DEF UpdateProfile, SpendSession, LiveSessions
  <2> HIDE DEF g
  <2>3. /\ PromptHoldsProfileMu' /\ handler'[h] = g
        /\ \A i \in Handlers \ {h} : handler'[i].at \notin Locked
    BY <2>1, <2>2, LockStep
  <2>4. config[s.profile] = SecretEntry
    BY DEF ProfileInv, SessionOnlyForSecrets
  <2>5. HandlerView(h)'
    BY <2>1, <2>2, <2>3, <2>4 DEF HandlerView
  <2>6. \A i \in Handlers \ {h} : HandlerView(i)'
    BY <2>3 DEF HandlerView, Locked
  <2>7. KeysMatchItems'
    BY <2>2, <2>4 DEF ProfileInv, KeysMatchItems, TypeOK, SecretEntry
  <2> QED
    BY <2>2, <2>3, <2>5, <2>6, <2>7
    DEF ProfileInv, LeasedProfileConfigured, SessionOnlyForSecrets
<1>6. ASSUME NEW s \in sessions, UpdateStoreFails(h, s)
      PROVE  PromptHoldsProfileMu' /\ ProfileInv'
  <2>1. /\ UNCHANGED <<profileMu, handler, config, leases>>
        /\ sessions' \subseteq sessions
        /\ keychain' \in ItemsAfterFailedStore(s.profile)
        /\ \A i \in Handlers : handler[i].at \notin Locked
    BY <1>6, NoneAssumption
    DEF UpdateStoreFails, SpendSession, LiveSessions, PromptHoldsProfileMu
  <2>2. KeysMatchItems'
    BY <2>1 DEF ProfileInv, KeysMatchItems, ItemsAfterFailedStore, TypeOK
  <2>3. \A i \in Handlers : HandlerView(i)'
    BY <2>1 DEF HandlerView, Locked
  <2> QED
    BY <2>1, <2>2, <2>3
    DEF ProfileInv, LeasedProfileConfigured, SessionOnlyForSecrets,
        PromptHoldsProfileMu
<1> QED
  BY <1>1, <1>2, <1>3, <1>4, <1>5, <1>6 DEF Manage

LEMMA DeleteProfileInv ==
  ASSUME LockInv, NEW h \in Handlers, Delete(h)
  PROVE  PromptHoldsProfileMu' /\ ProfileInv'
<1> USE DEF LockInv
<1>1. ASSUME NEW p \in Profiles, DeleteProfile(h, p)
      PROVE  PromptHoldsProfileMu' /\ ProfileInv'
  <2> DEFINE g == [Idle EXCEPT !.at = "deleting", !.profile = p]
  <2>1. g.at = "deleting" /\ g.at \in Locked
    BY DEF Locked, Idle
  <2>2. Lock(h, g) /\ UNCHANGED <<disk, leases, sessions>>
    BY <1>1 DEF DeleteProfile, memory
  <2> HIDE DEF g
  <2>3. /\ PromptHoldsProfileMu' /\ handler'[h] = g
        /\ \A i \in Handlers \ {h} : handler'[i].at \notin Locked
    BY <2>1, <2>2, LockStep
  <2>4. \A i \in Handlers : HandlerView(i)'
    BY <2>1, <2>3 DEF HandlerView, Locked
  <2> QED
    BY <2>2, <2>3, <2>4
    DEF ProfileInv, disk, KeysMatchItems, LeasedProfileConfigured,
        SessionOnlyForSecrets
<1>2. CASE DeleteApproved(h)
  <2> DEFINE g == [handler[h] EXCEPT !.at = "deleted"]
  <2>1. /\ handler[h].at \in Locked /\ handler[h] \in Locals
        /\ handler' = [handler EXCEPT ![h] = g]
        /\ UNCHANGED <<profileMu, config, leases, sessions>>
        /\ keychain' = [keychain EXCEPT ![handler[h].profile] = None]
    BY <1>2 DEF DeleteApproved, At, Locked, memory, TypeOK, HandlerRecords
  <2>2. g.at = "deleted" /\ g.at \in Locked
    BY <2>1 DEF Locked, Locals
  <2> HIDE DEF g
  <2>3. /\ PromptHoldsProfileMu' /\ handler'[h] = g
        /\ \A i \in Handlers \ {h} : handler'[i].at \notin Locked
    BY <2>1, <2>2, HoldStep
  <2>4. \A i \in Handlers : HandlerView(i)'
    BY <2>2, <2>3 DEF HandlerView, Locked
  <2>5. KeysMatchItems'
    BY <2>1 DEF ProfileInv, KeysMatchItems, TypeOK
  <2> QED
    BY <2>1, <2>3, <2>4, <2>5
    DEF ProfileInv, LeasedProfileConfigured, SessionOnlyForSecrets
<1>3. CASE DeleteDenied(h)
  <2>1. handler[h].at \in Locked
    BY <1>3 DEF DeleteDenied, At, Locked
  <2> QED
    BY <1>3, <2>1, UnlockStep, QuietProfileInv DEF DeleteDenied, memory, Quiet
<1>4. CASE ClearDeleted(h)
  <2> DEFINE p == handler[h].profile
             g == [handler[h] EXCEPT !.at = "unlisting"]
  <2>1. /\ handler[h].at \in Locked /\ handler[h] \in Locals
        /\ handler' = [handler EXCEPT ![h] = g]
        /\ UNCHANGED <<profileMu, disk>>
        /\ leases' = leases \ LeasesOf(p)
        /\ sessions' = SessionsAfterDelete(p)
    BY <1>4 DEF ClearDeleted, At, Locked, TypeOK, HandlerRecords
  <2>2. /\ g.at = "unlisting" /\ g.at \in Locked /\ g.profile = p
        /\ \A l \in leases' : l \in leases /\ l.profile # p
        /\ \A s \in sessions' : s \in sessions /\ s.profile # p
    BY <2>1 DEF Locked, Locals, LeasesOf, SessionsAfterDelete
  <2> HIDE DEF g
  <2>3. /\ PromptHoldsProfileMu' /\ handler'[h] = g
        /\ \A i \in Handlers \ {h} : handler'[i].at \notin Locked
    BY <2>1, <2>2, HoldStep
  <2>4. \A i \in Handlers : HandlerView(i)'
    BY <2>2, <2>3 DEF HandlerView, Locked
  <2>5. LeasedProfileConfigured' /\ SessionOnlyForSecrets'
    BY <2>1, <2>2
    DEF ProfileInv, disk, LeasedProfileConfigured, SessionOnlyForSecrets
  <2> QED
    BY <2>1, <2>3, <2>4, <2>5 DEF ProfileInv, disk, KeysMatchItems
<1>5. CASE Unlist(h) \/ UnlistFails(h)
  <2> DEFINE p == handler[h].profile
  <2>1. /\ handler[h].at = "unlisting" /\ handler[h].at \in Locked
        /\ p \in Profiles
    BY <1>5 DEF Unlist, UnlistFails, At, Locked, TypeOK, HandlerRecords
  <2>2. /\ Unlock(h) /\ UNCHANGED <<keychain, leases, sessions>>
        /\ config' = config \/ config' = [config EXCEPT ![p] = Unlisted]
    BY <1>5 DEF Unlist, UnlistFails, ConfigsAfterFailedSave, memory
  <2>3. /\ PromptHoldsProfileMu'
        /\ \A i \in Handlers : handler'[i].at \notin Locked
    BY <2>1, <2>2, UnlockStep
  <2>4. /\ \A l \in leases : l.profile # p
        /\ \A s \in sessions : s.profile # p
    BY <2>1 DEF ProfileInv, HandlerView
  <2>5. LeasedProfileConfigured'
    BY <2>2, <2>4 DEF ProfileInv, LeasedProfileConfigured, TypeOK, LeaseRecords
  <2>6. SessionOnlyForSecrets'
    BY <2>2, <2>4 DEF ProfileInv, SessionOnlyForSecrets, TypeOK,
                      SessionRecords
  <2>7. KeysMatchItems'
    BY <2>1, <2>2 DEF ProfileInv, KeysMatchItems, TypeOK, Unlisted
  <2>8. \A i \in Handlers : HandlerView(i)'
    BY <2>3 DEF HandlerView, Locked
  <2> QED
    BY <2>3, <2>5, <2>6, <2>7, <2>8 DEF ProfileInv
<1> QED
  BY <1>1, <1>2, <1>3, <1>4, <1>5 DEF Delete

LEMMA EndOfAccessProfileInv ==
  ASSUME LockInv, EndOfAccess
  PROVE  PromptHoldsProfileMu' /\ ProfileInv'
<1>1. UNCHANGED <<handler, profileMu, disk>>
  BY DEF EndOfAccess, Lookup, Snapshot, Revoke, AdminRevoke,
         EndProfileManagement
<1>2. leases' \subseteq leases /\ sessions' \subseteq sessions
  BY ExpireShrinks
  DEF EndOfAccess, Lookup, Snapshot, Revoke, AdminRevoke, EndAccess,
      LiveLeases, LiveSessions, EndProfileManagement
<1> QED
  BY <1>1, <1>2, QuietProfileInv DEF LockInv, Quiet, PromptHoldsProfileMu

LEMMA ProcessProfileInv ==
  ASSUME LockInv, Process
  PROVE  PromptHoldsProfileMu' /\ ProfileInv'
<1> USE DEF LockInv
<1>1. UNCHANGED disk /\ leases' \subseteq leases /\ sessions' \subseteq sessions
  BY ExpireShrinks
  DEF Process, Tick, Sweep, LiveSessions, Shutdown, Close, Exit, Crash, Gone,
      Restart, memory
<1>2. CASE Exit \/ Crash
  <2>1. /\ profileMu' = None
        /\ \A i \in Handlers : handler'[i].at \notin Locked
    BY <1>2 DEF Exit, Crash, Gone, Idle, Locked
  <2>2. PromptHoldsProfileMu'
    BY <2>1, NoneAssumption DEF PromptHoldsProfileMu
  <2> QED
    BY <1>1, <2>1, <2>2, QuietProfileInv DEF Quiet
<1>3. CASE ~(Exit \/ Crash)
  <2>1. UNCHANGED <<handler, profileMu>>
    BY <1>3 DEF Process, Tick, Sweep, Shutdown, Close, Restart
  <2> QED
    BY <1>1, <2>1, QuietProfileInv DEF Quiet, PromptHoldsProfileMu
<1> QED
  BY <1>2, <1>3

LEMMA InitLockInv == Init => LockInv
<1> SUFFICES ASSUME Init
             PROVE  PromptHoldsProfileMu /\ ProfileInv
  BY InitTypeOK DEF LockInv
<1>1. PromptHoldsProfileMu
  BY NoneAssumption DEF Init, PromptHoldsProfileMu, Idle, Locked
<1>2. ProfileInv
  BY DEF Init, ProfileInv, HandlerView, Idle, LeasedProfileConfigured,
         SessionOnlyForSecrets
<1> QED
  BY <1>1, <1>2

LEMMA StepLockInv == LockInv /\ [Next]_vars => LockInv'
<1> SUFFICES ASSUME LockInv, [Next]_vars
             PROVE  PromptHoldsProfileMu' /\ ProfileInv'
  BY StepTypeOK DEF LockInv
<1>1. ASSUME NEW h \in Handlers,
             Grant(h) \/ Use(h) \/ Store(h) \/ Manage(h) \/ Delete(h)
      PROVE  PromptHoldsProfileMu' /\ ProfileInv'
  BY <1>1, GrantProfileInv, UseProfileInv, StoreProfileInv, ManageProfileInv,
     DeleteProfileInv
<1>2. CASE EndOfAccess \/ Process
  BY <1>2, EndOfAccessProfileInv, ProcessProfileInv
<1>3. CASE UNCHANGED vars
  <2>1. Quiet
    BY <1>3 DEF vars, Quiet, disk
  <2> QED
    BY <1>3, <2>1, QuietProfileInv DEF LockInv, vars, PromptHoldsProfileMu
<1> QED
  BY <1>1, <1>2, <1>3 DEF Next

LEMMA LockInvariant == Spec => []LockInv
BY InitLockInv, StepLockInv, PTL DEF Spec

\* A listed SSH identity always has its own seed as its item, or none: the
\* handlers that change items exclude one another, and nobody stores over an
\* identity.
THEOREM ItemsMatchKeys == Spec => []KeysMatchItems
<1>1. LockInv => KeysMatchItems
  BY DEF LockInv, ProfileInv
<1> QED
  BY <1>1, LockInvariant, PTL

\* No lease is left for a profile that was deleted or became something else,
\* however stores, updates and deletions of any number of handlers interleave
\* with prompts, fail half-way, or are cut short by a crash.
THEOREM LeasesOnlyForListedProfiles == Spec => []LeasedProfileConfigured
<1>1. LockInv => LeasedProfileConfigured
  BY DEF LockInv, ProfileInv
<1> QED
  BY <1>1, LockInvariant, PTL

\* No management session is open for an SSH identity or an unlisted profile.
THEOREM SessionsOnlyForSecrets == Spec => []SessionOnlyForSecrets
<1>1. LockInv => SessionOnlyForSecrets
  BY DEF LockInv, ProfileInv
<1> QED
  BY <1>1, LockInvariant, PTL
=============================================================================
