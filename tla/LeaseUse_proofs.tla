-------------------------- MODULE LeaseUse_proofs --------------------------
(***************************************************************************)
(* What a lease holds, for every value of the constants: its secret is the *)
(* profile's, and a grant takes nobody else's lease.  The first rests on   *)
(* profileMu: an approved grant holds the mutex, so the item it read       *)
(* cannot change before its commit.  And the broker implements             *)
(* LeaseAuthority.                                                         *)
(***************************************************************************)
EXTENDS KeySessionService_proofs

Changing == {"updating", "deleted"}
Claimed == {"approved"}

UseView(i) ==
  handler[i].at = "approved" =>
    /\ handler[i].secret = keychain[handler[i].profile]
    /\ handler[i].readAt <= now

UseInv ==
  /\ LockInv
  /\ \A i \in Handlers : UseView(i)
  /\ LeaseSecretCurrent

\* What most steps do: no item changes, nobody reaches a stage UseView speaks
\* of, and nobody leaves a window of BeingChanged.
Apart(i) ==
  \/ handler'[i] = handler[i]
  \/ /\ handler'[i].at \notin Claimed
     /\ handler[i].at \notin Changing

Undisturbed ==
  /\ UNCHANGED keychain
  /\ leases' \subseteq leases
  /\ overwritten \subseteq overwritten'
  /\ now' \in Nat /\ now <= now'
  /\ \A i \in Handlers : Apart(i)

LEMMA UndisturbedUse ==
  ASSUME UseInv, Undisturbed
  PROVE  /\ \A i \in Handlers : UseView(i)'
         /\ LeaseSecretCurrent'
<1> USE DEF Undisturbed
<1>1. ASSUME NEW i \in Handlers
      PROVE  UseView(i)'
  <2>1. UseView(i)
    BY DEF UseInv
  <2>2. CASE handler'[i].at \notin Claimed
    BY <2>2 DEF UseView, Claimed
  <2>3. CASE handler'[i] = handler[i]
    <3>1. now \in Nat /\ (handler[i].readAt \in Nat)
      BY DEF UseInv, LockInv, TypeOK, HandlerRecords, Locals
    <3> QED
      BY <2>1, <2>3, <3>1 DEF UseView
  <2> QED
    BY <2>2, <2>3 DEF Apart
<1>2. ASSUME NEW p, BeingChanged(p)
      PROVE  BeingChanged(p)'
  BY <1>2 DEF BeingChanged, Apart, Changing
<1>3. LeaseSecretCurrent'
  BY <1>2 DEF UseInv, LeaseSecretCurrent
<1> QED
  BY <1>1, <1>3

\* A handler that is in no window moves to a stage without a claim.
LEMMA MoveApart ==
  ASSUME TypeOK, NEW h \in Handlers, NEW g,
         handler[h].at \notin Changing,
         g.at \notin Claimed,
         handler' = [handler EXCEPT ![h] = g]
  PROVE  \A i \in Handlers : Apart(i)
BY DEF TypeOK, Apart

LEMMA ReturnApart ==
  ASSUME TypeOK, NEW h \in Handlers, handler[h].at \notin Changing, Return(h)
  PROVE  \A i \in Handlers : Apart(i)
BY MoveApart DEF Return, Idle, Claimed

LEMMA SameApart ==
  ASSUME UNCHANGED handler
  PROVE  \A i \in Handlers : Apart(i)
BY DEF Apart

\* Nobody changes a profile while profileMu is free.
LEMMA FreeLockNoChange ==
  ASSUME LockInv, profileMu = None
  PROVE  /\ \A i \in Handlers : handler[i].at \notin Locked
         /\ \A p : ~BeingChanged(p)
BY NoneAssumption DEF LockInv, PromptHoldsProfileMu, BeingChanged, Locked

LEMMA InitUse == Init => UseInv
<1> SUFFICES ASSUME Init
             PROVE  (\A i \in Handlers : UseView(i)) /\ LeaseSecretCurrent
  BY InitLockInv DEF UseInv
<1> QED
  BY DEF Init, UseView, Idle, LeaseSecretCurrent

LEMMA GrantUse ==
  ASSUME UseInv, NEW h \in Handlers, Grant(h)
  PROVE  (\A i \in Handlers : UseView(i)') /\ LeaseSecretCurrent'
<1>0. TypeOK /\ PromptHoldsProfileMu /\ now \in Nat
  BY DEF UseInv, LockInv, TypeOK
<1>1. ASSUME NEW c \in Capabilities, NEW d, GrantNewConsumer(h, c, d)
      PROVE  Undisturbed
  <2> DEFINE g == [Idle EXCEPT !.at = "waiting", !.cap = c, !.new = TRUE,
                               !.until = now + d]
  <2>1. /\ handler[h].at \notin Changing
        /\ g.at \notin Claimed
        /\ handler' = [handler EXCEPT ![h] = g]
        /\ UNCHANGED <<now, keychain, leases, overwritten>>
    BY <1>1 DEF GrantNewConsumer, Arrives, Changing, Claimed, Idle, disk, memory
  <2> HIDE DEF g
  <2>2. \A i \in Handlers : Apart(i)
    BY <1>0, <2>1, MoveApart
  <2> QED
    BY <1>0, <2>1, <2>2 DEF Undisturbed
<1>2. ASSUME NEW s \in consumers, GrantToConsumer(h, s)
      PROVE  Undisturbed
  <2> DEFINE g == [Idle EXCEPT !.at = "waiting", !.cap = s.cap,
                               !.until = s.expiresAt]
  <2>1. /\ handler[h].at \notin Changing
        /\ g.at \notin Claimed
        /\ handler' = [handler EXCEPT ![h] = g]
        /\ UNCHANGED <<now, keychain, overwritten>>
        /\ leases' \subseteq leases
    BY <1>2, ExpireShrinks
    DEF GrantToConsumer, Arrives, Changing, Claimed, Idle, disk
  <2> HIDE DEF g
  <2>2. \A i \in Handlers : Apart(i)
    BY <1>0, <2>1, MoveApart
  <2> QED
    BY <1>0, <2>1, <2>2 DEF Undisturbed
<1>3. ASSUME NEW p \in Profiles, NEW d, GrantPrompt(h, p, d)
      PROVE  Undisturbed
  <2> DEFINE n == Earlier(d, handler[h].until - now)
             g == [handler[h] EXCEPT !.at = "granting", !.profile = p,
                     !.entry = config[p], !.duration = n]
  <2> HIDE DEF n
  <2>1. /\ handler[h].at \notin Changing
        /\ g.at \notin Claimed
        /\ handler' = [handler EXCEPT ![h] = g]
        /\ UNCHANGED <<now, keychain, leases, overwritten>>
    BY <1>0, <1>3
    DEF GrantPrompt, At, Lock, Changing, Claimed, disk, memory, n, TypeOK,
        HandlerRecords, Locals
  <2> HIDE DEF g
  <2>2. \A i \in Handlers : Apart(i)
    BY <1>0, <2>1, MoveApart
  <2> QED
    BY <1>0, <2>1, <2>2 DEF Undisturbed
<1>4. CASE GrantRefused(h) \/ GrantDenied(h) \/ GrantOrphaned(h)
  <2>1. /\ handler[h].at \notin Changing
        /\ Return(h)
        /\ UNCHANGED <<now, keychain, overwritten>>
        /\ leases' \subseteq leases
    BY <1>4, ExpireShrinks
    DEF GrantRefused, GrantDenied, GrantOrphaned, At, Unlock, Changing, disk,
        memory
  <2>2. Undisturbed
    BY <1>0, <2>1, ReturnApart DEF Undisturbed
  <2> QED
    BY <2>2, UndisturbedUse
<1>5. CASE GrantApproved(h)
  <2> DEFINE item == keychain[handler[h].profile]
             g == [handler[h] EXCEPT !.at = "approved", !.readAt = now,
                                     !.secret = item]
  <2> HIDE DEF item
  <2>1. /\ handler[h].at = "granting" /\ handler[h] \in Locals
        /\ handler' = [handler EXCEPT ![h] = g]
        /\ UNCHANGED <<now, keychain, leases, overwritten>>
    BY <1>0, <1>5
    DEF GrantApproved, At, disk, memory, item, TypeOK, HandlerRecords
  <2>2. /\ g.at = "approved" /\ g.secret = item /\ g.readAt = now
        /\ g.profile = handler[h].profile
    BY <2>1 DEF Locals
  <2> HIDE DEF g
  <2>3. /\ handler'[h] = g
        /\ \A i \in Handlers \ {h} : handler'[i] = handler[i]
    BY <1>0, <2>1 DEF TypeOK
  <2>4. UseView(h)'
    BY <1>0, <2>1, <2>2, <2>3 DEF UseView, item
  <2>5. \A i \in Handlers \ {h} : UseView(i)'
    BY <2>1, <2>3 DEF UseInv, UseView
  <2>6. LeaseSecretCurrent'
    BY <2>1, <2>2, <2>3 DEF UseInv, LeaseSecretCurrent, BeingChanged
  <2> QED
    BY <2>4, <2>5, <2>6
<1>6. ASSUME NEW id \in LeaseIds, GrantCommit(h, id)
      PROVE  (\A i \in Handlers : UseView(i)') /\ LeaseSecretCurrent'
  <2> DEFINE g == handler[h]
  <2>1. /\ g.at = "approved" /\ Return(h)
        /\ UNCHANGED <<now, keychain, overwritten>>
        /\ leases' \subseteq leases \cup {LeaseOf(g, id)}
    BY <1>6 DEF GrantCommit, At, Unlock, disk, LiveLeases
  <2>2. \A i \in Handlers : Apart(i)
    BY <1>0, <2>1, ReturnApart DEF Changing
  <2>3. g.secret = keychain[g.profile]
    BY <2>1 DEF UseInv, UseView
  <2>4. LeaseOf(g, id).secret = keychain'[LeaseOf(g, id).profile]
    BY <2>1, <2>3 DEF LeaseOf
  <2>5. ASSUME NEW p, BeingChanged(p)
        PROVE  BeingChanged(p)'
    BY <2>2, <2>5 DEF BeingChanged, Apart, Changing
  <2>6. LeaseSecretCurrent'
    BY <2>1, <2>4, <2>5 DEF UseInv, LeaseSecretCurrent
  <2>7. \A i \in Handlers : UseView(i)'
    BY <2>1, <2>2 DEF UseInv, UseView, Apart, Claimed
  <2> QED
    BY <2>6, <2>7
<1> QED
  BY <1>1, <1>2, <1>3, <1>4, <1>5, <1>6, UndisturbedUse DEF Grant

LEMMA ExecutionUse ==
  ASSUME UseInv, NEW h \in Handlers, Use(h)
  PROVE  (\A i \in Handlers : UseView(i)') /\ LeaseSecretCurrent'
<1>0. TypeOK /\ now \in Nat
  BY DEF UseInv, LockInv, TypeOK
<1>1. ASSUME NEW c, NEW id, Execute(h, c, id)
      PROVE  Undisturbed
  <2>1. PICK l \in LiveLeases(now) :
          handler' = [handler EXCEPT ![h] =
            [Idle EXCEPT !.at = "copied", !.secret = l.secret]]
    BY <1>1 DEF Execute
  <2> DEFINE g == [Idle EXCEPT !.at = "copied", !.secret = l.secret]
  <2>2. /\ handler[h].at \notin Changing /\ g.at \notin Claimed
        /\ handler' = [handler EXCEPT ![h] = g]
        /\ UNCHANGED <<now, keychain, overwritten>>
        /\ leases' \subseteq leases
    BY <1>1, <2>1, ExpireShrinks
    DEF Execute, Arrives, Changing, Claimed, Idle, disk
  <2> HIDE DEF g
  <2>3. \A i \in Handlers : Apart(i)
    BY <1>0, <2>2, MoveApart
  <2> QED
    BY <1>0, <2>2, <2>3 DEF Undisturbed
<1>2. CASE StartChild(h)
  <2> DEFINE g == [handler[h] EXCEPT !.at = "running"]
  <2>1. /\ handler[h].at \notin Changing /\ g.at \notin Claimed
        /\ handler' = [handler EXCEPT ![h] = g]
        /\ UNCHANGED <<now, keychain, leases, overwritten>>
    BY <1>0, <1>2
    DEF StartChild, At, Changing, Claimed, disk, memory, TypeOK,
        HandlerRecords, Locals
  <2> HIDE DEF g
  <2>2. \A i \in Handlers : Apart(i)
    BY <1>0, <2>1, MoveApart
  <2>3. Undisturbed
    BY <1>0, <2>1, <2>2 DEF Undisturbed
  <2> QED
    BY <2>3, UndisturbedUse
<1>3. CASE ExecuteReturns(h)
  <2>1. /\ handler[h].at \notin Changing /\ Return(h)
        /\ UNCHANGED <<now, keychain, leases, overwritten>>
    BY <1>3 DEF ExecuteReturns, At, Changing, disk, memory
  <2>2. Undisturbed
    BY <1>0, <2>1, ReturnApart DEF Undisturbed
  <2> QED
    BY <2>2, UndisturbedUse
<1> QED
  BY <1>1, <1>2, <1>3, UndisturbedUse DEF Use

LEMMA StoreUse ==
  ASSUME UseInv, NEW h \in Handlers, Store(h)
  PROVE  (\A i \in Handlers : UseView(i)') /\ LeaseSecretCurrent'
<1>0. TypeOK /\ PromptHoldsProfileMu /\ now \in Nat
  BY DEF UseInv, LockInv, TypeOK
<1>1. ASSUME NEW p \in Profiles, NEW s \in Secrets, NEW entry,
             StoreItem(h, p, entry, s)
      PROVE  (\A i \in Handlers : UseView(i)') /\ LeaseSecretCurrent'
  <2> DEFINE g == [Idle EXCEPT !.at = "saving", !.profile = p,
                               !.entry = entry]
  <2>1. g.at = "saving" /\ g.at \in Locked
    BY DEF Locked, Idle
  <2>2. /\ Lock(h, g) /\ profileMu = None /\ handler[h].at = "idle"
        /\ handler' = [handler EXCEPT ![h] = g]
        /\ keychain' = [keychain EXCEPT ![p] = s]
        /\ KeepLeases(p)
        /\ UNCHANGED <<now, leases>>
    BY <1>1 DEF StoreItem, Arrives, Lock, memory
  <2> HIDE DEF g
  <2>3. /\ handler'[h] = g
        /\ \A i \in Handlers \ {h} : handler'[i] = handler[i]
    BY <1>0, <2>2 DEF TypeOK
  <2>4. \A i \in Handlers : handler[i].at \notin Locked
    BY <2>2, FreeLockNoChange DEF UseInv
  <2>5. ASSUME NEW i \in Handlers
        PROVE  UseView(i)'
    BY <2>1, <2>2, <2>3, <2>4 DEF UseInv, UseView, Locked
  <2>6. \A l \in leases : ~BeingChanged(l.profile)
    BY <2>2, FreeLockNoChange DEF UseInv
  <2>7. ASSUME NEW l \in leases
        PROVE  l.secret = keychain'[l.profile] \/ l.id \in overwritten'
    BY <1>0, <2>2, <2>6
    DEF UseInv, LeaseSecretCurrent, KeepLeases, LeasesOf, TypeOK, LeaseRecords
  <2> QED
    BY <2>2, <2>5, <2>7 DEF LeaseSecretCurrent
<1>2. ASSUME NEW p \in Profiles, StoreItemFails(h, p)
      PROVE  (\A i \in Handlers : UseView(i)') /\ LeaseSecretCurrent'
  <2>1. /\ profileMu = None
        /\ keychain' \in ItemsAfterFailedStore(p)
        /\ KeepLeases(p)
        /\ UNCHANGED <<now, leases, handler>>
    BY <1>2 DEF StoreItemFails, memory
  <2>2. /\ \A i \in Handlers : handler[i].at \notin Locked
        /\ \A l \in leases : ~BeingChanged(l.profile)
    BY <2>1, FreeLockNoChange DEF UseInv
  <2>3. \A i \in Handlers : UseView(i)'
    BY <2>1, <2>2 DEF UseInv, UseView, Locked
  <2>4. ASSUME NEW l \in leases
        PROVE  l.secret = keychain'[l.profile] \/ l.id \in overwritten'
    BY <1>0, <2>1, <2>2
    DEF UseInv, LeaseSecretCurrent, KeepLeases, LeasesOf, TypeOK, LeaseRecords,
        ItemsAfterFailedStore
  <2> QED
    BY <2>1, <2>3, <2>4 DEF LeaseSecretCurrent
<1>3. CASE SaveProfile(h) \/ SaveProfileFails(h)
  <2>1. /\ handler[h].at \notin Changing /\ Return(h)
        /\ UNCHANGED <<now, keychain, leases, overwritten>>
    BY <1>3 DEF SaveProfile, SaveProfileFails, At, Unlock, Changing, memory
  <2>2. Undisturbed
    BY <1>0, <2>1, ReturnApart DEF Undisturbed
  <2> QED
    BY <2>2, UndisturbedUse
<1> QED
  BY <1>1, <1>2, <1>3 DEF Store, StoreProfile, CreateSSHProfile

\* What follows an item that changed under profileMu: the holder is in a
\* window of BeingChanged, or marks the leases, or has cleared them.
LEMMA HolderLeaves ==
  ASSUME UseInv, NEW h \in Handlers, handler[h].at \in Locked, Unlock(h),
         UNCHANGED <<now, keychain>>,
         leases' \subseteq leases, overwritten \subseteq overwritten',
         \A l \in leases' : l.profile = handler[h].profile
                              => l.id \in overwritten'
  PROVE  (\A i \in Handlers : UseView(i)') /\ LeaseSecretCurrent'
<1>1. TypeOK /\ PromptHoldsProfileMu
  BY DEF UseInv, LockInv
<1>2. /\ \A i \in Handlers \ {h} : handler'[i] = handler[i]
      /\ handler'[h].at = "idle"
  BY <1>1 DEF Unlock, Return, Idle, TypeOK
<1>3. \A i \in Handlers : UseView(i)'
  BY <1>2 DEF UseInv, UseView
<1>4. ASSUME NEW l \in leases', l.profile # handler[h].profile,
             BeingChanged(l.profile)
      PROVE  BeingChanged(l.profile)'
  BY <1>2, <1>4 DEF BeingChanged
<1>5. LeaseSecretCurrent'
  BY <1>4 DEF UseInv, LeaseSecretCurrent
<1> QED
  BY <1>3, <1>5

LEMMA ManageUse ==
  ASSUME UseInv, NEW h \in Handlers, Manage(h)
  PROVE  (\A i \in Handlers : UseView(i)') /\ LeaseSecretCurrent'
<1>0. TypeOK /\ PromptHoldsProfileMu /\ now \in Nat
  BY DEF UseInv, LockInv, TypeOK
<1>1. ASSUME NEW p \in Profiles, BeginProfileManagement(h, p)
      PROVE  Undisturbed
  <2> DEFINE g == [Idle EXCEPT !.at = "revealing", !.profile = p]
  <2>1. /\ handler[h].at \notin Changing
        /\ g.at \notin Claimed
        /\ handler' = [handler EXCEPT ![h] = g]
        /\ UNCHANGED <<now, keychain, leases, overwritten>>
    BY <1>1
    DEF BeginProfileManagement, Arrives, Lock, Changing, Claimed, Idle, disk,
        memory
  <2> HIDE DEF g
  <2>2. \A i \in Handlers : Apart(i)
    BY <1>0, <2>1, MoveApart
  <2> QED
    BY <1>0, <2>1, <2>2 DEF Undisturbed
<1>2. CASE ManagementDenied(h) \/ \E t \in ManagementTokens : ManagementApproved(h, t)
  <2>1. /\ handler[h].at \notin Changing /\ Return(h)
        /\ UNCHANGED <<now, keychain, leases, overwritten>>
    BY <1>2
    DEF ManagementDenied, ManagementApproved, At, Unlock, Changing, disk,
        memory
  <2>2. Undisturbed
    BY <1>0, <2>1, ReturnApart DEF Undisturbed
  <2> QED
    BY <2>2, UndisturbedUse
<1>3. CASE UpdateRefused(h)
  <2>1. Undisturbed
    BY <1>0, <1>3, SameApart DEF UpdateRefused, Undisturbed, disk
  <2> QED
    BY <2>1, UndisturbedUse
<1>4. ASSUME NEW s \in sessions, NEW secret \in Secrets,
             UpdateProfile(h, s, secret)
      PROVE  (\A i \in Handlers : UseView(i)') /\ LeaseSecretCurrent'
  <2> DEFINE p == s.profile
             g == [Idle EXCEPT !.at = "updating", !.profile = p]
  <2>1. g.at = "updating" /\ g.profile = p
    BY DEF Idle
  <2>2. /\ profileMu = None
        /\ handler' = [handler EXCEPT ![h] = g]
        /\ keychain' = [keychain EXCEPT ![p] = secret]
        /\ UNCHANGED <<now, leases, overwritten>>
    BY <1>4 DEF UpdateProfile, Lock
  <2> HIDE DEF g
  <2>3. /\ handler'[h] = g
        /\ \A i \in Handlers \ {h} : handler'[i] = handler[i]
    BY <1>0, <2>2 DEF TypeOK
  <2>4. /\ \A i \in Handlers : handler[i].at \notin Locked
        /\ \A l \in leases : ~BeingChanged(l.profile)
    BY <2>2, FreeLockNoChange DEF UseInv
  <2>5. \A i \in Handlers : UseView(i)'
    BY <2>1, <2>2, <2>3, <2>4 DEF UseInv, UseView, Locked
  <2>6. BeingChanged(p)'
    BY <2>1, <2>3 DEF BeingChanged
  <2>7. ASSUME NEW l \in leases, l.profile # p
        PROVE  l.secret = keychain'[l.profile] \/ l.id \in overwritten'
    BY <1>0, <2>2, <2>4, <2>7
    DEF UseInv, LeaseSecretCurrent, TypeOK, LeaseRecords
  <2> QED
    BY <2>2, <2>5, <2>6, <2>7 DEF LeaseSecretCurrent
<1>5. ASSUME NEW s \in sessions, UpdateStoreFails(h, s)
      PROVE  (\A i \in Handlers : UseView(i)') /\ LeaseSecretCurrent'
  <2>1. /\ profileMu = None
        /\ keychain' \in ItemsAfterFailedStore(s.profile)
        /\ KeepLeases(s.profile)
        /\ UNCHANGED <<now, leases, handler>>
    BY <1>5 DEF UpdateStoreFails
  <2>2. /\ \A i \in Handlers : handler[i].at \notin Locked
        /\ \A l \in leases : ~BeingChanged(l.profile)
    BY <2>1, FreeLockNoChange DEF UseInv
  <2>3. \A i \in Handlers : UseView(i)'
    BY <2>1, <2>2 DEF UseInv, UseView, Locked
  <2>4. ASSUME NEW l \in leases
        PROVE  l.secret = keychain'[l.profile] \/ l.id \in overwritten'
    BY <1>0, <2>1, <2>2
    DEF UseInv, LeaseSecretCurrent, KeepLeases, LeasesOf, TypeOK, LeaseRecords,
        SessionRecords, ItemsAfterFailedStore
  <2> QED
    BY <2>1, <2>3, <2>4 DEF LeaseSecretCurrent
<1>6. CASE UpdateSaved(h)
  <2>1. /\ handler[h].at \in Locked /\ Unlock(h)
        /\ UNCHANGED <<now, keychain, overwritten>>
        /\ leases' = leases \ LeasesOf(handler[h].profile)
    BY <1>6 DEF UpdateSaved, At, Locked, disk, LeasesAfterUpdate
  <2> QED
    BY <2>1, HolderLeaves DEF LeasesOf
<1>7. CASE UpdateSaveFails(h)
  <2>1. /\ handler[h].at \in Locked /\ Unlock(h)
        /\ UNCHANGED <<now, keychain, leases>>
        /\ KeepLeases(handler[h].profile)
    BY <1>7 DEF UpdateSaveFails, At, Locked, disk, memory
  <2> QED
    BY <2>1, HolderLeaves DEF KeepLeases, LeasesOf
<1> QED
  BY <1>1, <1>2, <1>3, <1>4, <1>5, <1>6, <1>7, UndisturbedUse DEF Manage

LEMMA DeleteUse ==
  ASSUME UseInv, NEW h \in Handlers, Delete(h)
  PROVE  (\A i \in Handlers : UseView(i)') /\ LeaseSecretCurrent'
<1>0. TypeOK /\ PromptHoldsProfileMu /\ now \in Nat
  BY DEF UseInv, LockInv, TypeOK
<1>1. ASSUME NEW p \in Profiles, DeleteProfile(h, p)
      PROVE  Undisturbed
  <2> DEFINE g == [Idle EXCEPT !.at = "deleting", !.profile = p]
  <2>1. /\ handler[h].at \notin Changing
        /\ g.at \notin Claimed
        /\ handler' = [handler EXCEPT ![h] = g]
        /\ UNCHANGED <<now, keychain, leases, overwritten>>
    BY <1>1
    DEF DeleteProfile, Arrives, Lock, Changing, Claimed, Idle, disk, memory
  <2> HIDE DEF g
  <2>2. \A i \in Handlers : Apart(i)
    BY <1>0, <2>1, MoveApart
  <2> QED
    BY <1>0, <2>1, <2>2 DEF Undisturbed
<1>2. CASE DeleteApproved(h)
  <2> DEFINE p == handler[h].profile
             g == [handler[h] EXCEPT !.at = "deleted"]
  <2>1. /\ handler[h].at = "deleting" /\ handler[h] \in Locals
        /\ handler' = [handler EXCEPT ![h] = g]
        /\ keychain' = [keychain EXCEPT ![p] = None]
        /\ UNCHANGED <<now, leases, overwritten>>
    BY <1>0, <1>2 DEF DeleteApproved, At, memory, TypeOK, HandlerRecords
  <2>2. g.at = "deleted" /\ g.profile = p
    BY <2>1 DEF Locals
  <2> HIDE DEF g
  <2>3. /\ handler'[h] = g
        /\ \A i \in Handlers \ {h} : handler'[i] = handler[i]
    BY <1>0, <2>1 DEF TypeOK
  <2>4. \A i \in Handlers \ {h} : handler[i].at \notin Locked
    BY <1>0, <2>1 DEF PromptHoldsProfileMu, Locked
  <2>5. \A i \in Handlers : UseView(i)'
    BY <2>1, <2>2, <2>3, <2>4 DEF UseInv, UseView, Locked
  <2>6. /\ \A l \in leases : ~BeingChanged(l.profile)
        /\ \A l \in leases : l.profile = p => BeingChanged(l.profile)'
    BY <2>1, <2>2, <2>3, <2>4 DEF BeingChanged, Locked
  <2>7. ASSUME NEW l \in leases, l.profile # p
        PROVE  l.secret = keychain'[l.profile] \/ l.id \in overwritten'
    BY <1>0, <2>1, <2>6, <2>7
    DEF UseInv, LeaseSecretCurrent, TypeOK, LeaseRecords
  <2> QED
    BY <2>1, <2>5, <2>6, <2>7 DEF LeaseSecretCurrent
<1>3. CASE DeleteDenied(h) \/ Unlist(h) \/ UnlistFails(h)
  <2>1. /\ handler[h].at \notin Changing /\ Return(h)
        /\ UNCHANGED <<now, keychain, leases, overwritten>>
    BY <1>3
    DEF DeleteDenied, Unlist, UnlistFails, At, Unlock, Changing, disk, memory
  <2>2. Undisturbed
    BY <1>0, <2>1, ReturnApart DEF Undisturbed
  <2> QED
    BY <2>2, UndisturbedUse
<1>4. CASE ClearDeleted(h)
  <2> DEFINE p == handler[h].profile
             g == [handler[h] EXCEPT !.at = "unlisting"]
  <2>1. /\ handler[h] \in Locals
        /\ handler' = [handler EXCEPT ![h] = g]
        /\ leases' = leases \ LeasesOf(p)
        /\ UNCHANGED <<now, keychain, overwritten>>
    BY <1>0, <1>4 DEF ClearDeleted, At, disk, TypeOK, HandlerRecords
  <2>2. g.at = "unlisting"
    BY <2>1 DEF Locals
  <2> HIDE DEF g
  <2>3. /\ handler'[h] = g
        /\ \A i \in Handlers \ {h} : handler'[i] = handler[i]
    BY <1>0, <2>1 DEF TypeOK
  <2>4. \A i \in Handlers : UseView(i)'
    BY <2>1, <2>2, <2>3 DEF UseInv, UseView
  <2>5. ASSUME NEW l \in leases', BeingChanged(l.profile)
        PROVE  BeingChanged(l.profile)'
    BY <2>1, <2>3, <2>5 DEF BeingChanged, LeasesOf
  <2>6. LeaseSecretCurrent'
    BY <2>1, <2>5 DEF UseInv, LeaseSecretCurrent
  <2> QED
    BY <2>4, <2>6
<1> QED
  BY <1>1, <1>2, <1>3, <1>4, UndisturbedUse DEF Delete

LEMMA EndOfAccessUse ==
  ASSUME UseInv, EndOfAccess
  PROVE  (\A i \in Handlers : UseView(i)') /\ LeaseSecretCurrent'
<1>1. now \in Nat /\ UNCHANGED <<now, keychain, overwritten, handler>>
  BY DEF UseInv, LockInv, TypeOK, EndOfAccess, Lookup, Snapshot, Revoke,
         AdminRevoke, EndProfileManagement, disk
<1>2. leases' \subseteq leases
  BY ExpireShrinks
  DEF EndOfAccess, Lookup, Snapshot, Revoke, AdminRevoke, EndAccess,
      LiveLeases, EndProfileManagement
<1> QED
  BY <1>1, <1>2, SameApart, UndisturbedUse DEF Undisturbed

LEMMA ProcessUse ==
  ASSUME UseInv, Process
  PROVE  (\A i \in Handlers : UseView(i)') /\ LeaseSecretCurrent'
<1>1. CASE Exit \/ Crash
  BY <1>1 DEF Exit, Crash, Gone, Idle, UseView, LeaseSecretCurrent
<1>2. CASE ~(Exit \/ Crash)
  <2>1. now \in Nat
    BY DEF UseInv, LockInv, TypeOK
  <2>2. /\ now' \in Nat /\ now <= now'
        /\ UNCHANGED <<keychain, overwritten, handler>>
        /\ leases' \subseteq leases
    BY <1>2, <2>1, ExpireShrinks
    DEF Process, Tick, Sweep, Shutdown, Close, Restart, disk, memory
  <2> QED
    BY <2>2, SameApart, UndisturbedUse DEF Undisturbed
<1> QED
  BY <1>1, <1>2

LEMMA StepUse == UseInv /\ [Next]_vars => UseInv'
<1> SUFFICES ASSUME UseInv, [Next]_vars
             PROVE  (\A i \in Handlers : UseView(i)') /\ LeaseSecretCurrent'
  BY StepLockInv DEF UseInv
<1>1. ASSUME NEW h \in Handlers,
             Grant(h) \/ Use(h) \/ Store(h) \/ Manage(h) \/ Delete(h)
      PROVE  (\A i \in Handlers : UseView(i)') /\ LeaseSecretCurrent'
  BY <1>1, GrantUse, ExecutionUse, StoreUse, ManageUse, DeleteUse
<1>2. CASE EndOfAccess \/ Process
  BY <1>2, EndOfAccessUse, ProcessUse
<1>3. CASE UNCHANGED vars
  <2>1. now \in Nat
    BY DEF UseInv, LockInv, TypeOK
  <2> QED
    BY <1>3, <2>1, SameApart, UndisturbedUse DEF Undisturbed, vars
<1> QED
  BY <1>1, <1>2, <1>3 DEF Next

LEMMA UseInvariant == Spec => []UseInv
BY InitUse, StepUse, PTL DEF Spec

\* A lease holds the secret of the Keychain, but for the windows and the kept
\* leases that the property names, for any number of handlers and profiles.
THEOREM LeasesHoldTheCurrentSecret == Spec => []LeaseSecretCurrent
<1>1. UseInv => LeaseSecretCurrent
  BY DEF UseInv
<1> QED
  BY <1>1, UseInvariant, PTL

-----------------------------------------------------------------------------
(***************************************************************************)
(* GrantReplacesOnlyOwn.  Only a commit adds a lease.  It expires what was *)
(* dead when the instant of the grant was read, which is not in the        *)
(* future, and then removes what it replaces.                              *)
(***************************************************************************)
OnlyOwnReplaced ==
  \A n \in leases' \ leases : \A l \in leases \ leases' :
    \/ now >= l.expiresAt
    \/ ~ \E c \in LiveConsumers(now) : c.cap = l.cap
    \/ l.cap = n.cap /\ l.profile = n.profile

LEMMA CommitReplacesOnlyOwn ==
  ASSUME UseInv, NEW h \in Handlers, NEW id \in LeaseIds, GrantCommit(h, id)
  PROVE  OnlyOwnReplaced
<1> DEFINE g == handler[h]
<1>1. /\ g.at = "approved"
      /\ leases' = {l \in LiveLeases(g.readAt) : ~ReplacedBy(g, l)}
                     \cup {LeaseOf(g, id)}
  BY DEF GrantCommit, At
<1>2. /\ g.readAt <= now /\ g.readAt \in Nat /\ now \in Nat
      /\ \A l \in leases : l.expiresAt \in Nat
      /\ \A c \in consumers : c.expiresAt \in Nat
  BY <1>1 DEF UseInv, UseView, LockInv, TypeOK, HandlerRecords, Locals,
              LeaseRecords, ConsumerRecords
<1> SUFFICES ASSUME NEW n \in leases' \ leases, NEW l \in leases \ leases'
             PROVE  \/ now >= l.expiresAt
                    \/ ~ \E c \in LiveConsumers(now) : c.cap = l.cap
                    \/ l.cap = n.cap /\ l.profile = n.profile
  BY DEF OnlyOwnReplaced
<1>3. n = LeaseOf(g, id)
  BY <1>1 DEF LiveLeases
<1>4. CASE l \in LiveLeases(g.readAt)
  BY <1>1, <1>3, <1>4 DEF ReplacedBy, LeaseOf
<1>5. CASE l \notin LiveLeases(g.readAt)
  <2>1. CASE g.readAt >= l.expiresAt
    BY <1>2, <2>1
  <2>2. CASE g.readAt < l.expiresAt
    <3>1. ~ \E c \in LiveConsumers(g.readAt) : c.cap = l.cap
      BY <1>5, <2>2 DEF LiveLeases
    <3>2. LiveConsumers(now) \subseteq LiveConsumers(g.readAt)
      BY <1>2 DEF LiveConsumers
    <3> QED
      BY <3>1, <3>2
  <2> QED
    BY <1>2, <2>1, <2>2
<1> QED
  BY <1>4, <1>5

LEMMA OtherStepsAddNoLease ==
  ASSUME [Next]_vars,
         ~ \E h \in Handlers, id \in LeaseIds : GrantCommit(h, id)
  PROVE  leases' \subseteq leases
<1>1. ASSUME NEW h \in Handlers, Grant(h)
      PROVE  leases' \subseteq leases
  BY <1>1, ExpireShrinks
  DEF Grant, GrantNewConsumer, GrantToConsumer, GrantPrompt, GrantRefused,
      GrantApproved, GrantDenied, GrantOrphaned, memory
<1>2. ASSUME NEW h \in Handlers, Use(h) \/ Store(h)
      PROVE  leases' \subseteq leases
  BY <1>2, ExpireShrinks
  DEF Use, Execute, StartChild, ExecuteReturns, Store, StoreProfile,
      CreateSSHProfile, StoreItem, StoreItemFails, SaveProfile,
      SaveProfileFails, memory
<1>3. ASSUME NEW h \in Handlers, Manage(h)
      PROVE  leases' \subseteq leases
  BY <1>3
  DEF Manage, BeginProfileManagement, ManagementApproved, ManagementDenied,
      UpdateRefused, UpdateProfile, UpdateStoreFails, UpdateSaved,
      LeasesAfterUpdate, UpdateSaveFails, memory
<1>4. ASSUME NEW h \in Handlers, Delete(h)
      PROVE  leases' \subseteq leases
  BY <1>4
  DEF Delete, DeleteProfile, DeleteApproved, DeleteDenied, ClearDeleted,
      Unlist, UnlistFails, memory
<1>5. CASE EndOfAccess
  BY <1>5, ExpireShrinks
  DEF EndOfAccess, Lookup, Snapshot, Revoke, AdminRevoke, EndAccess,
      LiveLeases, EndProfileManagement
<1>6. CASE Process
  BY <1>6, ExpireShrinks
  DEF Process, Tick, Sweep, Shutdown, Close, Exit, Crash, Gone, Restart,
      memory
<1>7. CASE UNCHANGED vars
  BY <1>7 DEF vars
<1> QED
  BY <1>1, <1>2, <1>3, <1>4, <1>5, <1>6, <1>7 DEF Next

\* A grant takes no live lease but the one it replaces, whoever else waits,
\* commits or expires in between.
THEOREM GrantsSpareOthers == Spec => GrantReplacesOnlyOwn
<1>1. UseInv /\ [Next]_vars => [OnlyOwnReplaced]_vars
  <2> SUFFICES ASSUME UseInv, [Next]_vars
               PROVE  OnlyOwnReplaced
    OBVIOUS
  <2>1. CASE \E h \in Handlers, id \in LeaseIds : GrantCommit(h, id)
    BY <2>1, CommitReplacesOnlyOwn
  <2>2. CASE ~ \E h \in Handlers, id \in LeaseIds : GrantCommit(h, id)
    BY <2>2, OtherStepsAddNoLease DEF OnlyOwnReplaced
  <2> QED
    BY <2>1, <2>2
<1>2. [OnlyOwnReplaced]_vars =>
        [\A n \in leases' \ leases : \A l \in leases \ leases' :
           \/ now >= l.expiresAt
           \/ ~ \E c \in LiveConsumers(now) : c.cap = l.cap
           \/ l.cap = n.cap /\ l.profile = n.profile]_vars
  BY DEF OnlyOwnReplaced
<1> QED
  BY <1>1, <1>2, UseInvariant, PTL DEF Spec, GrantReplacesOnlyOwn

-----------------------------------------------------------------------------
\* The broker implements LeaseAuthority.  AccessInv is what the mapping needs: a
\* step that withdraws access maps to Withdraw, the commit of a grant to Issue.
\* What is left to show of each is that capabilities are retired when their
\* consumers go.
Creating(i) == handler[i].new /\ Granting(i)

\* Whoever holds access after the step held it before, or is the consumer a
\* grant was to create; a consumer to be created was one before, or is new.
Accounted ==
  /\ issued \subseteq issued'
  /\ \A s \in consumers' : s \in consumers \/ s.cap \in ToBeCreated
  /\ ToBeCreated' \subseteq ToBeCreated \cup {c : c \in Capabilities \ issued}

LEMMA ToBeCreatedMembers ==
  \A c : c \in ToBeCreated <=>
           \E i \in Handlers : Creating(i) /\ handler[i].cap = c
BY DEF ToBeCreated, Creating, Granting

\* No consumer to be created holds access, and its capability was drawn.
LEMMA CreatedLater ==
  ASSUME AccessInv
  PROVE  \A c \in ToBeCreated : c \in issued /\ \A s \in consumers : s.cap # c
BY ToBeCreatedMembers
DEF AccessInv, IdentifiersDrawn, NewConsumerUnseen, Creating

LEMMA RetireStep ==
  ASSUME TypeOK, AccessInv, Accounted
  PROVE  Authority!Retire
<1> USE DEF Accounted
<1>1. Retired \subseteq Retired'
  <2> SUFFICES ASSUME NEW c \in Retired
               PROVE  c \in Retired'
    OBVIOUS
  <2>1. /\ c \in issued \cap Capabilities
        /\ c \notin ToBeCreated
        /\ \A s \in consumers : s.cap # c
    BY DEF Retired
  <2>2. c \in issued' /\ c \notin ToBeCreated'
    BY <2>1
  <2>3. \A s \in consumers' : s.cap # c
    BY <2>1
  <2> QED
    BY <2>1, <2>2, <2>3 DEF Retired
<1>2. ASSUME NEW s \in consumers,
             \A r \in consumers' : r.cap = s.cap => r \notin consumers
      PROVE  s.cap \in Retired'
  <2>1. s.cap \in issued \cap Capabilities
    BY DEF TypeOK, ConsumerRecords, AccessInv, IdentifiersDrawn
  <2>2. s.cap \notin ToBeCreated
    BY CreatedLater
  <2>3. s.cap \notin ToBeCreated' /\ s.cap \in issued'
    BY <2>1, <2>2
  <2>4. \A r \in consumers' : r.cap # s.cap
    BY <1>2, <2>2
  <2> QED
    BY <2>1, <2>3, <2>4 DEF Retired
<1>3. \A c \in ConsumerView \ ConsumerView' : c.cap \in Retired'
  <2> SUFFICES ASSUME NEW c \in ConsumerView, c \notin ConsumerView'
               PROVE  c.cap \in Retired'
    OBVIOUS
  <2>1. PICK s \in consumers : c = [cap |-> s.cap, expiresAt |-> s.expiresAt]
    BY DEF ConsumerView
  <2>2. s \notin consumers'
    BY <2>1 DEF ConsumerView
  <2>3. \A r \in consumers' : r.cap = s.cap => r \notin consumers
    BY <2>2 DEF AccessInv, ConsumersUnique
  <2> QED
    BY <1>2, <2>1, <2>3
<1>4. \A c \in ConsumerView' : c.cap \notin Retired'
  BY DEF ConsumerView, Retired
<1> QED
  BY <1>1, <1>3, <1>4 DEF Authority!Retire

LEMMA ViewsOwned ==
  Owned' => Authority!Owned(LeaseView', ConsumerView')
<1> SUFFICES ASSUME Owned', NEW l \in LeaseView'
             PROVE  \E c \in ConsumerView' : c.cap = l.cap
  BY DEF Authority!Owned
<1>1. PICK m \in leases' : l.cap = m.cap
  BY DEF LeaseView
<1>2. PICK s \in consumers' : s.cap = m.cap
  BY DEF Owned
<1>3. [cap |-> s.cap, expiresAt |-> s.expiresAt] \in ConsumerView'
  BY DEF ConsumerView
<1> QED
  BY <1>1, <1>2, <1>3

\* A step that takes access away.
LEMMA WithdrawStep ==
  ASSUME TypeOK, AccessInv, Owned', Accounted,
         consumers' \subseteq consumers, leases' \subseteq leases
  PROVE  Authority!Withdraw
<1>1. ConsumerView' \subseteq ConsumerView /\ LeaseView' \subseteq LeaseView
  BY DEF ConsumerView, LeaseView
<1> QED
  BY <1>1, ViewsOwned, RetireStep DEF Authority!Withdraw

LEMMA WithdrawalMaps ==
  ASSUME TypeOK, AccessInv, Withdrawal
  PROVE  Authority!Withdraw
<1>1. ToBeCreated' \subseteq ToBeCreated
  BY DEF Withdrawal, KeepsGrants, ToBeCreated, Granting
<1> QED
  BY <1>1, WithdrawStep DEF Withdrawal, Accounted

LEMMA GrantMaps ==
  ASSUME TypeOK, AccessInv, NEW h \in Handlers, Grant(h),
         ~ \E id \in LeaseIds : GrantCommit(h, id)
  PROVE  Authority!Withdraw
<1>1. ASSUME NEW c \in Capabilities, NEW d, GrantNewConsumer(h, c, d)
      PROVE  Authority!Withdraw
  <2>1. /\ UNCHANGED <<consumers, leases>>
        /\ issued' = issued \cup {c} /\ c \notin issued
        /\ handler' = [handler EXCEPT ![h] =
             [Idle EXCEPT !.at = "waiting", !.cap = c, !.new = TRUE,
                          !.until = now + d]]
    BY <1>1 DEF GrantNewConsumer, memory
  <2>2. /\ handler'[h].cap = c
        /\ \A i \in Handlers \ {h} : handler'[i] = handler[i]
    BY <2>1 DEF TypeOK, Idle
  <2>3. ToBeCreated' \subseteq ToBeCreated \cup {c}
    BY <2>2 DEF ToBeCreated
  <2>4. Accounted
    BY <2>1, <2>3 DEF Accounted
  <2> QED
    BY <2>1, <2>4, FewerLeasesOwned, WithdrawStep
<1>2. ASSUME NEW s \in consumers, GrantToConsumer(h, s)
      PROVE  Authority!Withdraw
  <2>1. /\ consumers' \subseteq consumers /\ leases' \subseteq leases /\ Owned'
        /\ issued' = issued
        /\ handler' = [handler EXCEPT ![h] =
             [Idle EXCEPT !.at = "waiting", !.cap = s.cap,
                          !.until = s.expiresAt]]
    BY <1>2, ExpireShrinks, ExpireOwned DEF GrantToConsumer
  <2>2. /\ ~handler'[h].new
        /\ \A i \in Handlers \ {h} : handler'[i] = handler[i]
    BY <2>1 DEF TypeOK, Idle
  <2>3. ToBeCreated' \subseteq ToBeCreated
    BY <2>2 DEF ToBeCreated
  <2> QED
    BY <2>1, <2>3, WithdrawStep DEF Accounted
<1>3. ASSUME NEW p \in Profiles, NEW d, GrantPrompt(h, p, d)
      PROVE  Authority!Withdraw
  <2> DEFINE n == Earlier(d, handler[h].until - now)
  <2> HIDE DEF n
  <2>1. /\ UNCHANGED <<consumers, leases, issued>>
        /\ handler[h].at \in GrantStages /\ handler[h] \in Locals
        /\ handler' = [handler EXCEPT ![h] =
             [handler[h] EXCEPT !.at = "granting", !.profile = p,
                !.entry = config[p], !.duration = n]]
    BY <1>3 DEF GrantPrompt, Lock, At, memory, GrantStages, n, TypeOK,
                HandlerRecords
  <2>2. /\ handler'[h].cap = handler[h].cap
        /\ handler'[h].new = handler[h].new
        /\ \A i \in Handlers \ {h} : handler'[i] = handler[i]
    BY <2>1 DEF TypeOK, Locals
  <2>3. ToBeCreated' \subseteq ToBeCreated
    BY <2>1, <2>2 DEF ToBeCreated
  <2> QED
    BY <2>1, <2>3, FewerLeasesOwned, WithdrawStep DEF Accounted
<1>4. CASE GrantApproved(h)
  <2> DEFINE item == keychain[handler[h].profile]
  <2> HIDE DEF item
  <2>1. /\ UNCHANGED <<consumers, leases, issued>>
        /\ handler[h].at \in GrantStages /\ handler[h] \in Locals
        /\ handler' = [handler EXCEPT ![h] =
             [handler[h] EXCEPT !.at = "approved", !.readAt = now,
                                !.secret = item]]
    BY <1>4 DEF GrantApproved, At, memory, GrantStages, item, TypeOK,
                HandlerRecords
  <2>2. /\ handler'[h].cap = handler[h].cap
        /\ handler'[h].new = handler[h].new
        /\ \A i \in Handlers \ {h} : handler'[i] = handler[i]
    BY <2>1 DEF TypeOK, Locals
  <2>3. ToBeCreated' \subseteq ToBeCreated
    BY <2>1, <2>2 DEF ToBeCreated
  <2> QED
    BY <2>1, <2>3, FewerLeasesOwned, WithdrawStep DEF Accounted
<1>5. CASE GrantRefused(h) \/ GrantDenied(h)
  <2>1. Withdrawal
    BY <1>5, ReturnKeepsGrants, FewerLeasesOwned
    DEF GrantRefused, GrantDenied, Unlock, memory, Withdrawal
  <2> QED
    BY <2>1, WithdrawalMaps
<1>6. CASE GrantOrphaned(h)
  <2>1. Withdrawal
    BY <1>6, ReturnKeepsGrants, ExpireShrinks, ExpireOwned
    DEF GrantOrphaned, Unlock, Withdrawal
  <2> QED
    BY <2>1, WithdrawalMaps
<1> QED
  BY <1>1, <1>2, <1>3, <1>4, <1>5, <1>6 DEF Grant

\* The commit issues the lease, to the consumer it looked up again or to the
\* one it creates.
LEMMA CommitMaps ==
  ASSUME TypeOK, AccessInv, AccessInv', TypeOK',
         NEW h \in Handlers, NEW id \in LeaseIds, GrantCommit(h, id)
  PROVE  Authority!Next
<1> DEFINE g == handler[h]
           new == [cap |-> g.cap, createdAt |-> g.readAt,
                   expiresAt |-> g.until]
           lease == LeaseOf(g, id)
           l == [id |-> lease.id, cap |-> lease.cap,
                 profile |-> lease.profile, expiresAt |-> lease.expiresAt]
<1>1. /\ Granting(h) /\ g \in Locals
      /\ id \notin issued /\ issued' = issued \cup {id}
      /\ g.new \/ \E s \in LiveConsumers(g.readAt) : s.cap = g.cap
      /\ consumers' = LiveConsumers(g.readAt)
                        \cup IF g.new THEN {new} ELSE {}
      /\ leases' = {m \in LiveLeases(g.readAt) : ~ReplacedBy(g, m)}
                     \cup {lease}
      /\ Return(h)
  BY DEF GrantCommit, At, Granting, GrantStages, TypeOK, HandlerRecords,
         StillHeld, ConsumersOf, CommitConsumers, Unlock
<1>2. lease \in leases' /\ lease.cap = g.cap /\ lease.profile = g.profile
      /\ lease.id = id
  BY <1>1 DEF LeaseOf
<1>3. PICK s \in consumers' : s.cap = lease.cap /\ lease.expiresAt <= s.expiresAt
  BY <1>2 DEF AccessInv, LeaseWithinConsumer
<1> DEFINE c == [cap |-> s.cap, expiresAt |-> s.expiresAt]
<1>4. c \in ConsumerView' /\ l \in LeaseView'
  BY <1>2 DEF ConsumerView, LeaseView
<1>5. c \in Authority!ConsumerRecords /\ l \in Authority!LeaseRecords
  BY <1>2 DEF TypeOK, ConsumerRecords, LeaseRecords, Authority!ConsumerRecords,
              Authority!LeaseRecords
<1>6. \A i \in Handlers \ {h} : handler'[i] = handler[i]
  BY <1>1 DEF Return, TypeOK
<1>7. ToBeCreated' \subseteq ToBeCreated
  <2>1. handler'[h].at \notin GrantStages
    BY <1>1 DEF Return, Idle, GrantStages, TypeOK
  <2> QED
    BY <1>6, <2>1 DEF ToBeCreated
<1>8. g.new => g.cap \in ToBeCreated
  BY <1>1, ToBeCreatedMembers DEF Creating
<1>9. LiveConsumers(g.readAt) \subseteq consumers
  BY DEF LiveConsumers
<1>10. /\ consumers' \subseteq consumers \cup {s}
       /\ s \in consumers \/ g.new
  <2>1. CASE g.new
    <3>1. \A r \in consumers : r.cap # g.cap
      BY <1>8, <2>1, CreatedLater
    <3>2. s = new
      BY <1>1, <1>2, <1>3, <1>9, <3>1
    <3> QED
      BY <1>1, <1>9, <2>1, <3>2
  <2>2. CASE ~g.new
    BY <1>1, <1>9, <2>2
  <2> QED
    BY <2>1, <2>2
<1>11. c \in ConsumerView \/ Authority!Unseen(c.cap)
  <2>1. CASE s \in consumers
    BY <2>1 DEF ConsumerView
  <2>2. CASE g.new
    <3>1. s.cap \in ToBeCreated
      BY <1>2, <1>3, <1>8, <2>2
    <3>2. s.cap \notin Retired
      BY <3>1 DEF Retired
    <3>3. ASSUME NEW v \in ConsumerView
          PROVE  v.cap # s.cap
      BY <3>1, CreatedLater DEF ConsumerView
    <3> QED
      BY <3>2, <3>3 DEF Authority!Unseen
  <2> QED
    BY <1>10, <2>1, <2>2
<1>12. \A other \in LeaseView : other.id # l.id
  BY <1>1, <1>2 DEF LeaseView, AccessInv, IdentifiersDrawn
<1>13. ConsumerView' \subseteq ConsumerView \cup {c}
  <2> SUFFICES ASSUME NEW v \in ConsumerView', v # c
               PROVE  v \in ConsumerView
    OBVIOUS
  <2>1. PICK r \in consumers' : v = [cap |-> r.cap, expiresAt |-> r.expiresAt]
    BY DEF ConsumerView
  <2> QED
    BY <1>10, <2>1 DEF ConsumerView
<1>14. LeaseView' \subseteq {l} \cup
         {other \in LeaseView : other.cap # l.cap \/ other.profile # l.profile}
  <2> SUFFICES ASSUME NEW v \in LeaseView', v # l
               PROVE  v \in LeaseView /\ (v.cap # l.cap \/ v.profile # l.profile)
    OBVIOUS
  <2>1. PICK m \in leases' :
          v = [id |-> m.id, cap |-> m.cap, profile |-> m.profile,
               expiresAt |-> m.expiresAt]
    BY DEF LeaseView
  <2>2. m \in leases /\ ~ReplacedBy(g, m)
    BY <1>1, <2>1 DEF LiveLeases
  <2>3. v \in LeaseView
    BY <2>1, <2>2 DEF LeaseView
  <2> QED
    BY <1>2, <2>1, <2>2, <2>3 DEF ReplacedBy
<1>15. Authority!Owned(LeaseView', ConsumerView')
  BY InvOwned, ViewsOwned DEF AccessInv, LeaseWithinConsumer, Owned
<1>16. Authority!Retire
  <2>1. s \in consumers \/ s.cap \in ToBeCreated
    BY <1>2, <1>3, <1>8, <1>10
  <2>2. Accounted
    BY <1>1, <1>7, <1>10, <2>1 DEF Accounted
  <2> QED
    BY <2>2, RetireStep
<1>17. l.cap = c.cap /\ l.expiresAt <= c.expiresAt
  BY <1>3
<1> HIDE DEF c, l
<1>18. Authority!Issue(c, l)
  BY <1>4, <1>11, <1>12, <1>13, <1>14, <1>15, <1>16, <1>17
  DEF Authority!Issue
<1> QED
  BY <1>4, <1>5, <1>18 DEF Authority!Next

LEMMA InitMaps == Init => Authority!Init
BY DEF Init, Authority!Init, ConsumerView, LeaseView, Retired

LEMMA StepMaps ==
  ASSUME TypeOK, AccessInv, TypeOK', AccessInv', [Next]_vars
  PROVE  [Authority!Next]_(Authority!vars)
<1>1. ASSUME NEW h \in Handlers, Grant(h)
      PROVE  Authority!Next
  BY <1>1, GrantMaps, CommitMaps DEF Authority!Next
<1>2. ASSUME NEW h \in Handlers, Use(h) \/ Store(h) \/ Manage(h) \/ Delete(h)
      PROVE  Authority!Next
  BY <1>2, UseWithdraws, StoreWithdraws, ManageWithdraws, DeleteWithdraws,
     WithdrawalMaps DEF Authority!Next
<1>3. CASE EndOfAccess \/ Process
  BY <1>3, EndOfAccessWithdraws, ProcessWithdraws, WithdrawalMaps
  DEF Authority!Next
<1>4. CASE UNCHANGED vars
  BY <1>4 DEF vars, Authority!vars, ConsumerView, LeaseView, Retired,
              ToBeCreated
<1> QED
  BY <1>1, <1>2, <1>3, <1>4 DEF Next

\* Every behaviour of the broker is one the abstract authority allows, for any
\* number of consumers, profiles, leases and handlers.
THEOREM BrokerImplementsAuthority == Spec => AuthoritySpec
<1>1. TypeOK /\ AccessInv /\ (TypeOK /\ AccessInv)' /\ [Next]_vars
        => [Authority!Next]_(Authority!vars)
  BY StepMaps
<1> QED
  BY <1>1, InitMaps, AccessInvariant, PTL
  DEF Spec, AuthoritySpec, Authority!Spec
=============================================================================
