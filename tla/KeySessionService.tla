-------------------------- MODULE KeySessionService --------------------------
(***************************************************************************)
(* The lease broker of the Key Session daemon: internal/daemon/service.go, *)
(* ssh_profiles.go, the signing lookups of ssh_agent.go and the life cycle *)
(* that Run in server.go gives them.                                       *)
(*                                                                         *)
(* The service has two mutexes.  mu guards the consumers, their leases and *)
(* the management sessions; nothing waits for a human under it, so each    *)
(* critical section of mu is one action.  profileMu serialises grants and  *)
(* profile mutations and IS held across Touch ID prompts, so it is a       *)
(* variable, and the handlers that take it are modelled step by step.      *)
(*                                                                         *)
(* A consumer is named by its capability alone: its public ID is drawn     *)
(* with it, and neither is ever drawn twice.  Event journal and revision   *)
(* counter are left out.                                                   *)
(***************************************************************************)
EXTENDS Integers, FiniteSets

CONSTANTS
  Profiles, Capabilities, LeaseIds, ManagementTokens, Secrets,
  Handlers,        \* HTTP requests that can be in progress at once
  Requests,        \* the kinds of request the clients of this instance send
  None,
  MinimumLease, MaximumLease,
  MinimumConsumerDuration, MaximumConsumerDuration,
  ManagementSessionTTL,
  MaxTime          \* the bound of the clock

ASSUME NoneAssumption ==
  None \notin Profiles \cup Capabilities \cup LeaseIds \cup ManagementTokens
                \cup Secrets \cup Handlers

ASSUME DurationAssumption ==
  /\ MinimumLease \in Nat \ {0}
  /\ MaximumLease \in Nat
  /\ MinimumConsumerDuration \in Nat
  /\ MaximumConsumerDuration \in Nat
  /\ ManagementSessionTTL \in Nat
  /\ MaxTime \in Nat

VARIABLES
  phase,       \* of the daemon process
  now,         \* the clock
  config,      \* config.json: the entry of each profile
  keychain,    \* the Keychain item of each profile
  consumers, leases, sessions,   \* what mu guards
  profileMu,   \* the handler that holds it, or None
  handler,     \* the stage and the locals of each request in progress
  issued,      \* every random identifier drawn so far
  overwritten  \* profiles whose item changed while their leases were kept

memory == <<consumers, leases, sessions>>
disk == <<config, keychain>>
vars == <<phase, now, config, keychain, consumers, leases, sessions,
          profileMu, handler, issued, overwritten>>

(***************************************************************************)
(* Data.                                                                   *)
(***************************************************************************)
Unlisted == [kind |-> "none", key |-> None]
SecretEntry == [kind |-> "secret", key |-> None]
SSHEntry(seed) == [kind |-> "ssh", key |-> seed]

Entries == {Unlisted, SecretEntry} \cup {SSHEntry(s) : s \in Secrets}

\* Stages of a handler.  Those of Locked are between profileMu.Lock and
\* profileMu.Unlock.
Locked == {"granting", "approved", "saving", "revealing", "updating",
           "deleting", "deleted", "unlisting"}
GrantStages == {"waiting", "granting", "approved"}
Stages == Locked \cup {"idle", "waiting", "copied", "running"}

Locals ==
  [at : Stages, cap : Capabilities \cup {None}, new : BOOLEAN, until : Nat,
   profile : Profiles \cup {None}, entry : Entries, duration : Nat,
   readAt : Nat, secret : Secrets \cup {None}]

\* What is known at each stage.
HandlerRecords ==
  {g \in Locals :
     /\ g.at \in Locked => g.profile \in Profiles
     /\ g.at \in GrantStages => g.cap \in Capabilities
     /\ g.at = "approved" => g.secret \in Secrets}

Idle == [at |-> "idle", cap |-> None, new |-> FALSE, until |-> 0,
         profile |-> None, entry |-> Unlisted, duration |-> 0,
         readAt |-> 0, secret |-> None]

ConsumerRecords == [cap : Capabilities, createdAt : Nat, expiresAt : Nat]
LeaseRecords == [id : LeaseIds, cap : Capabilities, profile : Profiles,
                 entry : Entries, secret : Secrets, grantedAt : Nat,
                 expiresAt : Nat]
SessionRecords == [token : ManagementTokens, profile : Profiles,
                   expiresAt : Nat]

Earlier(s, t) == IF s < t THEN s ELSE t

(***************************************************************************)
(* expireLocked and expireManagementSessionsLocked keep what is live at t. *)
(* A consumer that expires takes all its leases with it.                   *)
(***************************************************************************)
LiveConsumers(t) == {c \in consumers : t < c.expiresAt}

LiveLeases(t) ==
  {l \in leases : /\ t < l.expiresAt
                  /\ \E c \in LiveConsumers(t) : c.cap = l.cap}

LiveSessions(t) == {s \in sessions : t < s.expiresAt}

ExpireLocked(t) ==
  /\ consumers' = LiveConsumers(t)
  /\ leases' = LiveLeases(t)

ConsumersOf(c, t) == {s \in LiveConsumers(t) : s.cap = c}

(***************************************************************************)
(* Handlers.  A handler is idle until its first critical section, which a  *)
(* request that waited for a mutex may reach after the shutdown began; one *)
(* in progress goes on until the process is gone, even after the service   *)
(* was closed.                                                             *)
(***************************************************************************)
Serving == phase = "up"
Alive == phase # "down"

Arrives(h, request) ==
  /\ Alive
  /\ request \in Requests
  /\ handler[h].at = "idle"

At(h, stage) == Alive /\ handler[h].at = stage

Return(h) == handler' = [handler EXCEPT ![h] = Idle]

\* The return of a handler that holds profileMu.
Unlock(h) == Return(h) /\ profileMu' = None

Lock(h, locals) ==
  /\ profileMu = None
  /\ profileMu' = h
  /\ handler' = [handler EXCEPT ![h] = locals]

(***************************************************************************)
(* Grant.  The consumer is drawn, or looked up under mu, before profileMu  *)
(* is taken; what was read of it is used again after the prompt.  Profile  *)
(* and duration of the request are chosen where they are first used.       *)
(***************************************************************************)
GrantNewConsumer(h, c, d) ==
  /\ Arrives(h, "grant")
  /\ c \in Capabilities \ issued
  /\ issued' = issued \cup {c}
  /\ handler' = [handler EXCEPT ![h] =
       [Idle EXCEPT !.at = "waiting", !.cap = c, !.new = TRUE,
                    !.until = now + d]]
  /\ UNCHANGED <<phase, now, disk, memory, profileMu, overwritten>>

GrantToConsumer(h, s) ==
  /\ Arrives(h, "grant")
  /\ ExpireLocked(now)
  /\ s \in LiveConsumers(now)
  /\ handler' = [handler EXCEPT ![h] =
       [Idle EXCEPT !.at = "waiting", !.cap = s.cap, !.until = s.expiresAt]]
  /\ UNCHANGED <<phase, now, disk, sessions, profileMu, issued, overwritten>>

\* The consumer must have a minimal lease left, as far as was known when it
\* was looked up.
\* Mutant: the lookup is trusted after the wait for profileMu.
TrustLookup(until) == TRUE

EnoughRemains(until) == until - now >= MinimumLease

GrantPrompt(h, p, d) ==
  /\ At(h, "waiting")
  /\ config[p] # Unlisted
  /\ EnoughRemains(handler[h].until)
  /\ Lock(h, [handler[h] EXCEPT !.at = "granting", !.profile = p,
                !.entry = config[p],
                !.duration = Earlier(d, handler[h].until - now)])
  /\ UNCHANGED <<phase, now, disk, memory, issued, overwritten>>

\* config.json unreadable, profile unknown, duration out of range, or too
\* little left of the consumer.
GrantRefused(h) ==
  /\ At(h, "waiting")
  /\ profileMu = None
  /\ Return(h)
  /\ UNCHANGED <<phase, now, disk, memory, profileMu, issued, overwritten>>

\* Touch ID succeeds, the item is read and an SSH seed matches its public
\* key.  The instant of the grant is read here, before mu is taken.
GrantApproved(h) ==
  LET g == handler[h]
      item == keychain[g.profile] IN
  /\ At(h, "granting")
  /\ item # None
  /\ g.entry.kind = "ssh" => item = g.entry.key
  /\ handler' = [handler EXCEPT ![h] =
       [g EXCEPT !.at = "approved", !.readAt = now, !.secret = item]]
  /\ UNCHANGED <<phase, now, disk, memory, profileMu, issued, overwritten>>

\* Denied, no item, or an item that is not the seed of the public key.
GrantDenied(h) ==
  /\ At(h, "granting")
  /\ Unlock(h)
  /\ UNCHANGED <<phase, now, disk, memory, issued, overwritten>>

\* Consumers after the commit of grant g: the new one, or those that are
\* still there.
CommitConsumers(g) ==
  LiveConsumers(g.readAt) \cup
    IF g.new THEN {[cap |-> g.cap, createdAt |-> g.readAt,
                    expiresAt |-> g.until]}
             ELSE {}

\* Mutant: no second lookup after the prompt.
NotLookedUpAgain(g) == TRUE

StillHeld(g) == g.new \/ ConsumersOf(g.cap, g.readAt) # {}

\* Mutants: nothing is replaced; the replacement is not scoped to a consumer.
ReplacesNothing(g, l) == FALSE
ReplacesForEveryone(g, l) == l.profile = g.profile

ReplacedBy(g, l) == l.cap = g.cap /\ l.profile = g.profile

\* Mutant: the deadline of the consumer is forgotten.
UncappedLease(g, id) ==
  [id |-> id, cap |-> g.cap, profile |-> g.profile, entry |-> g.entry,
   secret |-> g.secret, grantedAt |-> g.readAt,
   expiresAt |-> g.readAt + g.duration]

LeaseOf(g, id) ==
  [id |-> id, cap |-> g.cap, profile |-> g.profile, entry |-> g.entry,
   secret |-> g.secret, grantedAt |-> g.readAt,
   expiresAt |-> Earlier(g.readAt + g.duration, g.until)]

GrantCommit(h, id) ==
  LET g == handler[h] IN
  /\ At(h, "approved")
  /\ id \in LeaseIds \ issued
  /\ issued' = issued \cup {id}
  /\ StillHeld(g)
  /\ consumers' = CommitConsumers(g)
  /\ leases' = {l \in LiveLeases(g.readAt) : ~ReplacedBy(g, l)}
                 \cup {LeaseOf(g, id)}
  /\ Unlock(h)
  /\ UNCHANGED <<phase, now, disk, sessions, overwritten>>

\* The consumer ended while the prompt was open.
GrantOrphaned(h) ==
  LET g == handler[h] IN
  /\ At(h, "approved")
  /\ ~StillHeld(g)
  /\ ExpireLocked(g.readAt)
  /\ Unlock(h)
  /\ UNCHANGED <<phase, now, disk, sessions, issued, overwritten>>

(***************************************************************************)
(* Reads and revocations: mu only, so never behind a prompt.               *)
(***************************************************************************)
\* ConsumerStatus, the List and Sign of the SSH agent, and every request
\* that is refused after its lookup.
Lookup ==
  /\ Alive
  /\ ExpireLocked(now)
  /\ UNCHANGED <<phase, now, disk, sessions, profileMu, handler, issued,
                 overwritten>>

Snapshot ==
  /\ Alive
  /\ ExpireLocked(now)
  /\ sessions' = LiveSessions(now)
  /\ UNCHANGED <<phase, now, disk, profileMu, handler, issued, overwritten>>

\* The lease id of consumer c, or, without an id, c and all its leases.
EndAccess(c, id) ==
  /\ consumers' = {s \in LiveConsumers(now) : s.cap # c \/ id # None}
  /\ leases' = {l \in LiveLeases(now) : l.cap # c \/ id \notin {None, l.id}}

Revoke(c, id) ==
  /\ Alive /\ "revoke" \in Requests
  /\ EndAccess(c, id)
  /\ UNCHANGED <<phase, now, disk, sessions, profileMu, handler, issued,
                 overwritten>>

\* By the public ID the native app knows, not by the capability.
AdminRevoke(c, id) ==
  /\ Alive /\ "revoke" \in Requests
  /\ ConsumersOf(c, now) # {}
  /\ EndAccess(c, id)
  /\ UNCHANGED <<phase, now, disk, sessions, profileMu, handler, issued,
                 overwritten>>

(***************************************************************************)
(* Execute copies the secret of one exact lease under mu.  The child is    *)
(* started afterwards and runs without any lock, for as long as the        *)
(* request's timeout allows: the lease may have ended before the start.    *)
(***************************************************************************)
Execute(h, c, id) ==
  /\ Arrives(h, "exec")
  /\ ExpireLocked(now)
  /\ \E l \in LiveLeases(now) :
       /\ l.cap = c /\ l.id = id
       /\ l.entry.kind # "ssh"
       /\ handler' = [handler EXCEPT ![h] =
            [Idle EXCEPT !.at = "copied", !.secret = l.secret]]
  /\ UNCHANGED <<phase, now, disk, sessions, profileMu, issued, overwritten>>

StartChild(h) ==
  /\ At(h, "copied")
  /\ handler' = [handler EXCEPT ![h].at = "running"]
  /\ UNCHANGED <<phase, now, disk, memory, profileMu, issued, overwritten>>

\* The child ended, or did not start.
ExecuteReturns(h) ==
  /\ At(h, "running") \/ At(h, "copied")
  /\ Return(h)
  /\ UNCHANGED <<phase, now, disk, memory, profileMu, issued, overwritten>>

(***************************************************************************)
(* Keychain and config.json.  Replacing an item deletes it and adds it     *)
(* again, so a failure may leave the old item or none; Save reports an     *)
(* error before or after its rename took effect.                           *)
(***************************************************************************)
ItemsAfterFailedStore(p) ==
  {[keychain EXCEPT ![p] = item] : item \in {keychain[p], None}}

ConfigsAfterFailedSave(p, entry) ==
  {config, [config EXCEPT ![p] = entry]}

LeasesOf(p) == {l \in leases : l.profile = p}

\* Marks the leases of p: they are kept although the item is not.
KeepLeases(p) ==
  overwritten' = overwritten \cup {l.id : l \in LeasesOf(p)}

(***************************************************************************)
(* StoreProfile and CreateSSHProfile: lock, load, keychain.Store; Save;    *)
(* record and return.                                                      *)
(***************************************************************************)
\* Mutant: any name may be stored over.
AlwaysWritable(p, entry) == TRUE

Writable(p, entry) ==
  IF entry.kind = "ssh" THEN config[p] = Unlisted ELSE config[p].kind # "ssh"

\* Mutant: profileMu is not taken.
UnlockedStoreItem(h, p, entry, s) ==
  /\ Arrives(h, "store")
  /\ Writable(p, entry)
  /\ handler' = [handler EXCEPT ![h] =
       [Idle EXCEPT !.at = "saving", !.profile = p, !.entry = entry]]
  /\ keychain' = [keychain EXCEPT ![p] = s]
  /\ KeepLeases(p)
  /\ UNCHANGED <<phase, now, config, memory, profileMu, issued>>

StoreItem(h, p, entry, s) ==
  /\ Arrives(h, "store")
  /\ Writable(p, entry)
  /\ Lock(h, [Idle EXCEPT !.at = "saving", !.profile = p, !.entry = entry])
  /\ keychain' = [keychain EXCEPT ![p] = s]
  /\ KeepLeases(p)
  /\ UNCHANGED <<phase, now, config, memory, issued>>

StoreProfile(h, p, s) == StoreItem(h, p, SecretEntry, s)
CreateSSHProfile(h, p, s) == StoreItem(h, p, SSHEntry(s), s)

StoreItemFails(h, p) ==
  /\ Arrives(h, "store")
  /\ profileMu = None
  /\ Writable(p, SecretEntry)
  /\ keychain' \in ItemsAfterFailedStore(p)
  /\ KeepLeases(p)
  /\ UNCHANGED <<phase, now, config, memory, profileMu, handler, issued>>

SaveProfile(h) ==
  LET g == handler[h] IN
  /\ At(h, "saving")
  /\ config' = [config EXCEPT ![g.profile] = g.entry]
  /\ Unlock(h)
  /\ UNCHANGED <<phase, now, keychain, memory, issued, overwritten>>

SaveProfileFails(h) ==
  /\ At(h, "saving")
  /\ config' \in ConfigsAfterFailedSave(handler[h].profile, handler[h].entry)
  /\ Unlock(h)
  /\ UNCHANGED <<phase, now, keychain, memory, issued, overwritten>>

(***************************************************************************)
(* BeginProfileManagement reveals the secret after a prompt and opens a    *)
(* session; EndProfileManagement closes it; UpdateProfile spends it.       *)
(***************************************************************************)
BeginProfileManagement(h, p) ==
  /\ Arrives(h, "manage")
  /\ config[p].kind = "secret"
  /\ Lock(h, [Idle EXCEPT !.at = "revealing", !.profile = p])
  /\ UNCHANGED <<phase, now, disk, memory, issued, overwritten>>

ManagementApproved(h, t) ==
  /\ At(h, "revealing")
  /\ keychain[handler[h].profile] # None
  /\ t \in ManagementTokens \ issued
  /\ issued' = issued \cup {t}
  /\ sessions' = LiveSessions(now) \cup
       {[token |-> t, profile |-> handler[h].profile,
         expiresAt |-> now + ManagementSessionTTL]}
  /\ Unlock(h)
  /\ UNCHANGED <<phase, now, disk, consumers, leases, overwritten>>

ManagementDenied(h) ==
  /\ At(h, "revealing")
  /\ Unlock(h)
  /\ UNCHANGED <<phase, now, disk, memory, issued, overwritten>>

EndProfileManagement(s) ==
  /\ Alive
  /\ s \in sessions
  /\ sessions' = sessions \ {s}
  /\ UNCHANGED <<phase, now, disk, consumers, leases, profileMu, handler,
                 issued, overwritten>>

\* consumeManagementSession: s is spent whether or not the update succeeds.
SpendSession(s) ==
  /\ s \in LiveSessions(now)
  /\ sessions' = LiveSessions(now) \ {s}

\* No session of that token and profile.
UpdateRefused(h) ==
  /\ Arrives(h, "manage")
  /\ profileMu = None
  /\ sessions' = LiveSessions(now)
  /\ UNCHANGED <<phase, now, disk, consumers, leases, profileMu, handler,
                 issued, overwritten>>

UpdateProfile(h, s, secret) ==
  /\ Arrives(h, "manage")
  /\ config[s.profile].kind = "secret"
  /\ SpendSession(s)
  /\ Lock(h, [Idle EXCEPT !.at = "updating", !.profile = s.profile])
  /\ keychain' = [keychain EXCEPT ![s.profile] = secret]
  /\ UNCHANGED <<phase, now, config, consumers, leases, issued, overwritten>>

UpdateStoreFails(h, s) ==
  /\ Arrives(h, "manage")
  /\ profileMu = None
  /\ config[s.profile].kind = "secret"
  /\ SpendSession(s)
  /\ keychain' \in ItemsAfterFailedStore(s.profile)
  /\ KeepLeases(s.profile)
  /\ UNCHANGED <<phase, now, config, consumers, leases, profileMu, handler,
                 issued>>

\* Save changes nothing the model keeps of a secret's entry; then the leases
\* of the profile are cleared.
\* Mutant: the leases keep the old secret.
LeasesSurviveUpdate(p) == leases

LeasesAfterUpdate(p) == leases \ LeasesOf(p)

UpdateSaved(h) ==
  /\ At(h, "updating")
  /\ leases' = LeasesAfterUpdate(handler[h].profile)
  /\ Unlock(h)
  /\ UNCHANGED <<phase, now, disk, consumers, sessions, issued, overwritten>>

\* Save fails: UpdateProfile returns before it clears any lease.
UpdateSaveFails(h) ==
  /\ At(h, "updating")
  /\ KeepLeases(handler[h].profile)
  /\ Unlock(h)
  /\ UNCHANGED <<phase, now, disk, memory, issued>>

(***************************************************************************)
(* DeleteProfile: prompt, delete the item, clear leases and sessions of    *)
(* the profile, save config.json without it.                               *)
(***************************************************************************)
DeleteProfile(h, p) ==
  /\ Arrives(h, "manage")
  /\ config[p] # Unlisted
  /\ Lock(h, [Idle EXCEPT !.at = "deleting", !.profile = p])
  /\ UNCHANGED <<phase, now, disk, memory, issued, overwritten>>

DeleteApproved(h) ==
  /\ At(h, "deleting")
  /\ keychain' = [keychain EXCEPT ![handler[h].profile] = None]
  /\ handler' = [handler EXCEPT ![h].at = "deleted"]
  /\ UNCHANGED <<phase, now, config, memory, profileMu, issued, overwritten>>

\* Denied, or the item could not be deleted.
DeleteDenied(h) ==
  /\ At(h, "deleting")
  /\ Unlock(h)
  /\ UNCHANGED <<phase, now, disk, memory, issued, overwritten>>

\* Mutant: an open editor keeps its session.
SessionsSurviveDelete(p) == sessions

SessionsAfterDelete(p) == {s \in sessions : s.profile # p}

ClearDeleted(h) ==
  LET p == handler[h].profile IN
  /\ At(h, "deleted")
  /\ leases' = leases \ LeasesOf(p)
  /\ sessions' = SessionsAfterDelete(p)
  /\ handler' = [handler EXCEPT ![h].at = "unlisting"]
  /\ UNCHANGED <<phase, now, disk, consumers, profileMu, issued, overwritten>>

Unlist(h) ==
  /\ At(h, "unlisting")
  /\ config' = [config EXCEPT ![handler[h].profile] = Unlisted]
  /\ Unlock(h)
  /\ UNCHANGED <<phase, now, keychain, memory, issued, overwritten>>

UnlistFails(h) ==
  /\ At(h, "unlisting")
  /\ config' \in ConfigsAfterFailedSave(handler[h].profile, Unlisted)
  /\ Unlock(h)
  /\ UNCHANGED <<phase, now, keychain, memory, issued, overwritten>>

(***************************************************************************)
(* The process: the ticker of Run, its shutdown, and the end of it all.    *)
(***************************************************************************)
Tick ==
  /\ now < MaxTime
  /\ now' = now + 1
  /\ UNCHANGED <<phase, disk, memory, profileMu, handler, issued, overwritten>>

\* Mutant: the sweep waits for profileMu like every change of a profile.
SweepBehindPrompt(t) ==
  /\ Serving
  /\ profileMu = None
  /\ ExpireLocked(t)
  /\ sessions' = LiveSessions(t)
  /\ UNCHANGED <<phase, now, disk, profileMu, handler, issued, overwritten>>

\* t is the instant of the ticker: the loop may receive it, or get mu, late.
Sweep(t) ==
  /\ Serving
  /\ ExpireLocked(t)
  /\ sessions' = LiveSessions(t)
  /\ UNCHANGED <<phase, now, disk, profileMu, handler, issued, overwritten>>

\* SIGTERM: no sweep and no new connection while Shutdown waits, up to 5 s.
Shutdown ==
  /\ Serving
  /\ phase' = "draining"
  /\ UNCHANGED <<now, disk, memory, profileMu, handler, issued, overwritten>>

\* The deferred service.Close, whether or not every handler has returned.
Close ==
  /\ phase = "draining"
  /\ phase' = "closed"
  /\ consumers' = {} /\ leases' = {} /\ sessions' = {}
  /\ UNCHANGED <<now, disk, profileMu, handler, issued, overwritten>>

\* The process is gone, and with it memory, mutexes and handlers.
Gone ==
  /\ phase' = "down"
  /\ consumers' = {} /\ leases' = {} /\ sessions' = {}
  /\ profileMu' = None
  /\ handler' = [h \in Handlers |-> Idle]
  /\ overwritten' = {}
  /\ UNCHANGED <<now, disk, issued>>

Exit == phase = "closed" /\ Gone
Crash == Alive /\ Gone

Restart ==
  /\ phase = "down"
  /\ phase' = "up"
  /\ UNCHANGED <<now, disk, memory, profileMu, handler, issued, overwritten>>

-----------------------------------------------------------------------------
\* ssh_profiles.go:51-62, service.go:373-405, 476-510: the item of a listed SSH
\* identity is the seed of the listed public key, or is missing.  Whatever several
\* clients store, create, update and delete, with every failure and crash between
\* an item and config.json, no identity is left with a foreign secret, which every
\* grant would refuse.  It is also what earlier runs of the daemon leave on disk.
KeysMatchItems ==
  \A p \in Profiles :
    config[p].kind = "ssh" => keychain[p] \in {config[p].key, None}

Init ==
  /\ phase = "up"
  /\ now = 0
  /\ config \in [Profiles -> Entries]
  /\ keychain \in [Profiles -> Secrets \cup {None}]
  /\ KeysMatchItems
  /\ consumers = {} /\ leases = {} /\ sessions = {}
  /\ profileMu = None
  /\ handler = [h \in Handlers |-> Idle]
  /\ issued = {}
  /\ overwritten = {}

Grant(h) ==
  \/ \E c \in Capabilities,
        d \in MinimumConsumerDuration .. MaximumConsumerDuration :
       GrantNewConsumer(h, c, d)
  \/ \E s \in consumers : GrantToConsumer(h, s)
  \/ \E p \in Profiles, d \in MinimumLease .. MaximumLease :
       GrantPrompt(h, p, d)
  \/ GrantRefused(h)
  \/ GrantApproved(h)
  \/ GrantDenied(h)
  \/ \E id \in LeaseIds : GrantCommit(h, id)
  \/ GrantOrphaned(h)

Use(h) ==
  \/ \E c \in Capabilities, id \in LeaseIds : Execute(h, c, id)
  \/ StartChild(h)
  \/ ExecuteReturns(h)

Store(h) ==
  \/ \E p \in Profiles, s \in Secrets :
       StoreProfile(h, p, s) \/ CreateSSHProfile(h, p, s)
  \/ \E p \in Profiles : StoreItemFails(h, p)
  \/ SaveProfile(h)
  \/ SaveProfileFails(h)

Manage(h) ==
  \/ \E p \in Profiles : BeginProfileManagement(h, p)
  \/ \E t \in ManagementTokens : ManagementApproved(h, t)
  \/ ManagementDenied(h)
  \/ UpdateRefused(h)
  \/ \E s \in sessions, secret \in Secrets : UpdateProfile(h, s, secret)
  \/ \E s \in sessions : UpdateStoreFails(h, s)
  \/ UpdateSaved(h)
  \/ UpdateSaveFails(h)

Delete(h) ==
  \/ \E p \in Profiles : DeleteProfile(h, p)
  \/ DeleteApproved(h)
  \/ DeleteDenied(h)
  \/ ClearDeleted(h)
  \/ Unlist(h)
  \/ UnlistFails(h)

EndOfAccess ==
  \/ Lookup
  \/ Snapshot
  \/ \E c \in Capabilities, id \in LeaseIds \cup {None} :
       Revoke(c, id) \/ AdminRevoke(c, id)
  \/ \E s \in sessions : EndProfileManagement(s)

\* The instants of a tick that was delivered at once, or one unit late.
SweepTimes == {now, now - 1} \cap Nat

Process ==
  \/ Tick
  \/ \E t \in SweepTimes : Sweep(t)
  \/ Shutdown
  \/ Close
  \/ Exit
  \/ Crash
  \/ Restart

Next ==
  \/ \E h \in Handlers :
       Grant(h) \/ Use(h) \/ Store(h) \/ Manage(h) \/ Delete(h)
  \/ EndOfAccess
  \/ Process

Spec == Init /\ [][Next]_vars

\* Run's ticker fires every second until the shutdown, which takes 5 s at
\* most.  No fairness is assumed of requests, prompts or children.
Fairness == WF_vars(Sweep(now)) /\ WF_vars(Close) /\ WF_vars(Exit)

FairSpec == Spec /\ Fairness

-----------------------------------------------------------------------------
TypeOK ==
  /\ phase \in {"up", "draining", "closed", "down"}
  /\ now \in Nat
  /\ config \in [Profiles -> Entries]
  /\ keychain \in [Profiles -> Secrets \cup {None}]
  /\ consumers \subseteq ConsumerRecords
  /\ leases \subseteq LeaseRecords
  /\ sessions \subseteq SessionRecords
  /\ profileMu \in Handlers \cup {None}
  /\ handler \in [Handlers -> HandlerRecords]
  /\ issued \subseteq Capabilities \cup LeaseIds \cup ManagementTokens
  /\ overwritten \subseteq LeaseIds

\* A lease never outlives its consumer: the consumer is still held by the
\* service, and the lease ends no later.  A grant that waited behind a prompt
\* must not bring back, or exceed, a consumer revoked or expired meanwhile.
LeaseWithinConsumer ==
  \A l \in leases :
    \E c \in consumers : c.cap = l.cap /\ l.expiresAt <= c.expiresAt

\* A consumer holds at most one lease for a profile, however many of its
\* grants for that profile were in progress together.
OneLeasePerProfile ==
  \A l, m \in leases : l.cap = m.cap /\ l.profile = m.profile => l = m

\* Every leased profile is listed, as it was when its sheet was approved, and
\* the secret of an SSH lease is the seed of the listed public key: deleting,
\* storing and creating profiles, their failures and crashes included, leave
\* no lease behind for a profile that is gone or has become something else.
LeasedProfileConfigured ==
  \A l \in leases :
    /\ l.entry = config[l.profile]
    /\ l.entry # Unlisted
    /\ l.entry.kind = "ssh" => l.secret = l.entry.key

\* The profile's item is being replaced or deleted, and its leases are about
\* to be cleared.
BeingChanged(p) ==
  \E h \in Handlers : /\ handler[h].profile = p
                      /\ handler[h].at \in {"updating", "deleted"}

\* A lease holds the secret that is in the Keychain now, but for the windows
\* before an update or a deletion clears it, and for the leases known to be
\* kept over a changed item: StoreProfile clears none, nor do the failures of
\* Store and Save.
LeaseSecretCurrent ==
  \A l \in leases :
    \/ l.secret = keychain[l.profile]
    \/ l.id \in overwritten
    \/ BeingChanged(l.profile)

\* A management session, which may rewrite its profile without a prompt,
\* is never open for an SSH identity or for a profile that is not listed.
SessionOnlyForSecrets ==
  \A s \in sessions : config[s.profile] = SecretEntry

\* A grant takes no live lease away but the one it replaces: same consumer,
\* same profile.
GrantReplacesOnlyOwn ==
  [][\A n \in leases' \ leases : \A l \in leases \ leases' :
       \/ now >= l.expiresAt
       \/ ~ \E c \in LiveConsumers(now) : c.cap = l.cap
       \/ l.cap = n.cap /\ l.profile = n.profile]_vars

\* An expired lease or management session does not stay in memory, whoever
\* sits in front of a Touch ID sheet: the sweep, or the end of the process,
\* removes it.
ExpiredAccessEnds ==
  /\ \A id \in LeaseIds :
       (\E l \in leases : l.id = id /\ now >= l.expiresAt)
         ~> ~ \E l \in leases : l.id = id
  /\ \A t \in ManagementTokens :
       (\E s \in sessions : s.token = t /\ now >= s.expiresAt)
         ~> ~ \E s \in sessions : s.token = t

\* SECURITY-MODEL.md: "lease duration is bounded from one minute to 24 hours".
LeaseAtLeastMinimum ==
  \A l \in leases : l.expiresAt - l.grantedAt >= MinimumLease

\* SECURITY-MODEL.md: "daemon shutdown zeroes all owned secret buffers".
ClosedHoldsNoSecret == phase = "closed" => leases = {} /\ sessions = {}

-----------------------------------------------------------------------------
(***************************************************************************)
(* The refinement.  A capability is retired once it was drawn and is held  *)
(* neither by a consumer nor by the grant that will create it.             *)
(***************************************************************************)
ToBeCreated ==
  {handler[h].cap : h \in {i \in Handlers :
      handler[i].new /\ handler[i].at \in GrantStages}}

Retired ==
  {c \in issued \cap Capabilities :
     /\ c \notin ToBeCreated
     /\ \A s \in consumers : s.cap # c}

ConsumerView == {[cap |-> s.cap, expiresAt |-> s.expiresAt] : s \in consumers}

LeaseView ==
  {[id |-> l.id, cap |-> l.cap, profile |-> l.profile,
    expiresAt |-> l.expiresAt] : l \in leases}

Authority == INSTANCE LeaseAuthority
               WITH consumers <- ConsumerView, leases <- LeaseView,
                    retired <- Retired

\* Every behaviour of the service is one the abstract authority allows: no
\* grant revives an ended consumer, extends one, or issues a lease past its
\* deadline.
AuthoritySpec == Authority!Spec
=============================================================================
