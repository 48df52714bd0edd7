# Key Session in TLA+

Key Session is a macOS secret broker. A per-user daemon (Go) keeps secrets in
the Keychain, asks for Touch ID, and gives coding agents short *leases* on named
profiles; agents run child processes under a lease, or let the daemon sign with
a leased SSH key, and never see the secret. This directory holds TLA+ models of
the parts whose correctness depends on orders of events that a test hardly
produces, TLC configurations that check them on small instances, and TLAPS
proofs for all values of their constants. All paths below are relative to the
root of the repository.

## 1. Inventory

| Component | Code | State | Operations | Model |
|---|---|---|---|---|
| Lease broker (`Service`) | `internal/daemon/service.go`, `ssh_profiles.go` | consumers with their leases, management sessions (under `mu`); `profileMu`; revision and events | Grant, ConsumerStatus, Snapshot, Revoke, AdminRevoke, Execute, StoreProfile, CreateSSHProfile, Begin/EndProfileManagement, UpdateProfile, DeleteProfile, expiry, Close | `KeySessionService`, `LeaseAuthority` |
| SSH agent | `internal/daemon/ssh_agent.go` | the listener, up to 32 connections | List, Sign, accept, Close | its lookups: `KeySessionService`; its socket: `DaemonLock`; connections: `SSHListener` |
| Daemon run loop | `internal/daemon/server.go` | HTTP server, ticker, deferred calls | start, tick, route, stop | `KeySessionService`, `DaemonLock` |
| Lock and descriptor | `server.go`, `runtime.go` | `daemon.lock`, `endpoint.json` | acquire, judge stale, publish, remove | `DaemonLock` |
| Profile metadata | `internal/config/config.go` | `config.json` | Load, Save (temporary file and rename) | inside `KeySessionService` |
| Keychain | `internal/keychain/` | one item per profile | store (delete, add), read and delete with approval | inside `KeySessionService` |
| Audit journal | `internal/daemon/audit.go` | the last 200 events, `audit.json` | record, load, save | `AuditJournal` |
| Execution and redaction | `internal/execution/executor.go` | bounded output buffers | run, redact, truncate | `ChildOutput` |
| Agent connections | `internal/agentconnections/manager.go` | `manager.mu`; the agent's configuration and skill tree | Inspect, Repair, rollback | `AgentRepair` |
| API client | `internal/apiclient/client.go` | the discovered descriptor | Connect, startDaemon, send | `Discovery` |
| CLI and MCP server | `internal/cli/` | none between requests | one API request per command or tool call | none (section 6) |
| Update check | `internal/updatecheck/checker.go` | a cache of the last answer | Check, version precedence | `UpdateCheck` |
| App model | `app/Sources/KeySessionKit/`, `ManageProfileSheet.swift` | snapshot, `isWorking`, editor session | refresh, perform, repair, connect | `NativeApp` |
| App views, contract types, packaging | `app/Sources/KeySessionApp/`, `internal/contract/`, `scripts/` | none | layout, data types, build scripts | none (section 6) |

How they interact. The app, the CLI and the MCP server find the daemon through
`endpoint.json` and send it authenticated loopback requests; each request is a
goroutine that calls one operation of the broker, or of the agent manager. The
broker reads and writes `config.json` and the Keychain, whose reads wait for
Touch ID. The SSH agent serves signing requests on a socket of its own and looks
leases up in the broker. The run loop sweeps expired access once a second.

What is hard about it:

- **Two mutexes, one of them held across a prompt.** `mu` guards access and is
  held for moments only. `profileMu` serialises grants and profile changes and is
  held while a Touch ID sheet waits for a human, for ever if nobody answers.
  `Grant` reads the consumer under `mu`, waits for `profileMu` and for the human,
  and uses what it read.
- **Three stores changed one after another**: Keychain item, memory and
  `config.json`. Each step may fail, and the process may die between any two.
- **Shutdown that gives up** after five seconds while handlers go on.
- **Files that outlive processes**: lock, descriptor and socket; pids are reused.
- **A configuration that others write** while a repair with rollback is under way.
- **Ends that meet beginnings**: a listener is closed while a connection is between
  `Accept` and its table; a session is zeroed while its secret is copied for the
  editor; a descriptor names a daemon whose port another one has since.
- **Failures nobody is told of**: a save of the journal, a check for updates, a
  refresh of the app.

### What makes each component correct

- *Broker*: access only shrinks except by a grant; a grant never revives, exceeds
  or steals; no lease for a profile that is gone or changed its kind; a lease holds
  the current secret, but for known gaps; expired access is unusable at once, and
  is gone soon, whatever prompt is open.
- *Run loop, lock*: the daemon that serves owns lock, descriptor and socket;
  leftovers never wedge startup; there is one daemon.
- *Agent repair*: edits of others survive; the skill is never lost; a repair that
  failed can be repeated with success.
- *Audit journal*: memory and file hold the newest events there are, but for
  failed saves, in order; a lease ends once; the journal tells which leases live.
- *SSH listener*: never more than 32 connections, every slot comes back, none is
  served after Close.
- *Execution*: no whole secret is left in truncated, redacted output; what is
  captured is the beginning of the output; a timeout ends the wait.
- *API client*: a client that keeps trying connects, whatever it finds and whoever
  registers the job at the same time; one attempt ends in time.
- *Update check*: who follows the offers never goes back; what is offered is newer;
  a cache in use was true within its lifetime and the time of one request.
- *App model*: it shows the truth in the end, whatever came in which order; the busy
  state ends; a secret that was torn while it was copied is never saved.

## 2. Modules and how they correspond to the code

| Module | Lines stand for | Composed or proved in |
|---|---|---|
| `LeaseAuthority` | nothing: an abstract specification of access | implemented by `KeySessionService` |
| `KeySessionService` | the broker and its process | `MCKeySessionService`; `KeySessionService_proofs`, `LeaseUse_proofs` (with the refinement) |
| `DaemonLock` | `acquireLock`, `descriptorConfirmsDaemon`, files of `Run` | `DaemonLock_proofs` |
| `AgentRepair` | `repairCodex`, `repairClaude` and what they call | `AgentRepair_proofs` |
| `SSHListener` | `sshAgentListener`, `listenSSHAgent` | `MCDaemonParts`; `DaemonParts_proofs` |
| `AuditJournal` | `audit.go`, `recordLocked` and its callers | `MCDaemonParts`; `AuditJournal_proofs` |
| `ChildOutput` | `executor.go` | `MCDaemonParts`; `DaemonParts_proofs` |
| `Discovery` | `client.go`, `authorized`, the descriptor in `Run` | `MCClientParts`; `ClientParts_proofs` |
| `UpdateCheck` | `checker.go`, `updates.go` | `MCClientParts`, `MCUpdateRate`; `UpdateCheck_proofs` |
| `NativeApp` | `AppModel.swift`, `ManageProfileSheet.swift`, management in `service.go` | `MCClientParts`; `ClientParts_proofs` |

`MCDaemonParts` and `MCClientParts` each put three parts that share no state beside
one another. A behaviour chooses one part and moves nothing else, so one run checks
all three and their state spaces add up instead of multiplying.

### `KeySessionService`

A critical section of `mu` contains no wait, so it is one action. A handler that
takes `profileMu` is a record `handler[h]` that holds its stage and its locals,
and it moves on by one action per place where others may run: before the lock,
at the prompt, between the prompt and `mu`, between a Keychain change and the
`Save` that follows.

| Code | State or actions |
|---|---|
| `Service.consumers`, their leases, `managementSessions` | `consumers`, `leases`, `sessions` |
| `config.json`, Keychain items | `config`, `keychain` |
| `mu`, `profileMu` | atomicity of actions, `profileMu` |
| `expireLocked`, `expireManagementSessionsLocked` | `ExpireLocked`, `LiveSessions` (also from the ticker: `Sweep`) |
| `Grant` | `GrantNewConsumer` / `GrantToConsumer`, `GrantPrompt` or `GrantRefused`, `GrantApproved` or `GrantDenied`, `GrantCommit` or `GrantOrphaned` |
| `ConsumerStatus`, `List`, `Sign`, refused requests | `Lookup` |
| `Snapshot`, `Revoke`, `AdminRevoke` | the actions of those names |
| `Execute` | `Execute` (the copy under `mu`), `StartChild` (after it), `ExecuteReturns` |
| `StoreProfile`, `createSSHProfile` | `StoreProfile` / `CreateSSHProfile`, `StoreItemFails`, `SaveProfile`, `SaveProfileFails` |
| `BeginProfileManagement`, `EndProfileManagement` | `BeginProfileManagement`, `ManagementApproved`, `ManagementDenied`, `EndProfileManagement` |
| `UpdateProfile` | `UpdateRefused`, `UpdateProfile`, `UpdateStoreFails`, `UpdateSaved`, `UpdateSaveFails` |
| `deleteProfile` | `DeleteProfile`, `DeleteApproved`, `DeleteDenied`, `ClearDeleted`, `Unlist`, `UnlistFails` |
| `Run` | `Tick`, `Sweep`, `Shutdown`, `Close`, `Exit`, `Crash`, `Restart` |

Abstractions. A consumer is named by its capability alone; random identifiers are
drawn from finite sets, and never twice (`issued`). A secret is one value; its bytes
and their zeroing are left out. A failed `Store` leaves the old item or none, because
replacing an item deletes it first; a failed `Save` leaves either file, because an
error may be reported after the rename. A child is started after `mu` was released, so
the lease it was copied from may have ended by then. `overwritten` is a history
variable: it marks the leases that the code keeps although their profile's item
changed. The ticker's instant may be one unit old when it is applied. Handlers go on
after `Close`, as they do in the code until the process is gone.

### `DaemonLock`

A process is named by its pid and moves through the steps of `acquireLock` and
`Run`: a file-system call is an action. `lock` holds who created the file, the
pid written in it (none between `O_EXCL` and `Fprintf`) and whether it is
younger than five seconds. Removal removes whatever is at the path. `ReusePid`
gives the pid of a dead daemon to an unrelated program. A daemon that serves is
assumed to answer the handshake within the 500 ms `descriptorConfirmsDaemon`
allows. `Overlap = FALSE` stands for launchd, which runs one instance of the job:
a daemon starts, or is told to stop, only while no other is starting or
stopping. It may crash at any time, and one may start while another serves.

### `AgentRepair`

One repair at a time (`manager.mu`), of one host; the functions for Codex and
Claude Code differ in their command lines only. The configuration file is
abstracted to its entry for Key Session and to how many edits of others it
holds; the agent's command rewrites it in one step and may fail with or without
having done so. `Blind` names the stages at which edits are made although no
rollback can see them. Not modelled: hosts without an executable, a skill tree
that contains links, and the parsing of the agents' formats.

### `SSHListener`

| Code | State or actions |
|---|---|
| `connections`, `closed` of `sshAgentListener` | `connections`, `socket` |
| a connection between `Accept` and `listener.mu.Lock` | `held` |
| the accept loop | `Accept`, `AcceptFails`, `Admit` (the critical section, with the refusal) |
| a connection's goroutine | `server`: `ServeEnds` (client, deadline or Close), `Forget` |
| `Close` | `CloseSocket`, then `CloseConnections` under `mu` |

Requests over a connection are `Lookup` of `KeySessionService`. After any error of
`Accept` the loop ends, as in the code.

### `AuditJournal`

A handler that holds `mu` has its records in `todo`; `RecordLocked` is one of them
with its change of `live`, the append, the cut to `MaximumAuditEvents` and the save,
which may fail. Between two of them the process may die (`Dies`). `ServiceClose` is
`Service.Close` alone: it clears the leases without a record, and the process goes on
as `"closed"`, with handlers that may still grant, end and record, until it dies.
`NewService` loads the file. `history` is not in the code: it is every event that is
not lost; `saved` is how many of them the last save that worked wrote, and `cleared`
how many there were when memory last lost all leases, by a start or by Close. Who may
be granted, and when, is the broker's business: here a lease that is live ends, and
one that was never granted may be.

### `ChildOutput`

Text is a sequence of symbols. `ValuesToRedact` is the list the code makes: the
secret, the password of a URI as `url.Parse` decodes it, and what `QueryUnescape`
makes of that, if it differs; what the two functions return are constants. `Redact`
replaces one value after the other, the way `strings.ReplaceAll` scans. A child
starts, or its start fails and the error is captured (`StartFails`). Writes arrive in
chunks (`BufferWrite`), a descendant may inherit the pipe (`Spawn`), and `RunReturns`
needs the pipe closed by all. Redaction follows the cut, so a prefix of a secret may
remain at the cut: only whole secrets are promised, and checked. The stream is
standard error; standard output differs in that no error of a start goes there.

### `Discovery`

The client's stages are those of `Connect`: read the descriptor (`Discover`),
`Handshake`, `Kickstart`, which needs a loaded job, else `Bootstrap`, which fails
where another client has loaded the job since, and with it the attempt; `Poll` until
the deadline, `GiveUp`; then `Send`, once. The daemon publishes its
descriptor when it starts and removes it when it stops, not when it crashes; ports
are used again. `Authorized` is the bearer check of the server, which a token passes
only at the daemon it was drawn by. `late` is the client's 5 s.

### `UpdateCheck`

An identifier of a prerelease is a record of what the code asks of its text (its
rank among strings, what `Atoi` makes of it, whether it is all digits, whether it
starts with a zero), so that `"-1"` and twenty digits are cases of their own.
`CompareVersions` follows the code, `Precedes` is Semantic Versioning. `Ask`,
`FeedAnswers` (the server decides what is latest), `Stamp` (the process reads the
clock for `CheckedAt` when the answer has come) and `WriteCache` are steps of one
process among several; the feed may change, and time pass, between any two. Between
the answer and its stamp this is at most `RequestTime`, the client's timeout; it is
assumed that nobody suspends the process there. The clock may be set back (`SetBack`);
`back` is by how much in all.

### `NativeApp`

The main actor is the atomicity of actions: a task gives it up at an `await` only. The
poll, a command, the doctor and the sheet have a task each, and the doctor's does not
ask whether another one works. `perform` is `StartCommand` with `RequireClient` (up to
its `await`, after which `ConnectDaemon` and `Resume` go on), `SendCommand`,
`Answered` or `ErrorAnswered`, and after an answer the refresh (`ConnectDaemon`,
`Resume`, `Fetch`, `Show`) and `Done`; the sheet adds `StartUnlock` and `StartSave`.
`Dismiss` drops the sheet's session and leaves the request that ends it to a task of
its own, which is one of the causes of `SessionEnds`. On the daemon's side are the
handler of `BeginProfileManagement` (`Approve`, `CopySecret`: the copy is made after
`mu` is released), `UpdateProfile` (`SendSave`, `SaveRefused`), the sweep and `Close`.
A copy that is made after the session was cleared is `"torn"`: a value of bytes and
zeros.

## 3. Runs

| Run | Instance | Checks |
|---|---|---|
| `leases` | 2 handlers, 2 consumers, 2 profiles, 2 leases, time 0..3; grants and revocations | `TypeOK`, `LeaseWithinConsumer`, `OneLeasePerProfile`, `GrantReplacesOnlyOwn`, and `AuthoritySpec` (the refinement) |
| `profiles` | 2 handlers, 1 profile, 2 secrets, 2 sessions, time 0..2; grants, stores, management | `LeasedProfileConfigured`, `LeaseSecretCurrent`, `SessionOnlyForSecrets`, `KeysMatchItems` |
| `expiry` | 2 handlers, 1 of everything else, time 0..3; grants, executions, sessions; with fairness | `ExpiredAccessEnds` |
| `daemon_lock` | 3 pids, 4 faults, no overlap; with fairness | `ServesWhatItOwns`, `StartupNotWedged` |
| `agent_repair` | 2 edits, 3 faults; with fairness | `NoEditLost`, `SkillKept`, `RepairConverges` |
| `daemon_parts` | listener: 3 links, 2 slots; journal: 3 leases, limit 3, 6 events; output: 4 symbols, limit 3, 5 written; with fairness | `TypeOK`, `ConnectionLimit`, `NoneServedAfterClose`, `SlotsAreFreed`; `JournalIsWindow`, `EndsOnce`, `LivesUntilRecorded`; `NothingWholeLeaks`, `CapturesTheBeginning`, `OutputReturns` |
| `client_parts` | discovery: 2 clients, 2 ports, 2 daemons; update check: 3 of 10 versions and 1 process, or 2 versions, 2 processes, time 0..4 and a clock set back by 1; app: the poll and two of three other tasks, 2 daemons, 1 change; with fairness | `TypeOK`, `ClientsConnect`, `ClientsReturn`; `OfferIsNewer`, `NewerIsOffered`, `OffersNeverCycle`, `CacheNotStale`; `TornNeverStored`, `AppShowsTheTruth`, `AppWorkEnds` |
| `short_lease` | | `LeaseAtLeastMinimum` is violated: finding 1 |
| `late_grant` | | `ClosedHoldsNoSecret` is violated: finding 2 |
| `lock_race` | 3 pids, overlapping starts | `SoleOwner` is violated: finding 3 |
| `lost_edit` | an edit while the old entry is removed | `NoEditLost` is violated: finding 4 |
| `update_rate` | 1 process, 2 versions | `AskedOncePerLifetime` is violated: finding 5 |

### What the properties say, and why

- `LeaseWithinConsumer`: a grant acts on a consumer it looked up before a prompt
  that may last for hours. Without the second lookup under `mu`, or without the
  cap by the consumer's deadline, a lease outlives its consumer.
- `OneLeasePerProfile`, `GrantReplacesOnlyOwn`: two grants of one consumer for one
  profile may both be past their lookup; the second replaces the first's lease
  and nobody else's.
- `AuthoritySpec`: whatever the handlers do, access changes as `LeaseAuthority`
  says: it is withdrawn, or one lease is issued to a consumer that holds access
  or is new, and who lost access never has it again.
- `LeasedProfileConfigured`, `SessionOnlyForSecrets`: deletions, creations under
  the same name and their failures leave no lease or session behind for something
  else.
- `LeaseSecretCurrent` says exactly where a lease may hold an old secret: between
  the item's change and the clearing of leases, and where the code keeps leases:
  `StoreProfile` over a listed profile, and failures of `Store` and `Save`.
- `KeysMatchItems`: an SSH identity is two halves in two stores, the seed in the
  Keychain and the public key in `config.json`, written one after the other. Without
  `profileMu` around both, or with a name stored over, the halves of different
  identities meet.
- `ExpiredAccessEnds`: sweeps may be late, but they must not wait for `profileMu`,
  which a sheet that nobody answers holds for ever.
- `ServesWhatItOwns`, `StartupNotWedged`: dead locks with living pids neither
  keep a daemon from starting nor let a second one replace the first.
- `NoEditLost`, `SkillKept`, `RepairConverges`: see `AgentRepair`.
- `ConnectionLimit`, `NoneServedAfterClose`, `SlotsAreFreed`: Close marks the listener
  closed and shuts what is in the table under one lock, and the loop looks at that
  mark under the same lock; a connection it holds meanwhile would otherwise outlive
  Close. A silent client keeps its slot until its deadline only.
- `JournalIsWindow`: the file is what memory was at the last save that worked; the
  next one makes a failed one good. `EndsOnce`, `LivesUntilRecorded`: a handler that
  ends several leases saves after each; wherever it dies, no lease ends twice, and
  while the process lives, before Close and after it, no lease is gone from memory
  without a record of its end.
- `NothingWholeLeaks`: redaction works on what the cut left, one replacement may
  join or split what the next one looks for, and a password that was decoded is no
  part of the secret any more. `CapturesTheBeginning`: the bookkeeping
  of the bounded buffer for all sizes of writes. `OutputReturns` states the exception
  too: a descendant that holds the pipe.
- `ClientsConnect`, `ClientsReturn`: no order of crashes, stale files, missing jobs
  and lost races to register one keeps a client out for ever that goes on trying, and
  none makes one attempt last for ever.
- `OffersNeverCycle`: what `Atoi` takes for a number and what Semantic Versioning
  does differ; the order must be one all the same. `OfferIsNewer` compares it with
  `Precedes` where the two agree, and `NewerIsOffered` does so the other way round: no
  newer version is taken for an older or an equal one. `CacheNotStale`: several
  processes rename their answers over one another, late, each with the time it read
  after its answer had come; and a clock that is set back lets a cache be used for
  longer, but by no more than that.
- `TornNeverStored`: nothing in the code keeps the copy from being torn; what saves
  the item is that the torn session is gone when the save comes with its token.
- `AppShowsTheTruth`, `AppWorkEnds`: refreshes of the poll and of commands overlap and
  may come from different daemons, and `runDoctor` ignores the busy state; what is on
  the screen may be stale for a while, but not for ever.

Each property is known to fail when a plausible bug is put into the code: next
to the definition it changes stands an operator marked *Mutant*.

### Bounds

Two handlers give every pairwise interleaving of requests; `profileMu` and `mu`
serialise the rest, and no operation reads what more than one other left
half-done. Two consumers are needed for a grant that touches another's lease,
two leases for a replacement, two secrets for a stale one. The clock is bounded
by `MaxTime`; with a consumer of two units and leases of one or two, time 3
lets leases end before, with and after their consumer. Kinds of requests are
split over the runs by `Requests`: leases are checked without profile changes
and profile changes with one consumer, because they meet only in a lease's entry
and secret. Identifiers run out; a behaviour then goes on without grants.
Symmetry is used only in the runs without liveness. The proofs in section 4 need
none of these bounds.

In `daemon_parts` three links and two slots let one client be refused while another
is between `Accept` and the table; a limit of 3 and 6 events fill the window twice
and cut it; 5 symbols written against a limit of 3 put a secret of three symbols
before, at and after the cut. The password of that secret is written with an escape,
so that the secret, what `url.Parse` makes of the password and what `QueryUnescape`
makes of that are three values. In `client_parts` two ports and two daemons are the
least with a stale descriptor whose port is taken again; a cycle of offers needs three
versions, and every three of the ten are tried; time 4 with a lifetime of 2 lets a
cache grow old twice; a `RequestTime` of 1 puts a stamp at the time of its answer and
after it, and `MaxSetBack` 1 makes the last instant of a lifetime come twice. In the
app two daemons are enough for an answer of the first that comes after one of the
second. Of the command, the doctor and the sheet, each behaviour lets one rest: every
two of them meet, with the poll beside them. All three at once are not checked, because
of the number of states; tasks share only `client`, `shown` and `isWorking`, each of
which a step overwrites whole, so that what matters is which two came last.

In `DaemonLock` three pids are a daemon, its successor and a third for reuse;
four faults allow a crash, a reused pid, another crash and a failed start. In
`AgentRepair` two edits meet both images of a rollback, and three faults a
failed command, a failed rollback or upgrade, and a crash.

### Fairness

- `KeySessionService`: the ticker fires while the daemon is up (`Sweep(now)`),
  and a shutdown ends (`Close`, `Exit`), since `Shutdown` has a timeout. Nothing
  is assumed of clients, of the user in front of a sheet, or of child processes.
- `DaemonLock`: launchd restarts the daemon (`KeepAlive`), a running process
  runs, and files grow old. Faults are bounded in number.
- `AgentRepair`: a repair that began goes on (every command has a timeout of
  15 s), and the user asks again while there is something to repair.

- `SSHListener`: goroutines run, the deadline of a connection passes, `Accept` on a
  closed socket fails, a `Close` that began goes on. Nobody need dial or hang up.
- `ChildOutput`: a child starts or does not, the deadline passes and `Wait` returns
  when the pipe is closed. Nothing makes a descendant exit.
- `Discovery`: launchd starts a loaded job (`KeepAlive`), processes run, time passes,
  and a client that failed is used again. Daemons crash finitely often.
- `NativeApp`: tasks go on after an `await`, the poll wakes up, launchd restarts the
  daemon, one that closes exits, and the user in front of a sheet approves or cancels
  (only `AppShowsTheTruth` and `AppWorkEnds` need the last).
- `UpdateCheck`: none.

`CHECK_DEADLOCK FALSE` is set where a model really stops: `AgentRepair` once the agent
is connected and edits and faults are used up; the parts once a closed listener
drained, an execution returned, or the clock and the releases are at their bounds.

## 4. Proofs

All proofs are for arbitrary constants under the assumptions the modules name:
`NoneAssumption` (`None` is not one of the other values), `DurationAssumption`
(durations are natural numbers, the minimal lease is positive), `LockAssumption`,
`RepairAssumption`, `ListenerAssumption` (finitely many links, at least one slot),
`JournalAssumption`, `AppAssumption` (there is a daemon), `NilAssumption` (`Nil` is no
secret), `OutputAssumption` (no sensitive value is empty, since the code skips empty
ones, and none contains the note that replaces it), `UpdateAssumption`,
`IdentifierAssumption` and `VersionAssumption` (what is true of texts: their order
tells identifiers apart, a number without leading zeros is written in one way, a
version has three numbers). `PartsAssumption` only says that `MCClientParts` has the
process it moves alone.

| Theorem | States |
|---|---|
| `TypeCorrect` | `Spec => []TypeOK` |
| `LeaseNeverOutlivesConsumer` | `Spec => []LeaseWithinConsumer` |
| `OneLeaseEach` | `Spec => []OneLeasePerProfile` |
| `ItemsMatchKeys` | `Spec => []KeysMatchItems` |
| `LeasesOnlyForListedProfiles` | `Spec => []LeasedProfileConfigured` |
| `SessionsOnlyForSecrets` | `Spec => []SessionOnlyForSecrets` |
| `ServerOwnsItsPaths`, `OneDaemonServes` | `~Overlap` implies `Spec => []ServesWhatItOwns` and `Spec => []SoleOwner` |
| `EditsSurviveRepair` | `Blind = {}` implies `Spec => []NoEditLost` |
| `SkillSurvivesRepair` | `Spec => []SkillKept` |
| `LeasesHoldTheCurrentSecret` | `Spec => []LeaseSecretCurrent` |
| `GrantsSpareOthers` | `Spec => GrantReplacesOnlyOwn` |
| `BrokerImplementsAuthority` | `Spec => AuthoritySpec` |
| `ListenerKeepsLimit`, `CloseEndsService` | `ConnectionLimit`, `NoneServedAfterClose` |
| `JournalKeepsTheNewest`, `LeasesEndOnce`, `JournalTellsWhoLives` | `JournalIsWindow`, `EndsOnce`, `LivesUntilRecorded` |
| `TornSecretsAreNotSaved` | `AppSpec => []TornNeverStored` |
| `CapturedIsTheBeginning`, `RedactionLeavesNothingWhole` | `CapturesTheBeginning`, `NothingWholeLeaks` |
| `RedactionSparesTheRest` | a text without any sensitive value is what `Redact` returns of it |
| `OffersAreNewer`, `NewerIsNotWithheld`, `NoCycleOfOffers`, `CacheStaysFresh` | `OfferIsNewer`, `NewerIsOffered`, `OffersNeverCycle`, `CacheNotStale` |
| `ComparisonIsPrecedence` | `CompareVersions(v, w) > 0 <=> Precedes(w, v)` for versions both can read |
| `DaemonPartsBehave`, `ClientPartsBehave` | the composed `Spec` implies each part's own |
| `DaemonPartsTyped`, `ClientPartsTyped` | `Spec => []TypeOK` of the compositions |

A theorem about a part is about that part's own specification (`ListenerSpec`,
`JournalSpec`, `OutputSpec`, `DiscoverySpec`, `UpdateSpec`, `AppSpec`).
`DaemonPartsBehave` and `ClientPartsBehave` carry it over to the composition that the
runs check: a step of one part is a step of its specification, and the others stutter.

**Types.** `TypeOK` alone is inductive because handlers have the locals their
stage uses (`HandlerRecords`): a handler that holds `profileMu` has a profile, one
that was approved a secret.

**Access** (`AccessInv`). `LeaseWithinConsumer` is not inductive: a grant that
waits may commit later. The invariant adds what the waiting grant knows:
consumers are unique by capability; identifiers in use were drawn; a grant that
creates a consumer has a capability nobody else uses; a grant for an old one
knows the very deadline that the consumer has, if it is still there. Steps fall
into three that start or finish a grant, each proved on its own, and all the
others, which are `Withdrawal`s: they take access away, a consumer never without
its leases, and start no grant. One lemma covers them.

**Profiles** (`LockInv`). `LeasedProfileConfigured` follows from what is true at each
stage inside `profileMu`: the entry a grant looked up is still the profile's entry
when it commits, since only a holder of `profileMu` changes `config`; a deletion that
removed the item has cleared the leases before it unlists the profile; a store never
writes over an SSH identity. `KeysMatchItems` is inductive only with this: a creation
that has stored its seed lists the public key of that very seed. How the model encodes
the mutex (`PromptHoldsProfileMu`) is part of the invariant, and steps are grouped by
what they do to the lock (`LockStep`, `HoldStep`, `UnlockStep`, `OutsideStep`).

**Daemon lock** (`LockInv` of `DaemonLock_proofs`). A stale lock is removed only
while nobody serves. This needs what the starter saw (`SawTheDaemon`), that at
most one daemon is between two stable stages (`OneAtATime`), and what it has set
up so far (`SetUp`). `OneDaemonServes` is what finding 3 says is false when starts
overlap: two that serve would each have written the one lock.

**Agent repair** (`RepairInv`). The image to restore holds every edit that the
image to compare with holds, and the file is the latter when it is replaced.

**Use of leases** (`UseInv`). To `LockInv` the invariant adds what a grant relies on
(`UseView`): one that was approved holds the secret its item still has, since only a
holder of `profileMu` writes items. While an item is being changed,
`LeaseSecretCurrent` itself makes the exception. `UndisturbedUse` covers all steps
that change no item and approve no grant.

**Refinement.** With the state unchanged under the mapping, a `Withdrawal` is a
`Withdraw` of the authority, `GrantCommit` an `Issue` to the consumer it names, and a
step that retires identifiers keeps them accounted for. The proof reuses the case
split of `AccessInv`: what a waiting grant knows is what makes its commit an `Issue`.

**Listener** (`ListenerInv`). The two properties and the types are inductive together;
the limit needs that the links, and so the table, are finite.

**Journal** (`JournalInv`). Two lemmas on sequences carry `JournalIsWindow`: the newest
of the newest and one more are the newest of all (`NewestOfNewest`), and a prefix stays
what it is (`PrefixStable`). The others rest on `Pending`: what a critical section is
about to record is still true when it does, since each of its records concerns
another lease. `LivesUntilRecorded` is inductive with that: `Close` waits for `mu`, so
it finds no section half done, and moves `cleared` to the end of the history.

**App** (`TornInv`). A torn copy exists only with a handler or a sheet whose token no
daemon knows any more (`TornHasNoSession`); an answered handler is awaited by the sheet
(`HandlerAwaited`).

**Execution** (`OutputInv`). `CutOfAppend` says that cutting what was written so far
and then a chunk is cutting both together; the bookkeeping of `remaining` follows.
Redaction computes over sequences recursively, where no induction theorem can be
instantiated here; `ReplaceAll` and `Redact` are recursive functions, though, and what
they return is shown by the least place at which it would not hold (`LeastNatural`).
`Pieces` is what holds at every place of the text: what the rest of the scan returns
consists of notes and of pieces of the text, and no occurrence of the value starts
where a piece does. So a value that has no note in it and is found in the result was
found in the text, and is not the one that was replaced (`ReplaceAllRedacts`); turn
by turn, no value comes back (`RedactLeavesNone`). A scan that finds nothing copies the
rest of the text (`ReplaceAllSpares`), so redaction changes nothing else.

**Update check** (`UpdateInv`). `Newer` says what `compareVersions` computes, without
computing (`ComparedIsNewer`, by the first place where two lists differ). It is
transitive and never reflexive on all versions, also where `Atoi` takes `"-1"` for a
number: numbers, of whatever kind, go before texts, and the text decides among
identifiers of equal number. Where `Atoi` and Semantic Versioning agree it is
`Precedes` (`ComparisonIsPrecedence`): from left to right an offer is newer, from
right to left no newer version is kept back. The invariant adds to it that what is
installed is newer than all that was, that an offer belongs to a process that has
ended and is newer than what is installed, since nobody else runs during an upgrade,
and that each result, in the cache or on its way there, is no older than its time
says (`Honest`): an answer that was received has the time at which the server gave
it, one that was stamped has a time later by a request's at the most, and a clock that
was set back makes either look younger, by as much as it was.

**Types of the app and of discovery** (`AppTypeInv`, `DiscoveryTypeOK`). The latter are
inductive as they stand. A task that fetches has a client, and a daemon that
goes is below the bound of the daemons.

Every safety property of a passing run is stated by a theorem; two of them need a
hypothesis that the instance of the run satisfies (`~Overlap`, `Blind = {}`), and
findings 3 and 4 are what happens without it. Out of reach of the prover, and left to
TLC: the liveness properties `ExpiredAccessEnds`, `StartupNotWedged`,
`RepairConverges`, `SlotsAreFreed`, `OutputReturns`, `ClientsConnect`,
`ClientsReturn`, `AppShowsTheTruth` and `AppWorkEnds`. That the instances of
identifiers TLC enumerates are those the strings of Go have is neither checked nor
proved.

## 5. Findings

1. *A lease may be shorter than its minimum.* `Grant` checks the consumer's
   remaining time before the sheet (`service.go:203`) and caps the lease after it
   (`:231`). `docs/SECURITY-MODEL.md:57` bounds leases from one minute.
2. *A secret may be stored in a closed service.* `Shutdown` gives up after five
   seconds; `service.Close` runs; a sheet that is answered afterwards commits its
   lease. `docs/SECURITY-MODEL.md:30` says shutdown zeroes all owned secrets. The
   process ends moments later, and takes the lease with it.
3. *Two daemons may serve.* A lock without a pid is taken for stale however fresh
   it is (`server.go:137-148`), so a daemon started between another's `O_EXCL` and
   its `Fprintf` removes the other's lock. launchd starts one at a time, so this
   takes a daemon started by hand. `README.md:118` calls the daemon sole owner.
4. *A rollback may overwrite an edit.* The image to restore is read before the
   agent's command removes the old entry, the image to compare with after it
   (`manager.go:304`, `:314`): an edit in between is in the second only.
   `docs/SECURITY-MODEL.md:65` says a concurrent change is left untouched.
5. *A check that fails is not remembered.* `Check` returns on every failure
   (`checker.go:86-110`) before it writes the cache (`:114`), so the next command asks
   again. `README.md:128` says the feed is checked at most once every 24 hours.

## 6. Not modelled, and why

- *CLI and MCP server*: a command or tool call is one request and keeps nothing;
  what happens to the request is in `Discovery` and `KeySessionService`. Also left
  out: whether a command checks for updates (terminal, flags, environment).
- *App views, contract types, packaging*: layout, data declarations, build scripts.
- *App*: installing the helper, the buttons that repair agents (the repair itself is
  `AgentRepair`), error texts. A busy state that the doctor ends while a command is in
  flight happens in the model, and no property speaks against it: no document does. A
  session that is answered after the sheet was dismissed stays in the daemon until it
  expires; no document promises more.
- *Execution*: the child's environment (a filter by name), the parsing of a URI, of
  which only the outcomes are modelled, and descendants that outlive the timeout. That a
  child starts under a live lease is not claimed: the lease may end between the copy
  and the start, and no document says otherwise.
- *Client*: the 35 min timeout of the HTTP client within one attempt: a daemon that
  accepts a connection either answers or dies. The forms a descriptor may have and the
  modes of the helper are one condition each.
- *Update check*: a process that is suspended between its answer and its stamp, and a
  wall clock that is set forward, after which a cache only looks older than it is
  (setting it right again is `SetBack`).
- *SSH agent*: every method but List and Sign only refuses.
- *Journal*: a file that cannot be parsed, with which the daemon refuses to start; save
  replaces the file by a rename and never leaves one.
- *Agent connections*: hosts without an executable, skill trees with links, the
  parsing of the agents' formats.
- The Security framework and launchd are modelled by the outcomes the code
  distinguishes.

What would add most next: the composition of `DaemonLock` with `Discovery` (clients
that start daemons while one takes over a stale lock).
