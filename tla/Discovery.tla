------------------------------ MODULE Discovery ------------------------------
(***************************************************************************)
(* How a client finds its daemon: internal/apiclient/client.go (Connect,   *)
(* discover, startDaemon, Handshake, send), the handshake and the bearer   *)
(* check of internal/daemon/server.go, and what Run leaves behind.         *)
(*                                                                         *)
(* The descriptor file outlives a crash, and the port in it may go to the  *)
(* next daemon.  The launch agent keeps its daemon alive (KeepAlive), when *)
(* it is loaded.  Time is one flag per client: its 5 s are over.           *)
(***************************************************************************)
EXTENDS Integers

CONSTANTS
  Clients,
  Ports,
  MaxInstances,  \* the bound of the daemons that are started
  NoDaemon

ASSUME DiscoveryAssumption == MaxInstances \in Nat

VARIABLES
  helper,      \* the installed program: "yes", "no", or "broken": it dies when started
  job,         \* the launch agent: "loaded" or "unloaded"
  booted,      \* how many daemons there were
  daemon,      \* the one that runs, or NoDaemon
  life,        \* of it: "none", "booting", "serving", "leaving"
  descriptor,  \* what the descriptor file holds, or NoDaemon
  stage, found, late   \* of each client

discoveryVars ==
  <<helper, job, booted, daemon, life, descriptor, stage, found, late>>

Descriptors == [instance : Nat, port : Ports]
daemonVars == <<helper, job, booted, daemon, life, descriptor>>

(***************************************************************************)
(* The daemon, and launchd.                                                *)
(***************************************************************************)
\* The kernel picks the port, perhaps one a dead daemon had.
Boot(port) ==
  /\ helper = "yes" /\ job = "loaded"
  /\ daemon = NoDaemon
  /\ booted < MaxInstances
  /\ daemon' = [instance |-> booted + 1, port |-> port]
  /\ life' = "booting"
  /\ booted' = booted + 1
  /\ UNCHANGED <<helper, job, descriptor, stage, found, late>>

PublishDescriptor ==
  /\ life = "booting"
  /\ descriptor' = daemon
  /\ life' = "serving"
  /\ UNCHANGED <<helper, job, booted, daemon, stage, found, late>>

\* The HTTP server is shut down first, the descriptor removed then.
Shutdown ==
  /\ life = "serving" /\ booted < MaxInstances
  /\ life' = "leaving"
  /\ UNCHANGED <<helper, job, booted, daemon, descriptor, stage, found, late>>

RemoveDescriptor ==
  /\ life = "leaving"
  /\ descriptor' = NoDaemon
  /\ daemon' = NoDaemon /\ life' = "none"
  /\ UNCHANGED <<helper, job, booted, stage, found, late>>

\* The last daemon of the bounded model stays.
Crash ==
  /\ daemon # NoDaemon /\ booted < MaxInstances
  /\ daemon' = NoDaemon /\ life' = "none"
  /\ UNCHANGED <<helper, job, booted, descriptor, stage, found, late>>

\* The job is removed with its daemon (launchctl bootout).
Unload ==
  /\ life = "serving" /\ job = "loaded" /\ booted < MaxInstances
  /\ job' = "unloaded" /\ life' = "leaving"
  /\ UNCHANGED <<helper, booted, daemon, descriptor, stage, found, late>>

(***************************************************************************)
(* The client.                                                             *)
(***************************************************************************)
Go(c, s) == stage' = [stage EXCEPT ![c] = s]

\* A request with the token of descriptor d is answered with its contents.
\* Token and instance ID are drawn together, when a daemon starts.
Authorized(d) == life = "serving" /\ d = daemon

\* The file is read, and stands for the daemon that wrote it until it is found out.
Discover(c, here, gone) ==
  IF descriptor = NoDaemon
    THEN Go(c, gone) /\ UNCHANGED found
    ELSE Go(c, here) /\ found' = [found EXCEPT ![c] = descriptor]

Connect(c) ==
  /\ stage[c] = "idle"
  /\ Discover(c, "trying", "starting")
  /\ late' = [late EXCEPT ![c] = FALSE]
  /\ UNCHANGED <<daemonVars>>

\* The answer must also name the instance of the descriptor, which the daemon that
\* takes its token does.
Handshake(c) ==
  /\ stage[c] \in {"trying", "polling"}
  /\ Go(c, IF Authorized(found[c]) THEN "connected"
           ELSE IF stage[c] = "trying" THEN "starting" ELSE "waiting")
  /\ UNCHANGED <<daemonVars, found, late>>

\* Mutant: the job is not registered again when there is none to start.
KickstartOnly(c) ==
  /\ stage[c] = "starting"
  /\ Go(c, IF helper = "no" \/ job = "unloaded" THEN "failed" ELSE "waiting")
  /\ UNCHANGED <<daemonVars, found, late>>

\* Helper and plist are looked for.  launchctl kickstart needs a loaded job, and
\* leaves its daemon alone when that runs.
Kickstart(c) ==
  /\ stage[c] = "starting"
  /\ Go(c, IF helper = "no" THEN "failed"
           ELSE IF job = "loaded" THEN "waiting" ELSE "registering")
  /\ UNCHANGED <<daemonVars, found, late>>

\* launchctl bootstrap loads the job, and fails where another client has done so
\* since the kickstart.
Bootstrap(c) ==
  /\ stage[c] = "registering"
  /\ Go(c, IF job = "unloaded" THEN "waiting" ELSE "failed")
  /\ job' = "loaded"
  /\ UNCHANGED <<helper, booted, daemon, life, descriptor, found, late>>

DeadlinePasses(c) ==
  /\ stage[c] \in {"waiting", "polling"} /\ ~late[c]
  /\ late' = [late EXCEPT ![c] = TRUE]
  /\ UNCHANGED <<daemonVars, stage, found>>

\* Mutant: the deadline is set again for every attempt.
PollAnew(c) ==
  /\ stage[c] = "waiting"
  /\ Discover(c, "polling", "waiting")
  /\ late' = [late EXCEPT ![c] = FALSE]
  /\ UNCHANGED <<daemonVars>>

Poll(c) ==
  /\ stage[c] = "waiting" /\ ~late[c]
  /\ Discover(c, "polling", "waiting")
  /\ UNCHANGED <<daemonVars, late>>

GiveUp(c) ==
  /\ stage[c] = "waiting" /\ late[c]
  /\ Go(c, "failed")
  /\ UNCHANGED <<daemonVars, found, late>>

\* One request with the descriptor the handshake was made with.  There is no
\* second attempt: refused, unanswered or answered, the command ends.
Send(c) ==
  /\ stage[c] = "connected"
  /\ Go(c, "done")
  /\ UNCHANGED <<daemonVars, found, late>>

\* The next command connects anew.
Again(c) ==
  /\ stage[c] \in {"done", "failed"}
  /\ Go(c, "idle")
  /\ found' = [found EXCEPT ![c] = NoDaemon]
  /\ UNCHANGED <<daemonVars, late>>

DiscoveryInit ==
  /\ helper \in {"yes", "no", "broken"}
  /\ job \in {"loaded", "unloaded"}
  /\ booted = 0
  /\ daemon = NoDaemon /\ life = "none" /\ descriptor = NoDaemon
  /\ stage = [c \in Clients |-> "idle"]
  /\ found = [c \in Clients |-> NoDaemon]
  /\ late = [c \in Clients |-> FALSE]

ClientStep(c) ==
  \/ Connect(c) \/ Handshake(c) \/ Kickstart(c) \/ Bootstrap(c) \/ Poll(c)
  \/ GiveUp(c) \/ Send(c) \/ Again(c)

DiscoveryNext ==
  \/ \E port \in Ports : Boot(port)
  \/ PublishDescriptor \/ Shutdown \/ RemoveDescriptor \/ Crash \/ Unload
  \/ \E c \in Clients : ClientStep(c) \/ DeadlinePasses(c)

DiscoverySpec == DiscoveryInit /\ [][DiscoveryNext]_discoveryVars

\* What happens by itself: launchd starts a loaded job, a process that runs goes
\* on, time passes, and a client is used again.
DaemonProceeds == PublishDescriptor \/ RemoveDescriptor \/ \E port \in Ports : Boot(port)

DiscoveryFairness ==
  /\ WF_discoveryVars(DaemonProceeds)
  /\ \A c \in Clients : /\ WF_discoveryVars(ClientStep(c))
                        /\ WF_discoveryVars(DeadlinePasses(c))

-----------------------------------------------------------------------------
DiscoveryTypeOK ==
  /\ helper \in {"yes", "no", "broken"}
  /\ job \in {"loaded", "unloaded"}
  /\ booted \in Nat
  /\ daemon \in Descriptors \cup {NoDaemon}
  /\ life \in {"none", "booting", "serving", "leaving"}
  /\ descriptor \in Descriptors \cup {NoDaemon}
  /\ stage \in [Clients -> {"idle", "trying", "starting", "registering", "waiting",
                            "polling", "connected", "done", "failed"}]
  /\ found \in [Clients -> Descriptors \cup {NoDaemon}]
  /\ late \in [Clients -> BOOLEAN]

\* client.go:28: a client that keeps trying connects, again and again, whatever
\* crashes, stale descriptors, missing jobs and lost races to register it met.
ConnectsAtLast ==
  helper = "yes" => \A c \in Clients : []<>(stage[c] = "connected")

\* client.go:28-49: Connect returns, and after its 5 s also where no daemon ever comes.
Connecting == {"trying", "starting", "registering", "waiting", "polling"}

ConnectReturns ==
  \A c \in Clients :
    stage[c] \in Connecting ~> stage[c] \in {"connected", "failed"}
=============================================================================
