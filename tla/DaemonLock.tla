----------------------------- MODULE DaemonLock -----------------------------
(***************************************************************************)
(* How one daemon per user is kept: acquireLock, descriptorConfirmsDaemon  *)
(* and the start and end of Run in internal/daemon/server.go, over the     *)
(* three paths of the runtime directory: daemon.lock, endpoint.json and    *)
(* ssh-agent.sock.                                                         *)
(*                                                                         *)
(* A process is named by its pid.  Files are not tied to the process that  *)
(* made them: a crash leaves them behind, its pid may go to a new daemon   *)
(* or to an unrelated program, and whoever removes a path removes what is  *)
(* there by then.                                                          *)
(***************************************************************************)
EXTENDS Integers, FiniteSets

CONSTANTS
  Pids,
  None,
  Overlap,     \* may a daemon start while another is starting or stopping?
  MaxFaults    \* the bound on crashes, stops, failed starts and reused pids

ASSUME LockAssumption ==
  None \notin Pids /\ Overlap \in BOOLEAN /\ MaxFaults \in Nat

VARIABLES
  pc,          \* what each pid does
  lock,        \* daemon.lock
  descriptor,  \* the pid in endpoint.json, or None
  socket,      \* the pid behind ssh-agent.sock, or None
  seen,        \* the locals of acquireLock
  faults

vars == <<pc, lock, descriptor, socket, seen, faults>>

\* by is the pid that created the file, text the pid written in it, and age
\* whether it was modified less than five seconds ago.
NoLock == [by |-> None, text |-> None, age |-> "old"]
Locks == [by : Pids \cup {None}, text : Pids \cup {None},
          age : {"fresh", "old"}]

Unseen == [pid |-> None, age |-> "old"]

Starting == {"open", "stat", "read", "judge", "remove"}
\* From the creation of the lock to the last deferred call.
Owning == {"write", "locked", "bound", "serving", "draining", "unpublished",
           "closed"}
\* "other": the pid belongs to an unrelated program.
Stages == Starting \cup Owning \cup {"off", "other"}

At(d, stage) == pc[d] = stage
Goto(d, stage) == pc' = [pc EXCEPT ![d] = stage]

Running(d) == pc[d] \notin {"off", "other"}
Settled(d) == pc[d] \in {"off", "other", "serving"}
Exists(d) == pc[d] # "off"

Fault == faults < MaxFaults /\ faults' = faults + 1

(***************************************************************************)
(* acquireLock.                                                            *)
(***************************************************************************)
\* launchd keeps the daemon alive; key-session _daemon starts one by hand.
Start(d) ==
  /\ At(d, "off")
  /\ Overlap \/ \A e \in Pids : Settled(e)
  /\ Goto(d, "open")
  /\ UNCHANGED <<lock, descriptor, socket, seen, faults>>

\* OpenFile with O_EXCL: the file is there, and empty.
Create(d) ==
  /\ At(d, "open")
  /\ lock = NoLock
  /\ lock' = [by |-> d, text |-> None, age |-> "fresh"]
  /\ Goto(d, "write")
  /\ UNCHANGED <<descriptor, socket, seen, faults>>

\* The pid goes to the file that was opened, wherever the path leads now.
Write(d) ==
  /\ At(d, "write")
  /\ lock' = IF lock.by = d THEN [lock EXCEPT !.text = d] ELSE lock
  /\ Goto(d, "locked")
  /\ UNCHANGED <<descriptor, socket, seen, faults>>

Exist(d) ==
  /\ At(d, "open")
  /\ lock # NoLock
  /\ Goto(d, "stat")
  /\ UNCHANGED <<lock, descriptor, socket, seen, faults>>

Lstat(d) ==
  /\ At(d, "stat")
  /\ seen' = [seen EXCEPT ![d].age = lock.age]
  /\ Goto(d, "read")
  /\ UNCHANGED <<lock, descriptor, socket, faults>>

\* No pid is found in a file that is gone or still empty.
ReadFile(d) ==
  /\ At(d, "read")
  /\ seen' = [seen EXCEPT ![d].pid = lock.text]
  /\ Goto(d, "judge")
  /\ UNCHANGED <<lock, descriptor, socket, faults>>

\* The descriptor names this pid, and its endpoint answers the handshake: a
\* daemon that serves is assumed to answer within the 500 ms it is given.
\* Mutant: a process with that pid is proof enough.
PidIsProof(p) == TRUE

DescriptorConfirmsDaemon(p) == descriptor = p /\ At(p, "serving")

\* Mutant: the age of the lock is all that counts.
FreshOnly(d) ==
  LET p == seen[d].pid IN p # None /\ Exists(p) /\ seen[d].age = "fresh"

AlreadyRunning(d) ==
  LET p == seen[d].pid IN
  /\ p # None
  /\ Exists(p)
  /\ seen[d].age = "fresh" \/ DescriptorConfirmsDaemon(p)

Refuse(d) ==
  /\ At(d, "judge")
  /\ AlreadyRunning(d)
  /\ Goto(d, "off")
  /\ seen' = [seen EXCEPT ![d] = Unseen]
  /\ UNCHANGED <<lock, descriptor, socket, faults>>

TakeForStale(d) ==
  /\ At(d, "judge")
  /\ ~AlreadyRunning(d)
  /\ Goto(d, "remove")
  /\ seen' = [seen EXCEPT ![d] = Unseen]
  /\ UNCHANGED <<lock, descriptor, socket, faults>>

\* os.Remove fails when somebody else was first; else all starts again.
RemoveStale(d) ==
  /\ At(d, "remove")
  /\ lock' = NoLock
  /\ Goto(d, IF lock = NoLock THEN "off" ELSE "open")
  /\ UNCHANGED <<descriptor, socket, seen, faults>>

(***************************************************************************)
(* The rest of Run.                                                        *)
(***************************************************************************)
\* listenSSHAgent removes the socket it finds.
ListenSSHAgent(d) ==
  /\ At(d, "locked")
  /\ socket' = d
  /\ Goto(d, "bound")
  /\ UNCHANGED <<lock, descriptor, seen, faults>>

Publish(d) ==
  /\ At(d, "bound")
  /\ descriptor' = d
  /\ Goto(d, "serving")
  /\ UNCHANGED <<lock, socket, seen, faults>>

\* An error of Run before the descriptor: what was set up is taken down.
FailStart(d) ==
  /\ Fault
  /\ \/ At(d, "locked") /\ Goto(d, "closed")
     \/ At(d, "bound") /\ Goto(d, "unpublished")
  /\ UNCHANGED <<lock, descriptor, socket, seen>>

\* SIGTERM: Shutdown closes the HTTP listener at once, then waits.
Shutdown(d) ==
  /\ Fault
  /\ At(d, "serving")
  /\ Overlap \/ \A e \in Pids : Settled(e)
  /\ Goto(d, "draining")
  /\ UNCHANGED <<lock, descriptor, socket, seen>>

\* The deferred calls, last one first: each removes what is at its path.
RemoveDescriptor(d) ==
  /\ At(d, "draining")
  /\ descriptor' = None
  /\ Goto(d, "unpublished")
  /\ UNCHANGED <<lock, socket, seen, faults>>

CloseSSHListener(d) ==
  /\ At(d, "unpublished")
  /\ socket' = None
  /\ Goto(d, "closed")
  /\ UNCHANGED <<lock, descriptor, seen, faults>>

RemoveLock(d) ==
  /\ At(d, "closed")
  /\ lock' = NoLock
  /\ Goto(d, "off")
  /\ UNCHANGED <<descriptor, socket, seen, faults>>

Crash(d) ==
  /\ Fault
  /\ Running(d)
  /\ Goto(d, "off")
  /\ seen' = [seen EXCEPT ![d] = Unseen]
  /\ UNCHANGED <<lock, descriptor, socket>>

\* A free pid goes to an unrelated program, and some pid stays free.
ReusePid(d) ==
  /\ Fault
  /\ At(d, "off")
  /\ \E e \in Pids \ {d} : At(e, "off")
  /\ Goto(d, "other")
  /\ UNCHANGED <<lock, descriptor, socket, seen>>

\* That program ends, sooner or later or never.
FreePid(d) ==
  /\ At(d, "other")
  /\ Goto(d, "off")
  /\ UNCHANGED <<lock, descriptor, socket, seen, faults>>

Age ==
  /\ lock.age = "fresh"
  /\ lock' = [lock EXCEPT !.age = "old"]
  /\ UNCHANGED <<pc, descriptor, socket, seen, faults>>

Init ==
  /\ pc = [d \in Pids |-> "off"]
  /\ lock = NoLock
  /\ descriptor = None
  /\ socket = None
  /\ seen = [d \in Pids |-> Unseen]
  /\ faults = 0

\* What a daemon does once it was started, or told to stop.
Progress(d) ==
  \/ Create(d) \/ Write(d) \/ Exist(d) \/ Lstat(d) \/ ReadFile(d)
  \/ Refuse(d) \/ TakeForStale(d) \/ RemoveStale(d)
  \/ ListenSSHAgent(d) \/ Publish(d)
  \/ RemoveDescriptor(d) \/ CloseSSHListener(d) \/ RemoveLock(d)

Next ==
  \/ \E d \in Pids :
       \/ Start(d) \/ Progress(d)
       \/ FailStart(d) \/ Shutdown(d) \/ Crash(d) \/ ReusePid(d) \/ FreePid(d)
  \/ Age

Spec == Init /\ [][Next]_vars

\* launchd restarts the daemon (KeepAlive), a running process runs, and time
\* passes.  Faults are finitely many, and none of them must happen.
Fairness ==
  /\ WF_vars(\E d \in Pids : Start(d))
  /\ \A d \in Pids : WF_vars(Progress(d))
  /\ WF_vars(Age)

FairSpec == Spec /\ Fairness

-----------------------------------------------------------------------------
\* README.md: "The Go daemon is the sole owner of profile mutations, Keychain
\* access, active secret memory, expiry, execution, and the local audit
\* journal."  No two daemons serve at once.
SoleOwner ==
  \A d, e \in Pids : At(d, "serving") /\ At(e, "serving") => d = e

\* As long as no daemon is started while another starts or stops, a daemon
\* that serves owns all three paths, whatever crashed, failed or was refused
\* before, and whoever has the pids of the dead: clients find it, and a second
\* daemon is refused.
ServesWhatItOwns ==
  \A d \in Pids : At(d, "serving") =>
    lock.by = d /\ lock.text = d /\ descriptor = d /\ socket = d

\* Whatever was left behind, a daemon serves in the end.  server.go: "An older
\* lock must prove the daemon identity through its authenticated endpoint so
\* PID reuse cannot wedge startup."
StartupNotWedged ==
  (\A d \in Pids : ~Running(d)) ~> (\E d \in Pids : At(d, "serving"))
=============================================================================
