------------------------- MODULE DaemonLock_proofs -------------------------
(***************************************************************************)
(* Proofs about DaemonLock: as long as starts and stops do not overlap, a  *)
(* daemon that serves owns its three paths, for any number of pids and of  *)
(* faults.                                                                 *)
(***************************************************************************)
EXTENDS DaemonLock, TLAPS

TypeOK ==
  /\ pc \in [Pids -> Stages]
  /\ lock \in Locks
  /\ descriptor \in Pids \cup {None}
  /\ socket \in Pids \cup {None}
  /\ seen \in [Pids -> [pid : Pids \cup {None}, age : {"fresh", "old"}]]

\* Starts and stops do not overlap.
OneAtATime == \A d, e \in Pids : ~Settled(d) /\ ~Settled(e) => d = e

\* No daemon serves while another one is past the check of the lock.
AloneInside ==
  \A d, e \in Pids :
    pc[d] \in (Owning \ {"serving"}) \cup {"remove"} => ~At(e, "serving")

\* What a daemon has set up by the stage it is in.
SetUp ==
  \A d \in Pids :
    /\ pc[d] \in {"write", "locked", "bound"} => lock.by = d
    /\ pc[d] \in {"locked", "bound"} => lock.text = d
    /\ At(d, "bound") => socket = d

\* A starter that read the lock of a daemon that serves knows its pid.
SawTheDaemon ==
  \A d, e \in Pids : At(d, "judge") /\ At(e, "serving") => seen[d].pid = e

\* Why each of the four is needed: a stale lock is removed only because
\* nobody serves, which follows from what the starter saw, and nobody starts
\* to serve between its look and its removal.
LockInv ==
  TypeOK /\ OneAtATime /\ AloneInside /\ SetUp /\ SawTheDaemon
         /\ ServesWhatItOwns

USE LockAssumption

LEMMA InitLock == Init => LockInv
  BY SMT DEF Init, LockInv, TypeOK, OneAtATime, AloneInside, SetUp,
    SawTheDaemon, ServesWhatItOwns, Settled, At, Stages, Starting, Owning,
    Locks, NoLock, Unseen

LEMMA StepLock ==
  ASSUME LockInv, ~Overlap, [Next]_vars
  PROVE  LockInv'
<1> USE DEF LockInv, TypeOK, OneAtATime, AloneInside, SetUp, SawTheDaemon,
      ServesWhatItOwns, Settled, At, Goto, Stages, Starting, Owning, Locks,
      NoLock, Unseen
<1>1. ASSUME NEW d \in Pids, Start(d) PROVE LockInv'
  BY <1>1, SMT DEF Start
<1>2. ASSUME NEW d \in Pids, Create(d) PROVE LockInv'
  BY <1>2, SMT DEF Create
<1>3. ASSUME NEW d \in Pids, Write(d) PROVE LockInv'
  BY <1>3, SMT DEF Write
<1>4. ASSUME NEW d \in Pids, Exist(d) PROVE LockInv'
  BY <1>4, SMT DEF Exist
<1>5. ASSUME NEW d \in Pids, Lstat(d) PROVE LockInv'
  BY <1>5, SMT DEF Lstat
<1>6. ASSUME NEW d \in Pids, ReadFile(d) PROVE LockInv'
  BY <1>6, SMT DEF ReadFile
<1>7. ASSUME NEW d \in Pids, Refuse(d) PROVE LockInv'
  BY <1>7, SMT DEF Refuse
<1>8. ASSUME NEW d \in Pids, TakeForStale(d) PROVE LockInv'
  BY <1>8, SMT DEF TakeForStale, AlreadyRunning, DescriptorConfirmsDaemon,
    Exists
<1>9. ASSUME NEW d \in Pids, RemoveStale(d) PROVE LockInv'
  BY <1>9, SMT DEF RemoveStale
<1>10. ASSUME NEW d \in Pids, ListenSSHAgent(d) PROVE LockInv'
  BY <1>10, SMT DEF ListenSSHAgent
<1>11. ASSUME NEW d \in Pids, Publish(d) PROVE LockInv'
  BY <1>11, SMT DEF Publish
<1>12. ASSUME NEW d \in Pids, FailStart(d) PROVE LockInv'
  BY <1>12, SMT DEF FailStart
<1>13. ASSUME NEW d \in Pids, Shutdown(d) PROVE LockInv'
  BY <1>13, SMT DEF Shutdown
<1>14. ASSUME NEW d \in Pids, RemoveDescriptor(d) PROVE LockInv'
  BY <1>14, SMT DEF RemoveDescriptor
<1>15. ASSUME NEW d \in Pids, CloseSSHListener(d) PROVE LockInv'
  BY <1>15, SMT DEF CloseSSHListener
<1>16. ASSUME NEW d \in Pids, RemoveLock(d) PROVE LockInv'
  BY <1>16, SMT DEF RemoveLock
<1>17. ASSUME NEW d \in Pids, Crash(d) PROVE LockInv'
  BY <1>17, SMT DEF Crash
<1>18. ASSUME NEW d \in Pids, ReusePid(d) PROVE LockInv'
  BY <1>18, SMT DEF ReusePid
<1>19. ASSUME NEW d \in Pids, FreePid(d) PROVE LockInv'
  BY <1>19, SMT DEF FreePid
<1>20. CASE Age
  BY <1>20, SMT DEF Age
<1>21. CASE UNCHANGED vars
  BY <1>21, SMT DEF vars
<1> HIDE DEF LockInv, TypeOK, OneAtATime, AloneInside, SetUp, SawTheDaemon,
      ServesWhatItOwns, Settled, At, Goto
<1>22. ASSUME NEW d \in Pids, Progress(d) PROVE LockInv'
  BY <1>2, <1>3, <1>4, <1>5, <1>6, <1>7, <1>8, <1>9, <1>10, <1>11, <1>14,
     <1>15, <1>16, <1>22, Zenon DEF Progress
<1> QED
  BY <1>1, <1>12, <1>13, <1>17, <1>18, <1>19, <1>20, <1>21, <1>22, Zenon
  DEF Next

LEMMA LockInvariant ==
  ASSUME ~Overlap
  PROVE  Spec => []LockInv
<1>1. LockInv /\ [Next]_vars => LockInv'
  BY StepLock
<1> QED
  BY <1>1, InitLock, PTL DEF Spec

\* Without overlapping starts, a daemon that serves owns the lock, the
\* descriptor and the socket, whatever crashed or failed before and whoever
\* has the pids of the dead (acquireLock and Run in server.go).
THEOREM ServerOwnsItsPaths ==
  ASSUME ~Overlap
  PROVE  Spec => []ServesWhatItOwns
<1>1. LockInv => ServesWhatItOwns
  BY DEF LockInv
<1> QED
  BY <1>1, LockInvariant, PTL

\* Two that serve would both have written the one lock: under launchd, which
\* starts one instance of the job, README.md:118 is right.  A run with starts by
\* hand beside it shows the contrary.
THEOREM OneDaemonServes ==
  ASSUME ~Overlap
  PROVE  Spec => []SoleOwner
<1>1. LockInv => SoleOwner
  BY DEF LockInv, ServesWhatItOwns, SoleOwner
<1> QED
  BY <1>1, LockInvariant, PTL
=============================================================================
