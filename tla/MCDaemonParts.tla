----------------------------- MODULE MCDaemonParts -----------------------------
(***************************************************************************)
(* Three parts of the daemon process that share no state: the SSH          *)
(* listener, the audit journal and an execution.  Each behaviour moves one *)
(* of them, so that their state spaces add up and do not multiply.         *)
(***************************************************************************)
EXTENDS SSHListener, AuditJournal, ChildOutput

\* The secret is a URI whose password is written "p%2B"; url.Parse makes "p+" of
\* it, and QueryUnescape makes "p " of that.
MCSecret == <<"p", "%2B", "p">>
MCPassword == <<"p", "+">>
MCUnescaped == <<"p", " ">>

VARIABLE part
vars == <<part, listenerVars, journalVars, outputVars>>

Init ==
  /\ part \in {"listener", "journal", "output"}
  /\ ListenerInit /\ JournalInit /\ OutputInit

Next ==
  /\ \/ part = "listener" /\ ListenerNext /\ UNCHANGED <<journalVars, outputVars>>
     \/ part = "journal" /\ JournalNext /\ UNCHANGED <<listenerVars, outputVars>>
     \/ part = "output" /\ OutputNext /\ UNCHANGED <<listenerVars, journalVars>>
  /\ UNCHANGED part

\* ListenerFairness and OutputFairness, for the part that moves.
Fairness ==
  /\ \A c \in Links : WF_listenerVars(part = "listener" /\ Proceeds(c))
  /\ WF_listenerVars(part = "listener" /\ AcceptOnClosed)
  /\ WF_listenerVars(part = "listener" /\ CloseConnections)
  /\ WF_outputVars(part = "output" /\ TimePasses)

Spec == Init /\ [][Next]_vars /\ Fairness

TypeOK == ListenerTypeOK /\ JournalTypeOK /\ OutputTypeOK

OutputReturns == part = "output" => TimeoutReturns
=============================================================================
