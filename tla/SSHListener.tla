----------------------------- MODULE SSHListener -----------------------------
(***************************************************************************)
(* The listener of the SSH agent: sshAgentListener, its Close and the      *)
(* accept loop of listenSSHAgent in internal/daemon/ssh_agent.go.          *)
(*                                                                         *)
(* The accept loop, the goroutine of each connection and Close share the   *)
(* connection table under listener.mu; Accept, ServeAgent and the closing  *)
(* of the socket happen outside it.  What is asked over a connection is    *)
(* KeySessionService!Lookup; here a request needs only an open link.       *)
(***************************************************************************)
EXTENDS Integers, FiniteSets

CONSTANTS
  Links,           \* the connections clients may make
  MaxConnections,  \* 32 in the code
  NoLink

ASSUME ListenerAssumption ==
  /\ MaxConnections \in Nat \ {0}
  /\ IsFiniteSet(Links)
  /\ NoLink \notin Links

VARIABLES
  socket,       \* "open"; "shut" when it is closed; "closed" after Close
  loop,         \* the accept loop: "running" or "ended"
  held,         \* the connection the loop has accepted and not yet judged
  link,         \* of each connection, as the daemon's end sees it
  connections,  \* the table
  server        \* the goroutine of each connection

listenerVars == <<socket, loop, held, link, connections, server>>

Idle(c) == server[c] = "none" /\ c \notin connections /\ held # c

\* A client that hung up, or was hung up on, may come again.
Dial(c) ==
  /\ socket = "open"
  /\ link[c] = "shut"
  /\ Idle(c)
  /\ link' = [link EXCEPT ![c] = "queued"]
  /\ UNCHANGED <<socket, loop, held, connections, server>>

Accept(c) ==
  /\ loop = "running"
  /\ held = NoLink
  /\ socket = "open"
  /\ link[c] = "queued"
  /\ held' = c
  /\ link' = [link EXCEPT ![c] = "open"]
  /\ UNCHANGED <<socket, loop, connections, server>>

\* Any error of Accept ends the loop, not only that of a closed socket.
AcceptFails ==
  /\ loop = "running"
  /\ held = NoLink
  /\ loop' = "ended"
  /\ UNCHANGED <<socket, held, link, connections, server>>

\* Mutants: the limit is off by one; the flag of Close is not looked at.
OneTooMany == socket = "closed" \/ Cardinality(connections) > MaxConnections
LimitOnly == Cardinality(connections) >= MaxConnections

TurnedAway == socket = "closed" \/ Cardinality(connections) >= MaxConnections

\* One critical section of the loop: the connection gets a slot, or is closed.
Admit(c) ==
  /\ held = c
  /\ held' = NoLink
  /\ IF TurnedAway
       THEN /\ link' = [link EXCEPT ![c] = "shut"]
            /\ UNCHANGED <<connections, server>>
       ELSE /\ connections' = connections \cup {c}
            /\ server' = [server EXCEPT ![c] = "serving"]
            /\ UNCHANGED link
  /\ UNCHANGED <<socket, loop>>

\* ServeAgent returns when the client hangs up, when the link is shut, and
\* when the 30 s of the whole connection are over.
ServeEnds(c) ==
  /\ server[c] = "serving"
  /\ server' = [server EXCEPT ![c] = "leaving"]
  /\ link' = [link EXCEPT ![c] = "shut"]
  /\ UNCHANGED <<socket, loop, held, connections>>

\* Mutant: the slot is not given back.
KeepSlot(c) ==
  /\ server[c] = "leaving"
  /\ server' = [server EXCEPT ![c] = "none"]
  /\ UNCHANGED <<socket, loop, held, link, connections>>

Forget(c) ==
  /\ server[c] = "leaving"
  /\ server' = [server EXCEPT ![c] = "none"]
  /\ connections' = connections \ {c}
  /\ UNCHANGED <<socket, loop, held, link>>

\* Close, first part: nobody can dial, and whoever was not accepted is refused.
CloseSocket ==
  /\ socket = "open"
  /\ socket' = "shut"
  /\ link' = [c \in Links |-> IF link[c] = "queued" THEN "shut" ELSE link[c]]
  /\ UNCHANGED <<loop, held, connections, server>>

\* Close, second part, under mu.
CloseConnections ==
  /\ socket = "shut"
  /\ socket' = "closed"
  /\ link' = [c \in Links |-> IF c \in connections THEN "shut" ELSE link[c]]
  /\ UNCHANGED <<loop, held, connections, server>>

ListenerInit ==
  /\ socket = "open"
  /\ loop = "running"
  /\ held = NoLink
  /\ link = [c \in Links |-> "shut"]
  /\ connections = {}
  /\ server = [c \in Links |-> "none"]

ListenerNext ==
  \/ \E c \in Links : Dial(c) \/ Accept(c) \/ Admit(c) \/ ServeEnds(c) \/ Forget(c)
  \/ AcceptFails
  \/ CloseSocket \/ CloseConnections

ListenerSpec == ListenerInit /\ [][ListenerNext]_listenerVars

\* What happens by itself: goroutines run, deadlines pass, and Accept on a closed
\* socket fails.
Proceeds(c) == Admit(c) \/ ServeEnds(c) \/ Forget(c)
AcceptOnClosed == socket # "open" /\ AcceptFails

ListenerFairness ==
  /\ \A c \in Links : WF_listenerVars(Proceeds(c))
  /\ WF_listenerVars(AcceptOnClosed)
  /\ WF_listenerVars(CloseConnections)

-----------------------------------------------------------------------------
ListenerTypeOK ==
  /\ socket \in {"open", "shut", "closed"}
  /\ loop \in {"running", "ended"}
  /\ held \in Links \cup {NoLink}
  /\ link \in [Links -> {"shut", "queued", "open"}]
  /\ connections \in SUBSET Links
  /\ server \in [Links -> {"none", "serving", "leaving"}]

\* ssh_agent.go:175: never more than the limit are served at once, those whose
\* goroutine has yet to give its slot back included.
ConnectionLimit ==
  /\ Cardinality(connections) <= MaxConnections
  /\ \A c \in Links : server[c] # "none" => c \in connections

\* ssh_agent.go:129: once Close returned nobody is served, not even a client
\* that was accepted before Close and reaches the table after it.
NoneServedAfterClose ==
  socket = "closed" => \A c \in Links : server[c] # "none" => link[c] = "shut"

\* ssh_agent.go:189: a client that only keeps its connection open does not keep
\* its slot, and after Close the loop and every goroutine are gone.
SlotsAreFreed ==
  /\ \A c \in Links : c \in connections ~> c \notin connections
  /\ socket = "closed" ~> (loop = "ended" /\ connections = {})
=============================================================================
