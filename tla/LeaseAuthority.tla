--------------------------- MODULE LeaseAuthority ---------------------------
(***************************************************************************)
(* What the broker promises about access, whatever its handlers, prompts   *)
(* and locks do: the abstract specification KeySessionService implements.  *)
(*                                                                         *)
(* A lease appears only by Issue, alone, for a consumer that holds access  *)
(* or was never seen before, within the consumer's fixed deadline, and in  *)
(* place of that consumer's lease for the same profile.  Everything else   *)
(* takes access away, and a consumer that lost it never has it again.      *)
(***************************************************************************)
EXTENDS Integers

CONSTANTS Capabilities, LeaseIds, Profiles

VARIABLES
  consumers,   \* who holds access, until when
  leases,      \* what they may use
  retired      \* capabilities that are worthless for good

vars == <<consumers, leases, retired>>

ConsumerRecords == [cap : Capabilities, expiresAt : Nat]
LeaseRecords == [id : LeaseIds, cap : Capabilities, profile : Profiles,
                 expiresAt : Nat]

Init ==
  /\ consumers = {}
  /\ leases = {}
  /\ retired = {}

Owned(held, owners) == \A l \in held : \E c \in owners : c.cap = l.cap

\* Whoever leaves is retired, and no retired capability is in use.
Retire ==
  /\ retired \subseteq retired'
  /\ \A c \in consumers \ consumers' : c.cap \in retired'
  /\ \A c \in consumers' : c.cap \notin retired'

Withdraw ==
  /\ consumers' \subseteq consumers
  /\ leases' \subseteq leases
  /\ Owned(leases', consumers')
  /\ Retire

Unseen(cap) == cap \notin retired /\ \A c \in consumers : c.cap # cap

Issue(c, l) ==
  /\ c \in consumers \/ Unseen(c.cap)
  /\ c \in consumers'
  /\ l.cap = c.cap
  /\ l.expiresAt <= c.expiresAt
  /\ \A other \in leases : other.id # l.id
  /\ l \in leases'
  /\ consumers' \subseteq consumers \cup {c}
  /\ leases' \subseteq {l} \cup
       {other \in leases : other.cap # l.cap \/ other.profile # l.profile}
  /\ Owned(leases', consumers')
  /\ Retire

Next ==
  \/ Withdraw
  \/ \E c \in consumers', l \in leases' :
       /\ c \in ConsumerRecords /\ l \in LeaseRecords
       /\ Issue(c, l)

Spec == Init /\ [][Next]_vars
=============================================================================
