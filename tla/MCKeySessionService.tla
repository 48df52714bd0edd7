------------------------ MODULE MCKeySessionService ------------------------
(***************************************************************************)
(* Small instances of KeySessionService for TLC.                           *)
(***************************************************************************)
EXTENDS KeySessionService, TLC

CONSTANTS c1, c2, l1, l2, l3, s1, s2, h1, h2, p1, p2, m1, m2

\* Interchangeable names.  Not for the liveness run.
Symmetry ==
  Permutations(Capabilities) \cup Permutations(LeaseIds)
    \cup Permutations(Secrets) \cup Permutations(Handlers)
    \cup Permutations(Profiles) \cup Permutations(ManagementTokens)
=============================================================================
