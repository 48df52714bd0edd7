----------------------------- MODULE MCClientParts -----------------------------
(***************************************************************************)
(* Three parts of the daemon's clients that share no state: how one finds  *)
(* its daemon, the update check and the native app.  Each behaviour moves  *)
(* one of them, so that their state spaces add up and do not multiply.     *)
(* The update check is two parts: three releases of any kind and one       *)
(* process at one time, and two releases and two processes in time.  The   *)
(* app is three, named for the task that rests in them: two of the         *)
(* command, the doctor and the sheet run beside the poll.                  *)
(***************************************************************************)
EXTENDS Discovery, UpdateCheck, NativeApp, FiniteSets

Id(rank, atoi, digits, zeroLed) ==
  [rank |-> rank, atoi |-> atoi, digits |-> digits, zeroLed |-> zeroLed]

\* In the order of strings; Huge is all digits and too large for an int.
Minus1 == Id(0, -1, FALSE, FALSE)
Zero1  == Id(1, 1, TRUE, TRUE)
Ten    == Id(2, 10, TRUE, FALSE)
OneA   == Id(3, Overflow, FALSE, FALSE)
Nine   == Id(4, 9, TRUE, FALSE)
Huge   == Id(5, Overflow, TRUE, FALSE)

Version(minor, pre) == [core |-> <<1, minor, 0>>, pre |-> pre]

MCVersions ==
  {Version(0, <<>>), Version(2, <<>>), NotAVersion, Version(0, <<Nine, OneA>>)}
    \cup {Version(0, <<id>>) : id \in {Minus1, Zero1, Ten, OneA, Nine, Huge}}

\* The process that is alone.
ASSUME PartsAssumption == "p1" \in Checkers

App == {"command", "doctor", "sheet"}

VARIABLE part
vars == <<part, discoveryVars, updateVars, appVars>>

Init ==
  /\ part \in {"discovery", "order", "time"} \cup App
  /\ DiscoveryInit /\ UpdateInit /\ AppInit
  /\ part # "discovery" => helper = "yes" /\ job = "loaded"
  /\ IF part = "order"
       THEN Cardinality(names) = 3
       ELSE names = {Version(0, <<>>), Version(2, <<>>)}
  /\ part \in {"discovery"} \cup App => feed = Version(0, <<>>) /\ installed = feed

Next ==
  /\ \/ part = "discovery" /\ DiscoveryNext /\ UNCHANGED <<updateVars, appVars>>
     \/ /\ part = "order"
        /\ Process("p1") \/ \E v \in names : Release(v)
        /\ UNCHANGED <<discoveryVars, appVars>>
     \/ /\ part = "time"
        /\ UNCHANGED <<installed, discoveryVars, appVars>> /\ UpdateNext
     \/ /\ part \in App
        /\ UNCHANGED <<discoveryVars, updateVars>>
        /\ AppNext /\ task'[part] = "idle"
  /\ UNCHANGED part

\* DiscoveryFairness and AppFairness, for the part that moves.
Fairness ==
  /\ WF_discoveryVars(part = "discovery" /\ DaemonProceeds)
  /\ \A c \in Clients : /\ WF_discoveryVars(part = "discovery" /\ ClientStep(c))
                        /\ WF_discoveryVars(part = "discovery" /\ DeadlinePasses(c))
  /\ WF_appVars(part \in App /\ StartPoll)
  /\ \A t \in Tasks : WF_appVars(part \in App /\ Continues(t))
  /\ WF_appVars(part \in App /\ ServiceProceeds)

Spec == Init /\ [][Next]_vars /\ Fairness

TypeOK == DiscoveryTypeOK /\ UpdateTypeOK /\ AppTypeOK

ClientsConnect == part = "discovery" => ConnectsAtLast
ClientsReturn == part = "discovery" => ConnectReturns
AppShowsTheTruth == part \in App => ShowsTheTruth
AppWorkEnds == part \in App => WorkEnds
=============================================================================
