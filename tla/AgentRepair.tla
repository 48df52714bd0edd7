---------------------------- MODULE AgentRepair ----------------------------
(***************************************************************************)
(* Connection Doctor's repair of one agent host: Manager.repairCodex and   *)
(* repairClaude in internal/agentconnections/manager.go, which differ in   *)
(* their command lines only.  manager.mu lets one repair run at a time;    *)
(* the user and the agent edit the configuration whenever they like.       *)
(*                                                                         *)
(* The configuration file is its image: what it says of the key-session    *)
(* entry, and how many edits of others it holds.  The agent's own command  *)
(* line, which is not in the repository, rewrites the file in one step.    *)
(***************************************************************************)
EXTENDS Integers

CONSTANTS
  Blind,      \* the stages at which edits are made though no rollback sees them
  MaxEdits,   \* the bound on edits of the configuration
  MaxFaults   \* the bound on failures, crashes, upgrades and chmods

ASSUME RepairAssumption ==
  Blind \subseteq {"remove", "expect", "restore"} /\ MaxEdits \in Nat /\ MaxFaults \in Nat

VARIABLES
  at,         \* the stage of the repair under way
  before,     \* the entry as inspected by that repair,
  original,   \* the image it would restore,
  expected,   \* and the image it would restore over
  config,     \* the image of the agent's configuration file
  private,    \* is that file the owner's alone?
  skill,      \* the tree at the skill's destination
  backup,     \* the last tree that was set aside, if it is still there
  installed,  \* was there ever a tree at the destination?
  edits,      \* the edits made so far
  faults

vars == <<at, before, original, expected, config, private, skill, backup,
          installed, edits, faults>>

States == {"missing", "needs_repair", "connected"}
Images == [entry : States, edits : Nat]
\* One stage for each place where others may act before the repair goes on.
Stages == {"idle", "install", "aside", "discard", "mcp", "reread", "remove",
           "expect", "add", "compare", "restore"}

At(stage) == at = stage
Goto(stage) == at' = stage
Return == Goto("idle")

Fault == faults < MaxFaults /\ faults' = faults + 1
NoFault == UNCHANGED faults

Locals == <<before, original, expected>>
Files == <<config, private, edits>>
Trees == <<skill, backup, installed>>

(***************************************************************************)
(* Inspection and the skill.                                               *)
(***************************************************************************)
Unconnected == config.entry # "connected" \/ skill # "connected"

\* Mutant: an outdated skill counts as connected.
OnlyMissing == private /\ (config.entry # "connected" \/ skill = "missing")

\* combined(): an unsafe file is refused, whatever else is wrong.
CanRepair == private /\ Unconnected

Begin ==
  /\ At("idle")
  /\ CanRepair
  /\ Goto("install")
  /\ before' = config.entry
  /\ UNCHANGED <<original, expected, Files, Trees, faults>>

\* What follows installSkill.
Proceed == IF before = "connected" THEN Return ELSE Goto("mcp")

\* Mutant: the old tree is removed first.
RemovedFirst == "missing"

\* The tree that is kept while the staged one takes its place.
SetAside == skill

InstallSkill ==
  \/ /\ At("install") /\ skill = "missing"
     /\ skill' = "connected" /\ installed' = TRUE
     /\ UNCHANGED backup
     /\ Proceed
  \/ /\ At("install") /\ skill # "missing"
     /\ skill' = "missing" /\ backup' = SetAside
     /\ UNCHANGED installed
     /\ Goto("aside")
  \/ /\ At("aside")
     /\ skill' = "connected"
     /\ UNCHANGED <<backup, installed>>
     /\ Goto("discard")
  \/ /\ At("discard")
     /\ backup' = "missing"
     /\ UNCHANGED <<skill, installed>>
     /\ Proceed

\* Before the destination is touched; or the rename fails, and so perhaps the
\* one that moves the old tree back; or the backup cannot be removed.
InstallSkillFails ==
  /\ \/ At("install") /\ UNCHANGED <<skill, backup>>
     \/ At("aside") /\ skill' = backup /\ backup' = "missing"
     \/ At("aside") /\ UNCHANGED <<skill, backup>>
     \/ At("discard") /\ UNCHANGED <<skill, backup>>
  /\ UNCHANGED installed
  /\ Return

(***************************************************************************)
(* The MCP entry.                                                          *)
(***************************************************************************)
ReadOriginal ==
  /\ At("mcp")
  /\ IF private
     THEN Goto("reread") /\ original' = config
     ELSE Return /\ UNCHANGED original
  /\ UNCHANGED <<before, expected>>

ReadCurrent ==
  /\ At("reread")
  /\ IF private /\ config = original
     THEN /\ Goto(IF before = "needs_repair" THEN "remove" ELSE "add")
          /\ expected' = original
     ELSE Return /\ UNCHANGED expected
  /\ UNCHANGED <<before, original>>

ReadExpected ==
  /\ At("expect")
  /\ IF private
     THEN Goto("add") /\ expected' = config
     ELSE Return /\ UNCHANGED expected
  /\ UNCHANGED <<before, original>>

\* The agent's command line; one that fails may have done its work.
RemoveEntry == config' = [config EXCEPT !.entry = "missing"]
AddEntry == config' = [config EXCEPT !.entry = "connected"]

MCPRemove == At("remove") /\ RemoveEntry /\ Goto("expect")
MCPAdd == At("add") /\ AddEntry /\ Return

MCPFails ==
  \/ At("remove") /\ (RemoveEntry \/ UNCHANGED config) /\ Return
  \/ At("add") /\ (AddEntry \/ UNCHANGED config) /\ Goto("compare")

\* Mutant: the rollback restores whatever it finds.
AnyImage == private

\* restorePrivateFile: a file that is not as expected is left alone.
Unchanged == private /\ config = expected

Compare ==
  /\ At("compare")
  /\ IF Unchanged THEN Goto("restore") ELSE Return
  /\ UNCHANGED Locals

\* The file that is renamed into place is the owner's alone, whatever the old
\* one became after it was compared.
Restore ==
  At("restore") /\ config' = original /\ private' = TRUE /\ Return
RestoreFails == At("restore") /\ Return

(***************************************************************************)
(* The others.                                                             *)
(***************************************************************************)
\* A rollback that follows does not see an edit that is made while the agent
\* removes the old entry, or while the file is about to be replaced.
Unseen == at \in {"remove", "expect", "restore"} \ Blind

Edit(entry) ==
  /\ edits < MaxEdits
  /\ ~Unseen
  /\ edits' = edits + 1
  /\ config' = [entry |-> entry, edits |-> config.edits + 1]
  /\ UNCHANGED <<at, Locals, private, Trees, faults>>

Chmod == private' = ~private /\ UNCHANGED <<at, Locals, config, edits, Trees>>

\* A new release of the app brings a new skill.
Upgrade ==
  /\ At("idle")
  /\ skill = "connected"
  /\ skill' = "needs_repair"
  /\ UNCHANGED <<at, Locals, backup, installed, Files>>

Crash == at # "idle" /\ Return /\ UNCHANGED <<Locals, Files, Trees>>

Init ==
  /\ config \in [entry : States, edits : {0}]
  /\ at = "idle"
  /\ before = config.entry
  /\ original = config
  /\ expected = config
  /\ private \in BOOLEAN
  /\ skill \in States
  /\ backup = "missing"
  /\ installed = (skill # "missing")
  /\ edits = 0
  /\ faults = 0

Progress ==
  \/ InstallSkill /\ UNCHANGED <<Locals, Files>>
  \/ (ReadOriginal \/ ReadCurrent \/ ReadExpected \/ Compare)
     /\ UNCHANGED <<Files, Trees>>
  \/ (MCPRemove \/ MCPAdd) /\ UNCHANGED <<Locals, private, edits, Trees>>
  \/ Restore /\ UNCHANGED <<Locals, edits, Trees>>

Failure ==
  \/ InstallSkillFails /\ UNCHANGED <<Locals, Files>>
  \/ MCPFails /\ UNCHANGED <<Locals, private, edits, Trees>>
  \/ RestoreFails /\ UNCHANGED <<Locals, Files, Trees>>
  \/ Crash \/ Chmod \/ Upgrade

Next ==
  \/ Begin
  \/ Progress /\ NoFault
  \/ Failure /\ Fault
  \/ \E entry \in States : Edit(entry)

Spec == Init /\ [][Next]_vars

\* A repair that began goes on, and the user asks for another one.
Fairness == WF_vars(Begin) /\ WF_vars(Progress /\ NoFault)

FairSpec == Spec /\ Fairness

-----------------------------------------------------------------------------
\* SECURITY-MODEL.md: repair "leaves a concurrent configuration change
\* untouched rather than overwriting it during rollback".  Every edit that was
\* made is in the file.
NoEditLost == config.edits = edits

\* Wherever a repair stopped, the skill that was installed is at its
\* destination or next to it (installSkill).
SkillKept == installed => skill # "missing" \/ backup # "missing"

\* Failures, crashes and edits leave nothing that later repairs cannot put
\* right: if the file stays private, the agent ends connected.
RepairConverges == <>[]private => <>[](~Unconnected)
=============================================================================
