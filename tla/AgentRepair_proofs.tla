------------------------- MODULE AgentRepair_proofs -------------------------
(***************************************************************************)
(* Proofs about AgentRepair, for any number of edits and of faults.        *)
(***************************************************************************)
EXTENDS AgentRepair, TLAPS

TypeOK ==
  /\ at \in Stages
  /\ before \in States
  /\ original \in Images
  /\ expected \in Images
  /\ config \in Images
  /\ private \in BOOLEAN
  /\ skill \in States
  /\ backup \in States
  /\ installed \in BOOLEAN
  /\ edits \in Nat

\* Where no edit goes unseen, the original holds every edit that the expected
\* image holds, and those of the file while nobody looks at it.
ImagesAgree ==
  /\ config.edits = edits
  /\ at \in {"add", "compare"} => expected.edits = original.edits
  /\ at \in {"remove", "expect", "restore"} => original.edits = config.edits

\* The tree is set aside before it is replaced, and there before the one set
\* aside is removed.
TreesAgree ==
  /\ At("aside") => backup # "missing"
  /\ At("discard") => skill # "missing"
  /\ SkillKept

RepairInv == TypeOK /\ (Blind = {} => ImagesAgree) /\ TreesAgree

LEMMA InitRepair == Init => RepairInv
<1> SUFFICES ASSUME Init PROVE RepairInv
  OBVIOUS
<1>1. config \in Images /\ config.edits = 0
  BY SMT DEF Init, Images
<1>2. installed \in BOOLEAN /\ SkillKept
  BY Zenon DEF Init, SkillKept
<1>3. TypeOK
  BY <1>1, <1>2, SMT DEF Init, TypeOK, Stages, States, Images
<1>4. ImagesAgree
  BY <1>1, SMT DEF Init, ImagesAgree
<1> QED
  BY <1>2, <1>3, <1>4 DEF Init, RepairInv, TreesAgree, At

LEMMA SkillStep ==
  ASSUME RepairInv, InstallSkill \/ InstallSkillFails,
         UNCHANGED <<Locals, Files>>
  PROVE  RepairInv'
<1> USE DEF InstallSkill, InstallSkillFails, Proceed, SetAside, At, Goto,
      Return
<1>1. at' \in {"idle", "aside", "discard", "mcp"}
  BY SMT
<1>2. installed' \in BOOLEAN
  BY Zenon DEF RepairInv, TypeOK
<1>3. skill' \in States /\ backup' \in States
  BY SMT DEF RepairInv, TypeOK, States
<1>4. TypeOK'
  BY <1>1, <1>2, <1>3 DEF RepairInv, TypeOK, Stages, Files, Locals
<1>5. Blind = {} => ImagesAgree'
  BY <1>1 DEF RepairInv, ImagesAgree, Files, Locals
<1>6. TreesAgree'
  <2>1. CASE skill' # "missing" \/ backup' # "missing"
    BY <2>1, SMT DEF RepairInv, TreesAgree, SkillKept
  <2>2. CASE skill' = "missing" /\ backup' = "missing"
    BY <2>2, SMT DEF RepairInv, TreesAgree, SkillKept
  <2> QED
    BY <2>1, <2>2
<1> QED
  BY <1>4, <1>5, <1>6 DEF RepairInv

LEMMA ReadStep ==
  ASSUME RepairInv, ReadOriginal \/ ReadCurrent \/ ReadExpected \/ Compare,
         UNCHANGED <<Files, Trees>>
  PROVE  RepairInv'
  BY SMT DEF RepairInv, TypeOK, ImagesAgree, TreesAgree, SkillKept, At, Goto,
    Return, Stages, Files, Trees, Locals, ReadOriginal, ReadCurrent,
    ReadExpected, Compare, Unchanged

LEMMA WriteStep ==
  ASSUME RepairInv, MCPRemove \/ MCPAdd \/ MCPFails \/ Restore,
         private' \in BOOLEAN, UNCHANGED <<Locals, edits, Trees>>
  PROVE  RepairInv'
<1> USE DEF RepairInv, TypeOK, ImagesAgree, TreesAgree, SkillKept, At, Goto,
      Return, Stages, States, Images, Trees, Locals
<1>1. ASSUME NEW e \in States, config' = [config EXCEPT !.entry = e]
      PROVE  config' \in Images /\ config'.edits = config.edits
  BY <1>1, SMT
<1>2. CASE RemoveEntry
  BY <1>1, <1>2, SMT DEF RemoveEntry, MCPRemove, MCPAdd, MCPFails, Restore
<1>3. CASE AddEntry
  BY <1>1, <1>3, SMT DEF AddEntry, MCPRemove, MCPAdd, MCPFails, Restore
<1>4. CASE UNCHANGED config
  BY <1>4, SMT DEF MCPRemove, MCPAdd, MCPFails, Restore
<1>5. CASE Restore
  BY <1>5, SMT DEF Restore
<1> QED
  BY <1>2, <1>3, <1>4, <1>5 DEF MCPRemove, MCPAdd, MCPFails

LEMMA EditStep ==
  ASSUME RepairInv, NEW entry \in States, Edit(entry)
  PROVE  RepairInv'
  BY SMT DEF RepairInv, TypeOK, ImagesAgree, TreesAgree, SkillKept, At, Edit,
    Unseen, Images, Trees, Locals

LEMMA StepRepair ==
  ASSUME RepairInv, [Next]_vars
  PROVE  RepairInv'
<1> USE DEF RepairInv, TypeOK, ImagesAgree, TreesAgree, SkillKept, At, Goto,
      Return, Stages, States, Images, Files, Trees, Locals
<1>1. CASE Begin
  BY <1>1, SMT DEF Begin, CanRepair, Unconnected
<1>2. CASE Crash
  BY <1>2, SMT DEF Crash
<1>3. CASE Chmod
  BY <1>3, SMT DEF Chmod
<1>4. CASE Upgrade
  BY <1>4, SMT DEF Upgrade
<1>5. CASE RestoreFails /\ UNCHANGED <<Locals, Files, Trees>>
  BY <1>5, SMT DEF RestoreFails
<1>6. CASE UNCHANGED vars
  BY <1>6, SMT DEF vars
<1> HIDE DEF RepairInv, TypeOK, ImagesAgree, TreesAgree, SkillKept, At, Goto,
      Return, Stages, States, Images, Files, Trees, Locals
<1>0. private \in BOOLEAN
  BY DEF RepairInv, TypeOK
<1>7. CASE Progress
  <2>1. Restore => private' \in BOOLEAN
    BY DEF Restore
  <2> QED
    BY <1>0, <1>7, <2>1, SkillStep, ReadStep, WriteStep DEF Progress
<1>8. CASE Failure
  BY <1>0, <1>2, <1>3, <1>4, <1>5, <1>8, SkillStep, WriteStep DEF Failure
<1> QED
  BY <1>1, <1>6, <1>7, <1>8, EditStep DEF Next

\* Where every edit is seen by the rollback that may follow, none is ever
\* lost (restorePrivateFile).
THEOREM EditsSurviveRepair ==
  ASSUME Blind = {}
  PROVE  Spec => []NoEditLost
<1>1. RepairInv => NoEditLost
  BY DEF RepairInv, ImagesAgree, NoEditLost
<1>2. Init => RepairInv
  BY InitRepair
<1>3. RepairInv /\ [Next]_vars => RepairInv'
  BY StepRepair
<1> QED
  BY <1>1, <1>2, <1>3, PTL DEF Spec

\* Wherever a repair stops, the skill that was installed is still there
\* (installSkill).
THEOREM SkillSurvivesRepair == Spec => []SkillKept
<1>1. RepairInv => SkillKept
  BY DEF RepairInv, TreesAgree
<1>2. Init => RepairInv
  BY InitRepair
<1>3. RepairInv /\ [Next]_vars => RepairInv'
  BY StepRepair
<1> QED
  BY <1>1, <1>2, <1>3, PTL DEF Spec
=============================================================================
