------------------------ MODULE WindowsUpgradeProofs ------------------------
(***************************************************************************)
(* Theorems about WindowsUpgrade, for any number of runs and of failures.  *)
(***************************************************************************)
EXTENDS WindowsUpgrade, TLAPS

\* The variables of the tool and the instance keep their types, through
\* failed steps, kills and reruns.
THEOREM TypeCorrect == Spec => []TypeOK
<1>1. Init => TypeOK
  <2> SUFFICES ASSUME Init PROVE TypeOK
    OBVIOUS
  <2>1. vm \in VM /\ customer \in Script
    BY BoundsAssumption DEF Init, VM, Script
  <2>2. flags \in Flags
    BY DEF Init, Flags
  <2>3. QED
    BY <2>1, <2>2, BoundsAssumption
       DEF Init, TypeOK, Script, Outcome, Active, AnyStep
<1>2. TypeOK /\ [Next]_vars => TypeOK'
  <2> SUFFICES ASSUME TypeOK, [Next]_vars PROVE TypeOK'
    OBVIOUS
  <2> USE BoundsAssumption DEF TypeOK, Outcome, Active, Workflow, AnyStep
  <2>1. CASE CreateMachineImage
    <3>1. vm' \in VM
      BY <2>1, SMTT(40) DEF CreateMachineImage, Operation, RunStep, VM, Script
    <3>2. QED
      BY <2>1, <3>1 DEF CreateMachineImage, Operation, RunStep, AfterFailure
  <2>2. CASE CreateSnapshot
    <3>1. vm' \in VM
      BY <2>2, SMTT(40) DEF CreateSnapshot, Operation, RunStep, VM, Script
    <3>2. QED
      BY <2>2, <3>1 DEF CreateSnapshot, Operation, RunStep, AfterFailure
  <2>3. CASE CreateNewOSDisk
    <3>1. vm' \in VM
      <4> DEFINE after == [vm EXCEPT !.newDisk = TRUE]
      <4>1. after \in VM
        BY DEF VM
      <4>2. vm' \in {vm, after}
        BY <2>3, Zenon DEF CreateNewOSDisk, Operation, RunStep
      <4>3. QED
        BY <4>1, <4>2
    <3>2. QED
      BY <2>3, <3>1 DEF CreateNewOSDisk, Operation, RunStep, AfterFailure
  <2>4. CASE DetachOldOSDisk
    <3>1. vm' \in VM
      BY <2>4, SMTT(40) DEF DetachOldOSDisk, Operation, RunStep, VM, Script
    <3>2. QED
      BY <2>4, <3>1 DEF DetachOldOSDisk, Operation, RunStep, AfterFailure
  <2>5. CASE AttachNewOSDisk
    <3>1. vm' \in VM
      BY <2>5, SMTT(40) DEF AttachNewOSDisk, Operation, RunStep, VM, Script
    <3>2. QED
      BY <2>5, <3>1 DEF AttachNewOSDisk, Operation, RunStep, AfterFailure
  <2>6. CASE CreateInstallDisk
    <3>1. vm' \in VM
      BY <2>6, SMTT(40) DEF CreateInstallDisk, Operation, RunStep, VM, Script
    <3>2. QED
      BY <2>6, <3>1 DEF CreateInstallDisk, Operation, RunStep, AfterFailure
  <2>7. CASE AttachInstallDisk
    <3>1. vm' \in VM
      BY <2>7, SMTT(40) DEF AttachInstallDisk, Operation, RunStep, VM, Script
    <3>2. QED
      BY <2>7, <3>1 DEF AttachInstallDisk, Operation, RunStep, AfterFailure
  <2>8. CASE BackupScript
    <3>1. vm' \in VM
      BY <2>8, SMTT(40) DEF BackupScript, Operation, RunStep, VM, Script
    <3>2. QED
      BY <2>8, <3>1 DEF BackupScript, Operation, RunStep, AfterFailure
  <2>9. CASE SetScript
    <3>1. vm' \in VM
      BY <2>9, SMTT(40) DEF SetScript, Operation, RunStep, VM, Script
    <3>2. QED
      BY <2>9, <3>1 DEF SetScript, Operation, RunStep, AfterFailure
  <2>10. CASE StartInstance
    <3>1. [vm EXCEPT !.running = TRUE] \in VM
      BY DEF VM, Script
    <3>2. vm' \in {vm, [vm EXCEPT !.running = TRUE]}
      BY <2>10 DEF StartInstance, Operation, RunStep
    <3>3. vm' \in VM
      BY <3>1, <3>2
    <3>4. QED
      BY <2>10, <3>3 DEF StartInstance, Operation, RunStep, AfterFailure
  <2>11. CASE WaitForBoot
    <3>1. vm' \in VM
      BY <2>11, SMTT(40) DEF WaitForBoot, Operation, RunStep, VM, Script
    <3>2. QED
      BY <2>11, <3>1 DEF WaitForBoot, Operation, RunStep, AfterFailure
  <2>12. CASE WaitForUpgrade
    <3>1. vm' \in VM
      BY <2>12, SMTT(40) DEF WaitForUpgrade, Operation, RunStep, VM, Script
    <3>2. QED
      BY <2>12, <3>1 DEF WaitForUpgrade, Operation, RunStep, AfterFailure
  <2>13. CASE NeedsReboot
    BY <2>13 DEF NeedsReboot
  <2>14. CASE StopInstance
    <3>1. [vm EXCEPT !.running = FALSE] \in VM
      BY DEF VM, Script
    <3>2. vm' \in {vm, [vm EXCEPT !.running = FALSE]}
      BY <2>14 DEF StopInstance, Operation, RunStep
    <3>3. vm' \in VM
      BY <3>1, <3>2
    <3>4. QED
      BY <2>14, <3>3 DEF StopInstance, Operation, RunStep, AfterFailure
  <2>15. CASE RestoreScript
    <3>1. [vm EXCEPT !.script = original, !.backup = "none"] \in VM
      BY DEF VM, Script
    <3>2. vm' \in {vm, [vm EXCEPT !.script = original, !.backup = "none"]}
      BY <2>15 DEF RestoreScript, Operation, RunStep
    <3>3. vm' \in VM
      BY <3>1, <3>2
    <3>4. QED
      BY <2>15, <3>3 DEF RestoreScript, Operation, RunStep, AfterFailure
  <2>16. CASE DetachInstallDisk
    <3>1. vm' \in VM
      BY <2>16, SMTT(40) DEF DetachInstallDisk, Operation, RunStep, VM, Script
    <3>2. QED
      BY <2>16, <3>1 DEF DetachInstallDisk, Operation, RunStep, AfterFailure
  <2>17. CASE DeleteInstallDisk
    <3>1. vm' \in VM
      BY <2>17, SMTT(40) DEF DeleteInstallDisk, Operation, RunStep, VM, Script
    <3>2. QED
      BY <2>17, <3>1 DEF DeleteInstallDisk, Operation, RunStep, AfterFailure
  <2>18. CASE DetachNewOSDisk
    <3>1. vm' \in VM
      BY <2>18, SMTT(40) DEF DetachNewOSDisk, Operation, RunStep, VM, Script
    <3>2. QED
      BY <2>18, <3>1 DEF DetachNewOSDisk, Operation, RunStep, AfterFailure
  <2>19. CASE AttachOldOSDisk
    <3>1. vm' \in VM
      BY <2>19, SMTT(40) DEF AttachOldOSDisk, Operation, RunStep, VM, Script
    <3>2. QED
      BY <2>19, <3>1 DEF AttachOldOSDisk, Operation, RunStep, AfterFailure
  <2>20. CASE DeleteDisks
    <3>1. vm' \in VM
      <4> DEFINE noNew     == [vm EXCEPT !.newDisk = FALSE]
                 noInstall == [vm EXCEPT !.install = "absent"]
                 neither   == [vm EXCEPT !.newDisk = FALSE, !.install = "absent"]
      <4>1. noNew \in VM /\ noInstall \in VM /\ neither \in VM
        BY DEF VM
      <4>2. vm' \in {vm, noNew, noInstall, neither}
        BY <2>20, Zenon DEF DeleteDisks, RunStep
      <4>3. QED
        BY <4>1, <4>2
    <3>2. QED
      BY <2>20, <3>1 DEF DeleteDisks, RunStep, AfterFailure
  <2>21. CASE WorkflowEnds
    BY <2>21 DEF WorkflowEnds
  <2>22. CASE HandleResult
    BY <2>22 DEF HandleResult
  <2>23. CASE StartRun
    <3>1. vm' \in VM /\ original' \in Script
      BY <2>23 DEF StartRun, OriginalScript, VM, Script
    <3>2. QED
      BY <2>23, <3>1 DEF StartRun
  <2>24. CASE Kill
    BY <2>24 DEF Kill
  <2>25. CASE UserStarts
    <3>1. vm' \in VM
      BY <2>25 DEF UserStarts, VM
    <3>2. QED
      BY <2>25, <3>1 DEF UserStarts
  <2>26. CASE UserReattaches
    <3>1. vm' \in VM
      BY <2>26 DEF UserReattaches, VM
    <3>2. QED
      BY <2>26, <3>1 DEF UserReattaches
  <2>27. CASE UNCHANGED vars
    BY <2>27 DEF vars
  <2>28. QED
    BY <2>1, <2>2, <2>3, <2>4, <2>5, <2>6, <2>7, <2>8, <2>9, <2>10, <2>11,
       <2>12, <2>13, <2>14, <2>15, <2>16, <2>17, <2>18, <2>19, <2>20,
       <2>21, <2>22, <2>23, <2>24, <2>25, <2>26, <2>27
       DEF Next, ToolStep, Prepare, Upgrade, Restore, User, Terminating
<1>3. QED
  BY <1>1, <1>2, PTL DEF Spec

\* Each run keeps the customer's script in a key and in its own memory.
THEOREM ScriptInvariant == Spec => []ScriptInv
<1>1. Init => ScriptInv
  BY DEF Init, ScriptInv, Active, Workflow
<1>2. TypeOK /\ ScriptInv /\ [Next]_vars => ScriptInv'
  <2> SUFFICES ASSUME TypeOK, ScriptInv, [Next]_vars PROVE ScriptInv'
    OBVIOUS
  <2> USE DEF TypeOK, VM, Active, Workflow, ScriptInv
  <2>1. CASE CreateMachineImage
    BY <2>1 DEF CreateMachineImage, Operation, RunStep, AfterFailure
  <2>2. CASE CreateSnapshot
    BY <2>2 DEF CreateSnapshot, Operation, RunStep, AfterFailure
  <2>3. CASE CreateNewOSDisk
    BY <2>3 DEF CreateNewOSDisk, Operation, RunStep, AfterFailure
  <2>4. CASE DetachOldOSDisk
    BY <2>4 DEF DetachOldOSDisk, Operation, RunStep, AfterFailure
  <2>5. CASE AttachNewOSDisk
    BY <2>5 DEF AttachNewOSDisk, Operation, RunStep, AfterFailure
  <2>6. CASE CreateInstallDisk
    BY <2>6 DEF CreateInstallDisk, Operation, RunStep, AfterFailure
  <2>7. CASE AttachInstallDisk
    BY <2>7 DEF AttachInstallDisk, Operation, RunStep, AfterFailure
  <2>8. CASE BackupScript
    BY <2>8 DEF BackupScript, Operation, RunStep, AfterFailure
  <2>9. CASE SetScript
    BY <2>9 DEF SetScript, Operation, RunStep, AfterFailure, Steps, CleanupSteps, Needs,
        PrepareNeeds
  <2>10. CASE StartInstance
    BY <2>10 DEF StartInstance, Operation, RunStep, AfterFailure
  <2>11. CASE WaitForBoot
    BY <2>11 DEF WaitForBoot, Operation, RunStep, AfterFailure
  <2>12. CASE WaitForUpgrade
    BY <2>12 DEF WaitForUpgrade, Operation, RunStep, AfterFailure
  <2>13. CASE NeedsReboot
    BY <2>13 DEF NeedsReboot
  <2>14. CASE StopInstance
    BY <2>14 DEF StopInstance, Operation, RunStep, AfterFailure
  <2>15. CASE RestoreScript
    <3> DEFINE after == [vm EXCEPT !.script = original, !.backup = "none"]
    <3>1. after.script = original /\ after.backup = "none"
      BY DEF VM
    <3>2. pc \in Workflow /\ vm' \in {vm, after}
      BY <2>15, Zenon DEF RestoreScript, Operation, RunStep
    <3>3. /\ pc' \in {pc, "handle", "ended"} /\ done' \in {done, done \cup {"restoreScript"}}
          /\ original' = original /\ customer' = customer
      BY <2>15 DEF RestoreScript, Operation, RunStep, AfterFailure
    <3>4. pc = "prepare" => "restoreScript" \notin Steps(pc)
      BY DEF Steps
    <3>5. pc # "prepare"
      BY <2>15, <3>4 DEF RestoreScript, Operation, RunStep
    <3> HIDE DEF after
    <3>6. QED
      BY <3>1, <3>2, <3>3, <3>5
  <2>16. CASE DetachInstallDisk
    BY <2>16 DEF DetachInstallDisk, Operation, RunStep, AfterFailure
  <2>17. CASE DeleteInstallDisk
    BY <2>17 DEF DeleteInstallDisk, Operation, RunStep, AfterFailure
  <2>18. CASE DetachNewOSDisk
    BY <2>18 DEF DetachNewOSDisk, Operation, RunStep, AfterFailure
  <2>19. CASE AttachOldOSDisk
    BY <2>19 DEF AttachOldOSDisk, Operation, RunStep, AfterFailure
  <2>20. CASE DeleteDisks
    <3> DEFINE noNew     == [vm EXCEPT !.newDisk = FALSE]
               noInstall == [vm EXCEPT !.install = "absent"]
               neither   == [vm EXCEPT !.newDisk = FALSE, !.install = "absent"]
    <3>1. \A x \in {vm, noNew, noInstall, neither} :
            x.script = vm.script /\ x.backup = vm.backup
      BY DEF VM
    <3>2. pc \in Workflow /\ vm' \in {vm, noNew, noInstall, neither}
      BY <2>20, Zenon DEF DeleteDisks, RunStep
    <3>3. /\ pc' \in {pc, "handle", "ended"} /\ done' \in {done, done \cup {"deleteDisks"}}
          /\ original' = original /\ customer' = customer
      BY <2>20 DEF DeleteDisks, RunStep, AfterFailure
    <3> HIDE DEF noNew, noInstall, neither
    <3>4. vm'.script = vm.script /\ vm'.backup = vm.backup
      BY <3>1, <3>2
    <3>5. QED
      BY <3>2, <3>3, <3>4
  <2>21. CASE WorkflowEnds
    BY <2>21 DEF WorkflowEnds
  <2>22. CASE HandleResult
    BY <2>22 DEF HandleResult
  <2>23. CASE StartRun
    <3>1. vm'.script = vm.script /\ vm'.backup = vm.backup
      BY <2>23 DEF StartRun
    <3>2. original' \in {original, OriginalScript} /\ customer' = customer
      BY <2>23 DEF StartRun
    <3>3. \/ pc' = "prepare" /\ done' = {} /\ original' = OriginalScript
          \/ pc' = pc /\ pc = "ended"
      BY <2>23 DEF StartRun
    <3>4. customer # "none" => OriginalScript = customer
      BY DEF OriginalScript
    <3>5. QED
      BY <3>1, <3>2, <3>3, <3>4
  <2>24. CASE Kill
    BY <2>24 DEF Kill
  <2>25. CASE UserStarts
    BY <2>25 DEF UserStarts
  <2>26. CASE UserReattaches
    BY <2>26 DEF UserReattaches
  <2>27. CASE UNCHANGED vars
    BY <2>27 DEF vars
  <2>28. QED
    BY <2>1, <2>2, <2>3, <2>4, <2>5, <2>6, <2>7, <2>8, <2>9, <2>10, <2>11,
       <2>12, <2>13, <2>14, <2>15, <2>16, <2>17, <2>18, <2>19, <2>20,
       <2>21, <2>22, <2>23, <2>24, <2>25, <2>26, <2>27
       DEF Next, ToolStep, Prepare, Upgrade, Restore, User, Terminating
<1>3. QED
  BY <1>1, <1>2, TypeCorrect, PTL DEF Spec

\* The customer's startup script is in one of the two metadata keys at every
\* moment of every run, wherever the runs fail or are killed.
THEOREM ScriptNeverLost == Spec => []ScriptKept
<1>1. ScriptInv => ScriptKept
  BY DEF ScriptInv, ScriptKept
<1>2. QED
  BY <1>1, ScriptInvariant, PTL

\* Nothing of the preparation happens while the instance runs.
THEOREM SnapshotInvariant == Spec => []SnapshotInv
<1>1. Init => SnapshotInv
  BY DEF Init, SnapshotInv
<1>2. TypeOK /\ SnapshotInv /\ [Next]_vars => SnapshotInv'
  <2> SUFFICES ASSUME TypeOK, SnapshotInv, [Next]_vars PROVE SnapshotInv'
    OBVIOUS
  <2> USE DEF TypeOK, VM, Active, Workflow, SnapshotInv, Steps, CleanupSteps, Needs,
              PrepareNeeds
  <2>1. CASE CreateMachineImage
    BY <2>1 DEF CreateMachineImage, Operation, RunStep, AfterFailure
  <2>2. CASE CreateSnapshot
    BY <2>2 DEF CreateSnapshot, Operation, RunStep, AfterFailure
  <2>3. CASE CreateNewOSDisk
    BY <2>3 DEF CreateNewOSDisk, Operation, RunStep, AfterFailure
  <2>4. CASE DetachOldOSDisk
    BY <2>4 DEF DetachOldOSDisk, Operation, RunStep, AfterFailure
  <2>5. CASE AttachNewOSDisk
    BY <2>5 DEF AttachNewOSDisk, Operation, RunStep, AfterFailure
  <2>6. CASE CreateInstallDisk
    BY <2>6 DEF CreateInstallDisk, Operation, RunStep, AfterFailure
  <2>7. CASE AttachInstallDisk
    BY <2>7 DEF AttachInstallDisk, Operation, RunStep, AfterFailure
  <2>8. CASE BackupScript
    BY <2>8 DEF BackupScript, Operation, RunStep, AfterFailure
  <2>9. CASE SetScript
    BY <2>9 DEF SetScript, Operation, RunStep, AfterFailure
  <2>10. CASE StartInstance
    BY <2>10 DEF StartInstance, Operation, RunStep, AfterFailure
  <2>11. CASE WaitForBoot
    BY <2>11 DEF WaitForBoot, Operation, RunStep, AfterFailure
  <2>12. CASE WaitForUpgrade
    BY <2>12 DEF WaitForUpgrade, Operation, RunStep, AfterFailure
  <2>13. CASE NeedsReboot
    BY <2>13 DEF NeedsReboot
  <2>14. CASE StopInstance
    BY <2>14 DEF StopInstance, Operation, RunStep, AfterFailure
  <2>15. CASE RestoreScript
    BY <2>15 DEF RestoreScript, Operation, RunStep, AfterFailure
  <2>16. CASE DetachInstallDisk
    BY <2>16 DEF DetachInstallDisk, Operation, RunStep, AfterFailure
  <2>17. CASE DeleteInstallDisk
    BY <2>17 DEF DeleteInstallDisk, Operation, RunStep, AfterFailure
  <2>18. CASE DetachNewOSDisk
    BY <2>18 DEF DetachNewOSDisk, Operation, RunStep, AfterFailure
  <2>19. CASE AttachOldOSDisk
    BY <2>19 DEF AttachOldOSDisk, Operation, RunStep, AfterFailure
  <2>20. CASE DeleteDisks
    BY <2>20 DEF DeleteDisks, RunStep, AfterFailure
  <2>21. CASE WorkflowEnds
    BY <2>21 DEF WorkflowEnds
  <2>22. CASE HandleResult
    BY <2>22 DEF HandleResult
  <2>23. CASE StartRun
    BY <2>23 DEF StartRun
  <2>24. CASE Kill
    BY <2>24 DEF Kill
  <2>25. CASE UserStarts
    BY <2>25 DEF UserStarts
  <2>26. CASE UserReattaches
    BY <2>26 DEF UserReattaches
  <2>27. CASE UNCHANGED vars
    BY <2>27 DEF vars
  <2>28. QED
    BY <2>1, <2>2, <2>3, <2>4, <2>5, <2>6, <2>7, <2>8, <2>9, <2>10, <2>11,
       <2>12, <2>13, <2>14, <2>15, <2>16, <2>17, <2>18, <2>19, <2>20,
       <2>21, <2>22, <2>23, <2>24, <2>25, <2>26, <2>27
       DEF Next, ToolStep, Prepare, Upgrade, Restore, User, Terminating
<1>3. QED
  BY <1>1, <1>2, TypeCorrect, PTL DEF Spec

\* The snapshot a manual rollback may need is always of a stopped instance.
THEOREM SnapshotOfStoppedInstance == Spec => []SnapshotConsistent
<1>1. SnapshotInv => SnapshotConsistent
  BY DEF SnapshotInv, SnapshotConsistent
<1>2. QED
  BY <1>1, SnapshotInvariant, PTL

\* The workflow that a step belongs to.
LEMMA StepsFact ==
    ASSUME pc \in Workflow
    PROVE  /\ \A s \in {"machineImage", "snapshot", "createNew", "detachOld", "attachNew",
                        "createInstall", "attachInstall", "backupScript", "setScript"} :
                s \in Steps(pc) => pc = "prepare"
           /\ \A s \in {"detachNew", "attachOld", "deleteDisks"} :
                s \in Steps(pc) => pc = "rollback"
           /\ pc = "prepare" =>
                {"restoreScript", "detachInstall", "deleteInstall"} \cap Steps(pc) = {}
BY DEF Workflow, Steps, CleanupSteps

\* A workflow that fails has reported nothing yet, and the run reports no success.
LEMMA FailureKeepsResult ==
    ASSUME ResultInv, pc \in Workflow, AfterFailure
    PROVE  ResultInv'
BY DEF ResultInv, AfterFailure, Workflow, Active, UpgradedIsClean, RolledBackIsOriginal

\* What is left to show of a step is its success.
LEMMA StepKeepsResult ==
    ASSUME ResultInv, NEW s, NEW possible, NEW after, NEW left, RunStep(s, possible, after, left),
           /\ possible /\ pc \in Workflow /\ s \in Steps(pc)
           /\ vm' = after /\ done' = done \cup {s} /\ UNCHANGED <<pc, outcome, original>>
           => ResultInv'
    PROVE  ResultInv'
<1>1. pc \in Workflow /\ s \in Steps(pc) /\ original' = original
  BY Zenon DEF RunStep
<1>2. \/ possible /\ vm' = after /\ done' = done \cup {s} /\ UNCHANGED <<pc, outcome>>
      \/ AfterFailure
  BY Zenon DEF RunStep
<1> QED
  BY <1>1, <1>2, FailureKeepsResult, Zenon

\* The disks and the scripts, without which no step changes what a run has reported.
parts(x) == <<x.boot, x.newDisk, x.install, x.script, x.backup>>

\* The steps that change none of them.
LEMMA NeutralStep ==
    ASSUME ResultInv, pc \in Workflow, UNCHANGED <<pc, outcome, original>>,
           NEW s \in {"stop", "start", "machineImage", "snapshot", "waitBoot", "waitUpgrade"},
           done' = done \cup {s}, parts(vm)' = parts(vm)
    PROVE  ResultInv'
BY DEF ResultInv, parts, UpgradedIsClean, RolledBackIsOriginal, Active

\* The steps of the preparation.
LEMMA PrepareKeepsResult ==
    ASSUME TypeOK, ResultInv, Prepare
    PROVE  ResultInv'
<1> USE DEF TypeOK
<1>0. /\ pc = "prepare" => outcome = "none"
      /\ pc = "prepare" /\ "attachNew" \in done => vm.boot = "new" /\ vm.newDisk
  BY DEF ResultInv, Active, Workflow
<1>1. ASSUME UNCHANGED <<pc, outcome, original>>, pc = "prepare",
             "attachNew" \in done' => vm'.boot = "new" /\ vm'.newDisk
      PROVE  ResultInv'
  BY <1>0, <1>1 DEF ResultInv, UpgradedIsClean, RolledBackIsOriginal
<1>2. CASE CreateMachineImage
  <2> SUFFICES ASSUME UNCHANGED <<pc, outcome, original>>, pc = "prepare",
                      vm' = vm, done' = done \cup {"machineImage"}
               PROVE  ResultInv'
    BY <1>2, StepKeepsResult, StepsFact DEF CreateMachineImage, Operation
  <2> QED
    BY <1>0, <1>1
<1>3. CASE CreateSnapshot
  <2> DEFINE after == [vm EXCEPT !.snapshot = IF vm.running THEN "inconsistent" ELSE "consistent"]
  <2>1. after.boot = vm.boot /\ after.newDisk = vm.newDisk
    BY DEF VM
  <2> SUFFICES ASSUME UNCHANGED <<pc, outcome, original>>, pc = "prepare",
                      vm' = after, done' = done \cup {"snapshot"}
               PROVE  ResultInv'
    BY <1>3, StepKeepsResult, StepsFact DEF CreateSnapshot, Operation
  <2> HIDE DEF after
  <2> QED
    BY <1>0, <1>1, <2>1
<1>4. CASE CreateNewOSDisk
  <2> DEFINE after == [vm EXCEPT !.newDisk = TRUE]
  <2>1. after.boot = vm.boot /\ after.newDisk
    BY DEF VM
  <2> SUFFICES ASSUME UNCHANGED <<pc, outcome, original>>, pc = "prepare",
                      vm' = after, done' = done \cup {"createNew"}
               PROVE  ResultInv'
    BY <1>4, StepKeepsResult, StepsFact DEF CreateNewOSDisk, Operation
  <2> HIDE DEF after
  <2> QED
    BY <1>0, <1>1, <2>1
<1>5. CASE DetachOldOSDisk
  <2> SUFFICES ASSUME UNCHANGED <<pc, outcome, original>>, pc = "prepare",
                      vm.boot = "old", done' = done \cup {"detachOld"}
               PROVE  ResultInv'
    BY <1>5, StepKeepsResult, StepsFact DEF DetachOldOSDisk, Operation
  <2> QED
    BY <1>0, <1>1
<1>6. CASE AttachNewOSDisk
  <2> DEFINE after == [vm EXCEPT !.boot = "new"]
  <2>1. after.boot = "new" /\ after.newDisk = vm.newDisk
    BY DEF VM
  <2> SUFFICES ASSUME UNCHANGED <<pc, outcome, original>>, pc = "prepare",
                      vm.newDisk, vm' = after, done' = done \cup {"attachNew"}
               PROVE  ResultInv'
    BY <1>6, StepKeepsResult, StepsFact DEF AttachNewOSDisk, Operation
  <2> HIDE DEF after
  <2> QED
    BY <1>1, <2>1
<1>7. CASE CreateInstallDisk
  <2> DEFINE after == [vm EXCEPT !.install = "detached"]
  <2>1. after.boot = vm.boot /\ after.newDisk = vm.newDisk
    BY DEF VM
  <2> SUFFICES ASSUME UNCHANGED <<pc, outcome, original>>, pc = "prepare",
                      vm' = after, done' = done \cup {"createInstall"}
               PROVE  ResultInv'
    BY <1>7, StepKeepsResult, StepsFact DEF CreateInstallDisk, Operation
  <2> HIDE DEF after
  <2> QED
    BY <1>0, <1>1, <2>1
<1>8. CASE AttachInstallDisk
  <2> DEFINE after == [vm EXCEPT !.install = "attached"]
  <2>1. after.boot = vm.boot /\ after.newDisk = vm.newDisk
    BY DEF VM
  <2> SUFFICES ASSUME UNCHANGED <<pc, outcome, original>>, pc = "prepare",
                      vm' = after, done' = done \cup {"attachInstall"}
               PROVE  ResultInv'
    BY <1>8, StepKeepsResult, StepsFact DEF AttachInstallDisk, Operation
  <2> HIDE DEF after
  <2> QED
    BY <1>0, <1>1, <2>1
<1>9. CASE BackupScript
  <2> DEFINE after == [vm EXCEPT !.backup = original]
  <2>1. after.boot = vm.boot /\ after.newDisk = vm.newDisk
    BY DEF VM
  <2> SUFFICES ASSUME UNCHANGED <<pc, outcome, original>>, pc = "prepare",
                      vm' = after, done' = done \cup {"backupScript"}
               PROVE  ResultInv'
    BY <1>9, StepKeepsResult, StepsFact DEF BackupScript, Operation
  <2> HIDE DEF after
  <2> QED
    BY <1>0, <1>1, <2>1
<1>10. CASE SetScript
  <2> DEFINE after == [vm EXCEPT !.script = "tool"]
  <2>1. after.boot = vm.boot /\ after.newDisk = vm.newDisk
    BY DEF VM
  <2> SUFFICES ASSUME UNCHANGED <<pc, outcome, original>>, pc = "prepare",
                      vm' = after, done' = done \cup {"setScript"}
               PROVE  ResultInv'
    BY <1>10, StepKeepsResult, StepsFact DEF SetScript, Operation
  <2> HIDE DEF after
  <2> QED
    BY <1>0, <1>1, <2>1
<1> QED
  BY <1>2, <1>3, <1>4, <1>5, <1>6, <1>7, <1>8, <1>9, <1>10 DEF Prepare

\* The steps of the upgrade.
LEMMA UpgradeKeepsResult ==
    ASSUME TypeOK, ResultInv, Upgrade
    PROVE  ResultInv'
<1>1. CASE StartInstance
  <2> DEFINE after == [vm EXCEPT !.running = TRUE]
  <2>1. parts(after) = parts(vm)
    BY DEF TypeOK, VM, parts
  <2> SUFFICES ASSUME UNCHANGED <<pc, outcome, original>>, pc \in Workflow,
                      vm' = after, done' = done \cup {"start"}
               PROVE  ResultInv'
    BY <1>1, StepKeepsResult DEF StartInstance, Operation
  <2> HIDE DEF after
  <2> QED
    BY <2>1, NeutralStep DEF parts
<1>2. CASE WaitForBoot
  <2> SUFFICES ASSUME UNCHANGED <<pc, outcome, original>>, pc \in Workflow,
                      vm' = vm, done' = done \cup {"waitBoot"}
               PROVE  ResultInv'
    BY <1>2, StepKeepsResult DEF WaitForBoot, Operation
  <2> QED
    BY NeutralStep DEF parts
<1>3. CASE WaitForUpgrade
  <2> SUFFICES ASSUME UNCHANGED <<pc, outcome, original>>, pc \in Workflow,
                      vm' = vm, done' = done \cup {"waitUpgrade"}
               PROVE  ResultInv'
    BY <1>3, StepKeepsResult DEF WaitForUpgrade, Operation
  <2> QED
    BY NeutralStep DEF parts
<1>4. CASE NeedsReboot
  <2>1. UNCHANGED <<outcome, vm, original>> /\ pc \in {"upgrade", "retry"}
    BY <1>4 DEF NeedsReboot
  <2>2. (pc' = "reboot" /\ done' = {}) \/ pc' = "handle"
    BY <1>4 DEF NeedsReboot
  <2> QED
    BY <2>1, <2>2 DEF ResultInv, Active, Workflow, UpgradedIsClean, RolledBackIsOriginal
<1> QED
  BY <1>1, <1>2, <1>3, <1>4 DEF Upgrade

\* The steps of the cleanup and of the rollback.
LEMMA RestoreKeepsResult ==
    ASSUME TypeOK, ResultInv, Restore
    PROVE  ResultInv'
<1> USE DEF TypeOK
<1>1. CASE StopInstance
  <2> DEFINE after == [vm EXCEPT !.running = FALSE]
  <2>1. parts(after) = parts(vm)
    BY DEF VM, parts
  <2> SUFFICES ASSUME UNCHANGED <<pc, outcome, original>>, pc \in Workflow,
                      vm' = after, done' = done \cup {"stop"}
               PROVE  ResultInv'
    BY <1>1, StepKeepsResult DEF StopInstance, Operation
  <2> HIDE DEF after
  <2> QED
    BY <2>1, NeutralStep DEF parts
<1>2. CASE RestoreScript
  <2> DEFINE after == [vm EXCEPT !.script = original, !.backup = "none"]
  <2>1. /\ after.boot = vm.boot /\ after.newDisk = vm.newDisk /\ after.install = vm.install
        /\ after.script = original /\ after.backup = "none"
    BY DEF VM
  <2> SUFFICES ASSUME UNCHANGED <<pc, outcome, original>>, pc \in Workflow \ {"prepare"},
                      vm' = after, done' = done \cup {"restoreScript"}
               PROVE  ResultInv'
    BY <1>2, StepKeepsResult, StepsFact DEF RestoreScript, Operation
  <2> HIDE DEF after
  <2> QED
    BY <2>1 DEF ResultInv, Active, UpgradedIsClean, RolledBackIsOriginal
<1>3. CASE DetachInstallDisk
  <2> DEFINE after == [vm EXCEPT !.install = "detached"]
  <2>1. /\ after.boot = vm.boot /\ after.newDisk = vm.newDisk
        /\ after.script = vm.script /\ after.backup = vm.backup
    BY DEF VM
  <2> SUFFICES ASSUME UNCHANGED <<pc, outcome, original>>, pc \in Workflow \ {"prepare"},
                      vm.install = "attached", vm' = after, done' = done \cup {"detachInstall"}
               PROVE  ResultInv'
    BY <1>3, StepKeepsResult, StepsFact DEF DetachInstallDisk, Operation
  <2> HIDE DEF after
  <2> QED
    BY <2>1 DEF ResultInv, Active, UpgradedIsClean, RolledBackIsOriginal
<1>4. CASE DeleteInstallDisk
  <2> DEFINE after == [vm EXCEPT !.install = "absent"]
  <2>1. /\ after.boot = vm.boot /\ after.newDisk = vm.newDisk /\ after.install = "absent"
        /\ after.script = vm.script /\ after.backup = vm.backup
    BY DEF VM
  <2> SUFFICES ASSUME UNCHANGED <<pc, outcome, original>>, pc \in Workflow \ {"prepare"},
                      vm' = after, done' = done \cup {"deleteInstall"}
               PROVE  ResultInv'
    BY <1>4, StepKeepsResult, StepsFact DEF DeleteInstallDisk, Operation
  <2> HIDE DEF after
  <2> QED
    BY <2>1 DEF ResultInv, Active, UpgradedIsClean, RolledBackIsOriginal
<1>5. CASE DetachNewOSDisk
  <2> DEFINE after == [vm EXCEPT !.boot = "none"]
  <2>1. /\ after.newDisk = vm.newDisk /\ after.install = vm.install
        /\ after.script = vm.script /\ after.backup = vm.backup
    BY DEF VM
  <2> SUFFICES ASSUME UNCHANGED <<pc, outcome, original>>, pc = "rollback",
                      vm.boot = "new", vm' = after, done' = done \cup {"detachNew"}
               PROVE  ResultInv'
    BY <1>5, StepKeepsResult, StepsFact DEF DetachNewOSDisk, Operation
  <2> HIDE DEF after
  <2> QED
    BY <2>1 DEF ResultInv, Active, Workflow, UpgradedIsClean, RolledBackIsOriginal
<1>6. CASE AttachOldOSDisk
  <2> DEFINE after == [vm EXCEPT !.boot = "old"]
  <2>1. /\ after.boot = "old" /\ after.newDisk = vm.newDisk /\ after.install = vm.install
        /\ after.script = vm.script /\ after.backup = vm.backup
    BY DEF VM
  <2> SUFFICES ASSUME UNCHANGED <<pc, outcome, original>>, pc = "rollback",
                      vm' = after, done' = done \cup {"attachOld"}
               PROVE  ResultInv'
    BY <1>6, StepKeepsResult, StepsFact DEF AttachOldOSDisk, Operation
  <2> HIDE DEF after
  <2> QED
    BY <2>1 DEF ResultInv, Active, Workflow, UpgradedIsClean, RolledBackIsOriginal
<1>7. CASE DeleteDisks
  <2> DEFINE noNew     == [vm EXCEPT !.newDisk = FALSE]
             noInstall == [vm EXCEPT !.install = "absent"]
             neither   == [vm EXCEPT !.newDisk = FALSE, !.install = "absent"]
  <2>1. /\ neither.boot = vm.boot /\ ~neither.newDisk /\ neither.install = "absent"
        /\ neither.script = vm.script /\ neither.backup = vm.backup
    BY DEF VM
  <2> SUFFICES ASSUME UNCHANGED <<pc, outcome, original>>, pc = "rollback",
                      vm' = neither, done' = done \cup {"deleteDisks"}
               PROVE  ResultInv'
    BY <1>7, StepKeepsResult, StepsFact, Zenon DEF DeleteDisks
  <2> HIDE DEF neither
  <2> QED
    BY <2>1 DEF ResultInv, Active, Workflow, UpgradedIsClean, RolledBackIsOriginal
<1> QED
  BY <1>1, <1>2, <1>3, <1>4, <1>5, <1>6, <1>7 DEF Restore

\* A workflow whose steps are all done.
LEMMA EndKeepsResult ==
    ASSUME TypeOK, ResultInv, WorkflowEnds
    PROVE  ResultInv'
<1>1. /\ pc \in Workflow /\ Steps(pc) \subseteq done /\ done' = {}
      /\ UNCHANGED <<vm, original>>
  BY DEF WorkflowEnds
<1>2. CASE pc = "prepare"
  <2>1. pc' = "upgrade" /\ outcome' = outcome
    BY <1>2 DEF WorkflowEnds
  <2>2. "attachNew" \in done
    BY <1>1, <1>2 DEF Steps
  <2> QED
    BY <1>1, <1>2, <2>1, <2>2 DEF ResultInv, Active, Workflow, UpgradedIsClean,
        RolledBackIsOriginal
<1>3. CASE pc = "reboot"
  <2>1. pc' = "retry" /\ outcome' = outcome
    BY <1>3 DEF WorkflowEnds
  <2> QED
    BY <1>1, <1>3, <2>1 DEF ResultInv, Active, Workflow, UpgradedIsClean, RolledBackIsOriginal
<1>4. CASE pc \in {"upgrade", "retry"}
  <2>1. pc' = "ended" /\ outcome' = "upgraded"
    BY <1>4 DEF WorkflowEnds
  <2>2. {"restoreScript", "deleteInstall"} \subseteq done
    BY <1>1, <1>4 DEF Steps, CleanupSteps
  <2> QED
    BY <1>1, <1>4, <2>1, <2>2 DEF ResultInv, Active, Workflow, UpgradedIsClean,
        RolledBackIsOriginal
<1>5. CASE pc = "rollback"
  <2>1. pc' = "ended" /\ outcome' = "rolledBack"
    BY <1>5 DEF WorkflowEnds
  <2>2. {"restoreScript", "attachOld", "deleteDisks"} \subseteq done
    BY <1>1, <1>5 DEF Steps
  <2> QED
    BY <1>1, <1>5, <2>1, <2>2 DEF ResultInv, Active, Workflow, UpgradedIsClean,
        RolledBackIsOriginal
<1>6. CASE pc = "cleanup"
  <2>1. pc' = "ended" /\ outcome' = "cleanedUp"
    BY <1>6 DEF WorkflowEnds
  <2> QED
    BY <2>1 DEF ResultInv, Active, Workflow, UpgradedIsClean, RolledBackIsOriginal
<1> QED
  BY <1>1, <1>2, <1>3, <1>4, <1>5, <1>6 DEF Workflow

\* The user, and the end of a failed workflow.
LEMMA UserKeepsResult ==
    ASSUME TypeOK, ResultInv, HandleResult \/ User
    PROVE  ResultInv'
<1> USE DEF ResultInv, Active, Workflow, UpgradedIsClean, RolledBackIsOriginal
<1>1. CASE HandleResult
  <2>1. /\ pc = "handle" /\ pc' \in {"rollback", "cleanup"} /\ done' = {}
        /\ UNCHANGED <<vm, original, outcome>>
    BY <1>1 DEF HandleResult
  <2> QED
    BY <2>1
<1>2. CASE StartRun
  <2>1. \/ pc' = "prepare" /\ done' = {} /\ outcome' = "none"
        \/ pc = "ended" /\ outcome' = "refused" /\ UNCHANGED <<pc, done, original, vm>>
    BY <1>2 DEF StartRun
  <2> QED
    BY <2>1
<1>3. CASE Kill
  <2>1. pc' = "ended" /\ outcome' = "killed"
    BY <1>3 DEF Kill
  <2> QED
    BY <2>1
<1>4. CASE UserStarts
  <2>1. parts([vm EXCEPT !.running = TRUE]) = parts(vm)
    BY DEF TypeOK, VM, parts
  <2>2. pc = "ended" /\ UNCHANGED <<pc, done, original, outcome>> /\ parts(vm)' = parts(vm)
    BY <1>4, <2>1 DEF UserStarts, parts
  <2> QED
    BY <2>2 DEF parts
<1>5. CASE UserReattaches
  <2>1. /\ pc = "ended" /\ UNCHANGED <<pc, done, original, outcome>>
        /\ vm.boot # "old" /\ outcome # "upgraded"
    BY <1>5 DEF UserReattaches
  <2> QED
    BY <2>1
<1> QED
  BY <1>1, <1>2, <1>3, <1>4, <1>5 DEF User

\* Every step leaves what the run needs to report its end truly.
THEOREM ResultInvariant == Spec => []ResultInv
<1>1. Init => ResultInv
  BY DEF Init, ResultInv, Active, Workflow, UpgradedIsClean, RolledBackIsOriginal
<1>2. TypeOK /\ ResultInv /\ [Next]_vars => ResultInv'
  <2> SUFFICES ASSUME TypeOK, ResultInv, [Next]_vars PROVE ResultInv'
    OBVIOUS
  <2>1. CASE UNCHANGED vars
    BY <2>1 DEF vars, ResultInv, UpgradedIsClean, RolledBackIsOriginal
  <2> QED
    BY <2>1, PrepareKeepsResult, UpgradeKeepsResult, RestoreKeepsResult, EndKeepsResult,
       UserKeepsResult DEF Next, ToolStep, Terminating
<1> QED
  BY <1>1, <1>2, TypeCorrect, PTL DEF Spec

\* A run reports success only if the instance boots from the new disk, and nothing
\* of the tool is left on it: whatever failed, was killed or was rebooted before.
THEOREM SuccessIsClean == Spec => []UpgradedIsClean
<1>1. ResultInv => UpgradedIsClean
  BY DEF ResultInv
<1> QED
  BY <1>1, ResultInvariant, PTL

\* A run reports a rollback only if the disks and the script are again what the run
\* found.
THEOREM RollbackIsComplete == Spec => []RolledBackIsOriginal
<1>1. ResultInv => RolledBackIsOriginal
  BY DEF ResultInv
<1> QED
  BY <1>1, ResultInvariant, PTL
=============================================================================
