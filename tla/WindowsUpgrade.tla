--------------------------- MODULE WindowsUpgrade ---------------------------
(***************************************************************************)
(* The in-place upgrade of a Windows instance: gce_windows_upgrade.        *)
(*                                                                         *)
(* A run validates the instance, then runs Daisy workflows one at a time:  *)
(* prepare, upgrade, reboot and retry if the guest asks for it, and after a *)
(* failure rollback or cleanup.  The steps of a workflow run as soon as     *)
(* their dependencies are done, and the first to fail ends the workflow.    *)
(* The tool may be killed at any time and run again, and the state of the   *)
(* instance is all that a run leaves to the next.                          *)
(*                                                                         *)
(* Compute Engine and Daisy are external: a step changes the instance and  *)
(* succeeds, or fails with or without having changed it.                   *)
(***************************************************************************)
EXTENDS Integers

CONSTANTS
    Customers,  \* windows-startup-script-url before the first run
    ByHand,     \* whether the user reattaches the original disk
    MaxRuns,    \* bound on the runs of the tool
    MaxFaults   \* bound on failed operations and kills, over all runs

Script == {"none", "customer", "tool"}

ASSUME BoundsAssumption ==
    /\ Customers \subseteq {"none", "customer"}
    /\ ByHand \in BOOLEAN
    /\ MaxRuns \in Nat /\ MaxFaults \in Nat

VARIABLES
    pc,        \* the workflow that runs, or what the tool does between them
    done,      \* steps of the last workflow that are done
    vm,        \* the instance and the resources of the last run
    original,  \* originalWindowsStartupScriptURL
    flags,     \* -auto-rollback, -create-machine-backup, and whether 2008r2
    outcome,   \* how the last run ended
    customer,  \* the customer's startup script
    runs,      \* runs started
    faults     \* operations that failed by themselves, and kills

vars == <<pc, done, vm, original, flags, outcome, customer, runs, faults>>

Flags == [rollback: BOOLEAN, machineImage: BOOLEAN, reboot: BOOLEAN]

Workflow == {"prepare", "upgrade", "reboot", "retry", "cleanup", "rollback"}
Active == Workflow \cup {"handle"}

Init ==
    /\ pc = "ended" /\ done = {} /\ outcome = "none"
    /\ customer \in Customers
    /\ vm \in [running: BOOLEAN, boot: {"old"}, newDisk: {FALSE},
               install: {"absent"}, snapshot: {"none"},
               script: {customer}, backup: {"none"}]
    /\ original = "none"
    /\ flags = [rollback |-> FALSE, machineImage |-> FALSE, reboot |-> FALSE]
    /\ runs = 0 /\ faults = 0

(***************************************************************************)
(* The workflows: their steps and what each of them waits for.             *)
(***************************************************************************)

CleanupSteps == {"restoreScript", "detachInstall", "deleteInstall", "stop"}

Steps(wf) ==
    CASE wf = "prepare" ->
            {"stop", "snapshot", "createNew", "detachOld", "attachNew",
             "createInstall", "attachInstall", "setScript"}
            \cup (IF flags.machineImage THEN {"machineImage"} ELSE {})
            \cup (IF original # "none" THEN {"backupScript"} ELSE {})
      [] wf = "upgrade" -> {"start", "waitBoot", "waitUpgrade"} \cup CleanupSteps
      [] wf = "retry" -> {"waitBoot", "waitUpgrade"} \cup CleanupSteps
      [] wf = "reboot" -> {"stop", "start"}
      [] wf = "cleanup" -> CleanupSteps
      [] wf = "rollback" ->
            {"stop", "detachNew", "attachOld", "detachInstall", "restoreScript",
             "deleteDisks"}

\* populatePrepareSteps: a chain.
PrepareNeeds(s) ==
    CASE s = "stop"          -> {}
      [] s = "machineImage"  -> {"stop"}
      [] s = "snapshot"      -> {IF flags.machineImage THEN "machineImage" ELSE "stop"}
      [] s = "createNew"     -> {"snapshot"}
      [] s = "detachOld"     -> {"createNew"}
      [] s = "attachNew"     -> {"detachOld"}
      [] s = "createInstall" -> {"attachNew"}
      [] s = "attachInstall" -> {"createInstall"}
      [] s = "backupScript"  -> {"attachInstall"}
      [] s = "setScript"     -> {IF original # "none" THEN "backupScript"
                                                      ELSE "attachInstall"}

\* populateCleanupSteps: only the deletion of the install disk waits.
CleanupNeeds(s) == IF s = "deleteInstall" THEN {"detachInstall"} ELSE {}

\* populateUpgradeSteps: the cleanup is part of the workflow.
UpgradeNeeds(s) ==
    CASE s = "start" -> {}
      [] s \in {"waitBoot", "waitUpgrade"} -> {"start"}
      [] OTHER -> CleanupNeeds(s) \cup {"waitUpgrade"}

\* populateRetryUpgradeSteps
RetryNeeds(s) ==
    IF s \in {"waitBoot", "waitUpgrade"} THEN {}
    ELSE CleanupNeeds(s) \cup {"waitUpgrade"}

\* populateRollbackSteps: a chain.
RollbackNeeds(s) ==
    CASE s = "stop"          -> {}
      [] s = "detachNew"     -> {"stop"}
      [] s = "attachOld"     -> {"detachNew"}
      [] s = "detachInstall" -> {"attachOld"}
      [] s = "restoreScript" -> {"detachInstall"}
      [] s = "deleteDisks"   -> {"restoreScript"}

Needs(s) ==
    CASE pc = "prepare"  -> PrepareNeeds(s)
      [] pc = "upgrade"  -> UpgradeNeeds(s)
      [] pc = "retry"    -> RetryNeeds(s)
      [] pc = "reboot"   -> IF s = "start" THEN {"stop"} ELSE {}
      [] pc = "cleanup"  -> CleanupNeeds(s)
      [] pc = "rollback" -> RollbackNeeds(s)

(***************************************************************************)
(* A run begins: validateAndDeriveParams.                                  *)
(***************************************************************************)

\* Mutant: a script kept in the backup key by an earlier run is ignored.
OriginalIgnoresBackup == vm.script

\* validateAndDeriveInstance: the backup, if there is one, else the script.
OriginalScript == IF vm.backup # "none" THEN vm.backup ELSE vm.script

\* A boot disk with the license of the target OS is refused, and so is an
\* instance without a boot disk.  The disks and the snapshot get new names.
StartRun ==
    /\ pc = "ended" /\ runs < MaxRuns
    /\ runs' = runs + 1
    /\ \/ /\ vm.boot = "old"
          /\ pc' = "prepare" /\ done' = {} /\ outcome' = "none"
          /\ original' = OriginalScript
          /\ flags' \in Flags
          /\ vm' = [vm EXCEPT !.newDisk = FALSE, !.install = "absent",
                              !.snapshot = "none"]
       \/ /\ vm.boot # "old"
          /\ outcome' = "refused"
          /\ UNCHANGED <<pc, done, original, flags, vm>>
    /\ UNCHANGED <<customer, faults>>

(***************************************************************************)
(* The steps.                                                              *)
(***************************************************************************)

\* Mutant: the error of the rollback is not looked at.
AfterFailureUnseen ==
    CASE pc = "rollback" -> pc' = "ended" /\ outcome' = "rolledBack"
      [] pc = "cleanup"  -> pc' = "ended" /\ outcome' = "cleanupFailed"
      [] OTHER           -> pc' = "handle" /\ UNCHANGED outcome

\* The end of a workflow that failed, for any reason but a needed reboot.
AfterFailure ==
    CASE pc = "rollback" -> pc' = "ended" /\ outcome' = "rollbackFailed"
      [] pc = "cleanup"  -> pc' = "ended" /\ outcome' = "cleanupFailed"
      [] OTHER           -> pc' = "handle" /\ UNCHANGED outcome

\* The next step is ready: it needs `possible' to succeed and leaves `after'.
\* When it fails it leaves one of `left'.
RunStep(s, possible, after, left) ==
    /\ pc \in Workflow /\ s \in Steps(pc) \ done /\ Needs(s) \subseteq done
    /\ \/ /\ possible
          /\ vm' = after
          /\ done' = done \cup {s}
          /\ UNCHANGED <<pc, outcome, faults>>
       \/ /\ IF possible THEN faults < MaxFaults /\ faults' = faults + 1
                         ELSE UNCHANGED faults
          /\ vm' \in IF possible THEN left ELSE {vm}
          /\ AfterFailure
          /\ UNCHANGED done
    /\ UNCHANGED <<original, flags, customer, runs>>

\* A step that succeeds or fails as a whole, whatever it reports.
Operation(s, possible, after) == RunStep(s, possible, after, {vm, after})

\* Mutant: the stop is not waited for.
StopLater == Operation("stop", TRUE, vm)

StopInstance  == Operation("stop", TRUE, [vm EXCEPT !.running = FALSE])
StartInstance == Operation("start", vm.boot # "none", [vm EXCEPT !.running = TRUE])
CreateMachineImage == Operation("machineImage", TRUE, vm)
CreateSnapshot ==
    Operation("snapshot", TRUE,
        [vm EXCEPT !.snapshot = IF vm.running THEN "inconsistent" ELSE "consistent"])
CreateNewOSDisk ==
    Operation("createNew", ~vm.newDisk, [vm EXCEPT !.newDisk = TRUE])
DetachOldOSDisk ==
    Operation("detachOld", vm.boot = "old", [vm EXCEPT !.boot = "none"])
AttachNewOSDisk ==
    Operation("attachNew", vm.boot = "none" /\ vm.newDisk, [vm EXCEPT !.boot = "new"])
CreateInstallDisk ==
    Operation("createInstall", vm.install = "absent", [vm EXCEPT !.install = "detached"])
AttachInstallDisk ==
    Operation("attachInstall", vm.install = "detached", [vm EXCEPT !.install = "attached"])
BackupScript ==
    Operation("backupScript", TRUE, [vm EXCEPT !.backup = original])
SetScript ==
    Operation("setScript", TRUE, [vm EXCEPT !.script = "tool"])

\* The guest reports that the startup script begins.
WaitForBoot == Operation("waitBoot", TRUE, vm)

\* The guest reports the new version, or that it failed.
WaitForUpgrade ==
    Operation("waitUpgrade",
        vm.running /\ vm.boot = "new" /\ vm.install = "attached" /\ vm.script = "tool",
        vm)

\* Mutant: a retry that asks for a reboot is rebooted again.
RebootAgain ==
    /\ pc \in {"upgrade", "retry"} /\ flags.reboot
    /\ "waitUpgrade" \in Steps(pc) \ done /\ Needs("waitUpgrade") \subseteq done
    /\ pc' = "reboot" /\ done' = {}
    /\ UNCHANGED <<outcome, vm, original, flags, customer, runs, faults>>

\* "Windows needs to be restarted", which is looked for on 2008r2 only: the
\* first time the instance is rebooted, the second time it is a failure.
NeedsReboot ==
    /\ pc \in {"upgrade", "retry"} /\ flags.reboot
    /\ "waitUpgrade" \in Steps(pc) \ done /\ Needs("waitUpgrade") \subseteq done
    /\ IF pc = "upgrade" THEN pc' = "reboot" /\ done' = {}
                         ELSE pc' = "handle" /\ UNCHANGED done
    /\ UNCHANGED <<outcome, vm, original, flags, customer, runs, faults>>

\* Mutants: the script is left; an absent script is restored as a nil pointer.
RestoreNil ==
    Operation("restoreScript", TRUE,
        [vm EXCEPT !.script = IF original = "none" THEN "nil" ELSE original,
                   !.backup = "none"])
RestoreNothing == Operation("restoreScript", TRUE, [vm EXCEPT !.backup = "none"])

\* One update of the metadata sets the script and clears the backup.
RestoreScript ==
    Operation("restoreScript", TRUE,
        [vm EXCEPT !.script = original, !.backup = "none"])
DetachInstallDisk ==
    Operation("detachInstall", vm.install = "attached",
        [vm EXCEPT !.install = "detached"])
DeleteInstallDisk ==
    Operation("deleteInstall", vm.install = "detached",
        [vm EXCEPT !.install = "absent"])
DetachNewOSDisk ==
    Operation("detachNew", vm.boot = "new", [vm EXCEPT !.boot = "none"])
AttachOldOSDisk ==
    Operation("attachOld", vm.boot = "none", [vm EXCEPT !.boot = "old"])

\* The two disks are deleted independently.
DeleteDisks ==
    LET noNew     == [vm EXCEPT !.newDisk = FALSE]
        noInstall == [vm EXCEPT !.install = "absent"]
        neither   == [vm EXCEPT !.newDisk = FALSE, !.install = "absent"]
    IN  RunStep("deleteDisks",
            vm.newDisk /\ vm.boot # "new" /\ vm.install = "detached",
            neither, {vm, noNew, noInstall, neither})

(***************************************************************************)
(* Between the workflows: runUpgradeWorkflow and handleResult.             *)
(***************************************************************************)

\* All steps of a workflow are done.
WorkflowEnds ==
    /\ pc \in Workflow /\ Steps(pc) \subseteq done
    /\ pc' = CASE pc = "prepare" -> "upgrade"
               [] pc = "reboot"  -> "retry"
               [] OTHER          -> "ended"
    /\ outcome' = CASE pc \in {"upgrade", "retry"} -> "upgraded"
                    [] pc = "rollback"             -> "rolledBack"
                    [] pc = "cleanup"              -> "cleanedUp"
                    [] OTHER                       -> outcome
    /\ done' = {}
    /\ UNCHANGED <<vm, original, flags, customer, runs, faults>>

\* isNewOSDiskAttached asks for the instance; an error of it counts as no.
HandleResult ==
    /\ pc = "handle"
    /\ \/ /\ pc' = IF flags.rollback /\ vm.boot = "new" THEN "rollback" ELSE "cleanup"
          /\ UNCHANGED faults
       \/ /\ faults < MaxFaults
          /\ faults' = faults + 1
          /\ pc' = "cleanup"
    /\ done' = {}
    /\ UNCHANGED <<vm, original, flags, outcome, customer, runs>>

(***************************************************************************)
(* The user.                                                               *)
(***************************************************************************)

\* The tool is killed.
Kill ==
    /\ pc \in Active /\ faults < MaxFaults
    /\ faults' = faults + 1
    /\ pc' = "ended" /\ outcome' = "killed"
    /\ UNCHANGED <<done, vm, original, flags, customer, runs>>

\* The instance is used between the runs.
UserStarts ==
    /\ pc = "ended" /\ vm.boot # "none" /\ ~vm.running
    /\ vm' = [vm EXCEPT !.running = TRUE]
    /\ UNCHANGED <<pc, done, original, flags, outcome, customer, runs, faults>>

\* The original disk is attached again by hand after a run that failed.
UserReattaches ==
    /\ ByHand /\ pc = "ended" /\ vm.boot # "old" /\ outcome # "upgraded"
    /\ vm' = [vm EXCEPT !.boot = "old", !.running = FALSE]
    /\ UNCHANGED <<pc, done, original, flags, outcome, customer, runs, faults>>

(***************************************************************************)

Prepare ==
    \/ CreateMachineImage \/ CreateSnapshot \/ CreateNewOSDisk \/ DetachOldOSDisk
    \/ AttachNewOSDisk \/ CreateInstallDisk \/ AttachInstallDisk
    \/ BackupScript \/ SetScript

Upgrade == StartInstance \/ WaitForBoot \/ WaitForUpgrade \/ NeedsReboot

Restore ==
    \/ StopInstance \/ RestoreScript \/ DetachInstallDisk \/ DeleteInstallDisk
    \/ DetachNewOSDisk \/ AttachOldOSDisk \/ DeleteDisks

ToolStep == Prepare \/ Upgrade \/ Restore \/ WorkflowEnds \/ HandleResult

User == StartRun \/ Kill \/ UserStarts \/ UserReattaches

\* The tool is not run any more.
Terminating == pc = "ended" /\ runs = MaxRuns /\ UNCHANGED vars

Next == ToolStep \/ User \/ Terminating

Spec == Init /\ [][Next]_vars

\* Daisy gives every step a timeout: it ends, and the tool goes on.
FairSpec == Spec /\ WF_vars(ToolStep)

(***************************************************************************)
(* Properties.                                                             *)
(***************************************************************************)

Outcome == {"none", "refused", "upgraded", "rolledBack", "rollbackFailed",
            "cleanedUp", "cleanupFailed", "killed"}

AnyStep ==
    {"stop", "snapshot", "createNew", "detachOld", "attachNew", "createInstall",
     "attachInstall", "setScript", "machineImage", "backupScript", "start",
     "waitBoot", "waitUpgrade", "restoreScript", "detachInstall", "deleteInstall",
     "detachNew", "attachOld", "deleteDisks"}

VM == [running: BOOLEAN, boot: {"old", "new", "none"}, newDisk: BOOLEAN,
       install: {"absent", "detached", "attached"},
       snapshot: {"none", "consistent", "inconsistent"},
       script: Script, backup: Script]

\* Types of the variables.
TypeOK ==
    /\ pc \in Active \cup {"ended"}
    /\ done \subseteq AnyStep
    /\ vm \in VM
    /\ original \in Script
    /\ flags \in Flags
    /\ outcome \in Outcome
    /\ customer \in Customers
    /\ runs \in 0..MaxRuns /\ faults \in 0..MaxFaults

\* The customer's startup script is never lost: whatever fails, wherever the
\* tool is killed and however often it runs again, the script is in one of the
\* two metadata keys.
ScriptKept ==
    customer # "none" => customer \in {vm.script, vm.backup}

\* The snapshot, the last resort of a manual rollback, is taken of a stopped
\* instance.
SnapshotConsistent == vm.snapshot # "inconsistent"

\* A run that reports success left the new disk attached, and nothing else of
\* its own: no install disk, no script, no backup.
UpgradedIsClean ==
    outcome = "upgraded" =>
        /\ vm.boot = "new" /\ vm.newDisk
        /\ vm.install = "absent"
        /\ vm.script = original /\ vm.backup = "none"

\* A run that reports a complete rollback left the disks and the metadata of the
\* instance as it found them.
RolledBackIsOriginal ==
    outcome = "rolledBack" =>
        /\ vm.boot = "old" /\ ~vm.newDisk
        /\ vm.install = "absent"
        /\ vm.script = original /\ vm.backup = "none"

\* Every run ends, by itself or killed.
RunEnds == pc = "prepare" ~> pc = "ended"

\* -auto-rollback: "the instance and its resources are restored to their
\* original state", here for the boot disk and when a single operation failed.
AutoRollbackRestores ==
    outcome \in {"rollbackFailed", "cleanedUp", "cleanupFailed"} /\ flags.rollback
        => vm.boot = "old"

(***************************************************************************)
(* Inductive invariants.                                                   *)
(***************************************************************************)

\* A run knows the customer's script from its beginning, and does not replace
\* it before the backup is made.
ScriptInv ==
    customer # "none" =>
        /\ vm.backup \in {"none", customer}
        /\ customer \in {vm.script, vm.backup}
        /\ pc \in Active => original = customer
        /\ pc = "prepare" /\ "backupScript" \in done => vm.backup = customer

\* Every step of the preparation comes after the stop.
SnapshotInv ==
    /\ vm.snapshot # "inconsistent"
    /\ pc = "prepare" /\ done # {} => "stop" \in done /\ ~vm.running

\* The steps that are done have had their effect, the new disk boots from the
\* preparation on, and a run that goes on has reported nothing.
ResultInv ==
    /\ pc \in Active => outcome = "none"
    /\ \/ pc \in {"upgrade", "reboot", "retry"}
       \/ pc = "prepare" /\ "attachNew" \in done
       => vm.boot = "new" /\ vm.newDisk
    /\ pc \in {"upgrade", "retry", "rollback"} =>
        /\ "restoreScript" \in done => vm.script = original /\ vm.backup = "none"
        /\ "deleteInstall" \in done => vm.install = "absent"
        /\ "attachOld" \in done => vm.boot = "old"
        /\ "deleteDisks" \in done => ~vm.newDisk /\ vm.install = "absent"
    /\ UpgradedIsClean /\ RolledBackIsOriginal
=============================================================================
