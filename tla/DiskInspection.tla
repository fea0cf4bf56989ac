---------------------------- MODULE DiskInspection ----------------------------
(***************************************************************************)
(* The inspection of a disk before it is imported: bootInspector of        *)
(* cli_tools/common/disk runs a workflow with a DaisyWorker, here with the *)
(* workflow that each attempt prepares, and interprets what the inspecting *)
(* instance wrote to its serial port.                                      *)
(***************************************************************************)
EXTENDS DaisyWorker, WorkflowHooks, Distro

CONSTANTS
    Cases,      \* the workflow as its file has it, and what the user asked for
    Responses,  \* what the instance may write
    Early       \* what it may have written when its workflow fails

\* No workflow declares two vars for one value of the environment; a resource
\* stands for all of its kind.
ASSUME CasesAssumption ==
    \A c \in Cases :
        /\ c = [file |-> c.file, env |-> c.env]
        /\ \A v \in {NetworkVars, SubnetVars, AccountVars} :
            \A j, k \in DOMAIN c.file.vars \cap v : j = k
        /\ IsWorkflow(c.file)

ASSUME EarlyAssumption == Early \subseteq Responses

Missing == -3  \* a major version that is not there

NoOS == [distroId |-> "none"]
NoResults == [osCount |-> 0, errorWhen |-> "NO_ERROR", os |-> NoOS, cli |-> <<>>]

\* Where the worker may have stopped.
WorkerErrors == {"NO_ERROR", "MOUNTING_GUEST", "INSPECTING_OS", "INSPECTING_BOOTLOADER"}

\* What the worker may find; the year of a release of Ubuntu has two digits.
ASSUME ResponsesAssumption ==
    \A m \in Responses :
        /\ m \in [osCount : Nat, errorWhen : WorkerErrors, cli : {<<>>},
                  os : {NoOS} \cup [distroId : STRING, major : Int, minor : Int,
                                   architecture : STRING, formatted : BOOLEAN]]
        /\ m.os # NoOS /\ m.os.distroId = "ubuntu" => m.os.major < 100

VARIABLES
    file, env,
    given,      \* vars, shared by the attempts
    workflow,   \* the workflow of each attempt
    serial,     \* the value of inspect_pb in the serial output of each attempt
    inspection, \* running, returned or failed
    results,
    metric      \* what has been logged

inputs == <<file, env>>
inspectVars == <<inputs, given, workflow, serial, inspection, results, metric>>

\* The value that was written: empty, not a message, or a message.
Nothing == [written |-> "nothing", results |-> NoResults]
Garbage == [written |-> "garbage", results |-> NoResults]
Message(m) == [written |-> "message", results |-> m]

InspectInit ==
    /\ Init
    /\ \E c \in Cases : file = c.file /\ env = c.env
    /\ given = [v \in {"pd_uri"} |-> "disk"]
    /\ workflow = [a \in Attempt |-> file]
    /\ serial = [a \in Attempt |-> Nothing]
    /\ inspection = "running" /\ results = NoResults /\ metric = <<>>

(***************************************************************************)
(* The worker.                                                             *)
(***************************************************************************)

\* daisy.NewFromFile reads the file again.
ProvideWorkflow ==
    /\ Provide
    /\ workflow' = [workflow EXCEPT ![attempt] = file]
    /\ UNCHANGED <<inputs, given, serial, inspection, results, metric>>

\* runOnce before it runs the workflow: only the vars may be wrong.
Prepare ==
    /\ PreRunHooks
    /\ given' \in Backfilled(env, given, workflow[attempt])
    /\ pc' = "start" <=> VarsKnown(given', workflow[attempt])
    /\ workflow' = [workflow EXCEPT ![attempt] =
                        IF pc' = "done" THEN @ ELSE Hooked(env, fallback, ApplyVars(given', @))]
    /\ UNCHANGED <<inputs, serial, inspection, results, metric>>

\* The workflow ends: the instance has written its findings, or nothing yet.
Written(responses) ==
    /\ \E s \in responses : serial' = [serial EXCEPT ![attempt] = s]
    /\ UNCHANGED <<inputs, given, workflow, inspection, results, metric>>

InspectorSucceeds ==
    /\ RunSucceeds
    /\ Written({Nothing, Garbage} \cup {Message(m) : m \in Responses})

InspectorFails == RunFails /\ Written({Nothing} \cup {Message(m) : m \in Early})

InspectorCancelled == RunCancelled /\ Written({Nothing})

(***************************************************************************)
(* Inspect, once Run has returned.                                         *)
(***************************************************************************)

\* Mutant: the worker keeps the first workflow.
FinishedFirst == serial[0]

\* GetSerialConsoleOutputValue of finishedWf, the last workflow of Run.
Finished == serial[attempt]

\* assembleErrors
Fail(errorWhen, found) ==
    /\ inspection' = "failed"
    /\ results' = [found EXCEPT !.errorWhen = errorWhen]
    /\ UNCHANGED <<vars, inputs, given, workflow, serial, metric>>

RunningFailed ==
    /\ pc = "done" /\ inspection = "running"
    /\ result # "success"
    /\ Fail("RUNNING_WORKER", NoResults)

DecodingFailed ==
    /\ pc = "done" /\ inspection = "running"
    /\ result = "success" /\ Finished.written = "garbage"
    /\ Fail("DECODING_WORKER_RESPONSE", NoResults)

\* validate: one release when there is one system, with what the worker fills in
\* and nothing of what populate does.
Consistent(found) ==
    IF found.osCount # 1 THEN found.os = NoOS
    ELSE /\ found.os # NoOS
         /\ ~found.os.formatted
         /\ found.os.major # Missing
         /\ found.os.architecture # "unknown"
         /\ found.os.distroId # "unknown"

\* What was found decodes, an empty value to empty results.
Decoded ==
    /\ pc = "done" /\ inspection = "running"
    /\ result = "success" /\ Finished.written # "garbage"

InterpretingFailed ==
    /\ Decoded /\ ~Consistent(Finished.results)
    /\ Fail("INTERPRETING_INSPECTION_RESULTS", Finished.results)

\* The release that was found; NoRelease if it cannot be interpreted.
Release(os) == FromComponents(os.distroId, os.major, os.minor, os.architecture)

\* populate: the flag of the release, unless the worker had an error.
Populate(found) ==
    IF found.errorWhen = "NO_ERROR" /\ found.osCount = 1 /\ Release(found.os) # NoRelease
    THEN [found EXCEPT !.cli = <<AsGcloudArg(Release(found.os))>>]
    ELSE found

Inspected ==
    /\ Decoded /\ Consistent(Finished.results)
    /\ inspection' = "returned"
    /\ results' = Populate(Finished.results)
    /\ metric' = <<results'>>
    /\ UNCHANGED <<vars, inputs, given, workflow, serial>>

(***************************************************************************)

Interpret == RunningFailed \/ DecodingFailed \/ InterpretingFailed \/ Inspected

Prepares == ProvideWorkflow \/ Prepare

Unprepared ==
    /\ \/ CheckIfCancelled \/ StartRun \/ PostRunHooks
       \/ CancelSend \/ CancelClose \/ Interrupt
       \/ \E a \in Attempt : Watch(a)
    /\ UNCHANGED inspectVars

InspectTerminating ==
    /\ inspection # "running" \/ pc = "killed"
    /\ UNCHANGED <<vars, inspectVars>>

InspectNext ==
    \/ Prepares \/ Unprepared \/ Interpret
    \/ InspectorSucceeds \/ InspectorFails \/ InspectorCancelled
    \/ InspectTerminating

\* The fairness of DaisyWorker.
InspectSpec ==
    /\ InspectInit /\ [][InspectNext]_<<vars, inspectVars>>
    /\ WF_<<vars, inspectVars>>(
          \/ Prepares \/ InspectorCancelled \/ Interpret
          \/ (CheckIfCancelled \/ StartRun \/ PostRunHooks) /\ UNCHANGED inspectVars)
    /\ WF_<<vars, inspectVars>>(CancelClose /\ UNCHANGED inspectVars)
    /\ \A a \in Attempt : WF_<<vars, inspectVars>>(Watch(a) /\ UNCHANGED inspectVars)

(***************************************************************************)
(* Properties.                                                             *)
(***************************************************************************)

\* Types of the variables, those of DaisyWorker included.
InspectTypeOK ==
    /\ TypeOK
    /\ [file |-> file, env |-> env] \in Cases
    /\ DOMAIN given \subseteq {"pd_uri"} \cup NetworkVars \cup SubnetVars \cup AccountVars
    /\ \A a \in Attempt :
        /\ DOMAIN workflow[a] = DOMAIN file
        /\ DOMAIN workflow[a].vars = DOMAIN file.vars
        /\ DOMAIN workflow[a].resources = DOMAIN file.resources
        /\ serial[a] \in {Nothing, Garbage} \cup {Message(m) : m \in Responses}
    /\ inspection \in {"running", "returned", "failed"}
    /\ results.errorWhen \in WorkerErrors \cup
            {"RUNNING_WORKER", "DECODING_WORKER_RESPONSE", "INTERPRETING_INSPECTION_RESULTS"}
    /\ Len(results.cli) < 2 /\ Len(metric) < 2

\* A workflow without the types of its disks.
ButDisks(wf) ==
    WithResources(wf, [k \in Kinds |-> [wf.resources[k] EXCEPT !.diskType = "any"]])

\* The workflow of the second attempt is that of the first but for its disks:
\* hooks and vars that are applied again to a new workflow, with vars that the
\* first attempt has changed, give the same.  Its disks are standard, those of
\* beta instances excepted, and those of the first attempt as in the file.
AttemptsAlike ==
    attempt = 1 /\ pc \in {"start", "run", "post"} =>
        /\ ButDisks(workflow[1]) = ButDisks(workflow[0])
        /\ \A k \in DOMAIN file.resources :
            /\ workflow[0].resources[k].diskType = file.resources[k].diskType
            /\ k \in {"disk", "instance"} =>
                workflow[1].resources[k].diskType = "pd-standard"

\* Read again, a flag is the release it was printed from; a server is x64 whatever
\* was found.
ReadsBack(flag, release) ==
    LET read == FromGcloudOSArgument(flag) IN
    /\ ImportCompatible([read EXCEPT !.arch = IF Server(read) THEN release.arch ELSE @],
                        release)
    /\ AsGcloudArg(read) = flag

\* An inspection without an error comes from a workflow that succeeded, and is
\* what that workflow found, not what an earlier attempt did; it is logged, and a
\* single system has a flag that the tool itself reads as that system (Ubuntu
\* before 10.04 has none).
InspectionSound ==
    /\ inspection = "returned" =>
        /\ result = "success"
        /\ [results EXCEPT !.cli = <<>>] = serial[attempt].results
        /\ metric = <<results>>
        /\ results.osCount # 1 => results.os = NoOS
        /\ results.cli # <<>> =>
            /\ results.errorWhen = "NO_ERROR"
            /\ \/ results.os.distroId = "ubuntu" /\ results.os.major < 10
               \/ ReadsBack(results.cli[1], Release(results.os))
    /\ inspection = "failed" => results.errorWhen # "NO_ERROR" /\ metric = <<>>

(***************************************************************************)
(* Inductive invariants.                                                   *)
(***************************************************************************)

\* What the instance may have written.
Writable == {Nothing, Garbage} \cup {Message(m) : m \in Responses}

\* The inspection ends after its worker, once.
FoundInv ==
    /\ serial \in [Attempt -> Writable]
    /\ inspection \in {"running", "returned", "failed"}
    /\ inspection = "running" => results = NoResults /\ metric = <<>>
    /\ inspection # "running" => pc \in {"done", "killed"}
    /\ results.errorWhen \in WorkerErrors \cup
            {"RUNNING_WORKER", "DECODING_WORKER_RESPONSE", "INTERPRETING_INSPECTION_RESULTS"}
    /\ Len(results.cli) < 2 /\ Len(metric) < 2
    /\ InspectionSound

\* Nothing is left to backfill from a value of the environment.
Settled(vars1, pattern, val) ==
    \A k \in DOMAIN file.vars \cap pattern :
        k \in DOMAIN vars1 /\ (vars1[k] # "" \/ vars1[k] = val)

AllSettled(vars1) ==
    /\ env.subnet # "" => Settled(vars1, SubnetVars, env.subnet)
    /\ env.network # "" \/ env.subnet # "" => Settled(vars1, NetworkVars, env.network)
    /\ env.account # "" => Settled(vars1, AccountVars, env.account)

\* An attempt has its workflow: the file with the vars that no attempt changes any
\* more, and the hooks of the attempt.
Prepared(a) ==
    /\ AllSettled(given) /\ VarsKnown(given, file)
    /\ workflow[a] = Hooked(env, a = 1, ApplyVars(given, file))

\* The second attempt would change the vars to what the first one has left.
WorkflowInv ==
    /\ [file |-> file, env |-> env] \in Cases
    /\ given = [k \in DOMAIN given |-> given[k]]
    /\ DOMAIN given \subseteq {"pd_uri"} \cup NetworkVars \cup SubnetVars \cup AccountVars
    /\ DOMAIN workflow = Attempt
    /\ \A a \in Attempt : workflow[a] = file \/ Prepared(a)
    /\ attempt = 0 => workflow[1] = file
    /\ attempt = 0 /\ pc \in {"provide", "check", "prepare"} => workflow[0] = file
    /\ pc \in {"check", "prepare"} => workflow[attempt] = file
    /\ attempt = 1 => Prepared(0)
    /\ pc \in {"start", "run", "post"} => Prepared(attempt)
=============================================================================
