# A verification of compute-image-tools

TLA+ models of the programs of this repository that keep state while several
things happen: the TLC runs that check them on small instances, and theorems
about them that TLAPS proves for all values of their constants. `PROJECT.json`
lists the parts of the system, the runs, the source lines each definition
stands for, the hazards, the disagreements found between code and comments, and
the theorems.

    tlc -config MCBufferedWriterTwoWorkers.cfg MCBufferedWriter     # one run
    tlapm BufferedWriterProofs.tla                              # one set of proofs

## The system

The repository holds command line tools around Compute Engine images and the Go
packages they share. Each tool is a short-lived process with goroutines; what
outlives it is in Compute Engine and Cloud Storage. Most tools do their work by
building a Daisy workflow (a graph of steps) and running it; the Daisy engine is
a library outside this repository.

| Component | State it keeps | Operations | What makes it hard |
|---|---|---|---|
| Multipart upload (`cli_tools/common/utils/storage/buffered_writer.go`, used by `gce_export`) | open chunk file, byte count, channel to the workers, names of uploaded objects | `Write`, `Close`, `uploadWorker` | concurrent workers, retries, an unbuffered channel, deletion of the only copy |
| Daisy worker (`cli_tools/common/utils/daisyutils`) | cancel channel, retry flag, hooks | `Run`, `Cancel`, Ctrl-C | cancellation racing a retry, goroutines that outlive an attempt |
| Windows upgrade (`gce_windows_upgrade`) | the instance: disks, startup script and its backup | prepare, upgrade, reboot, retry, cleanup, rollback | failures at any step, a kill between any two, runs after a failed run |
| Usage logging (`cli_tools/common/utils/logging/service`) | shared parameters, a mutex, a wait asked for by the server | start log, final log, retries | two goroutines, unsynchronized reads, a server that answers anything |
| Image publishing (`gce_image_publish/publish`) | the images of a family and their deprecation | publish, roll back | a list that is stale when used, failed workflows, long sequences of legal calls |
| `main` of `gce_image_publish` | templates, publish determination, rollout policy, workflows; channel of errors, wait group | load, determine, create and run all workflows, Ctrl-C | templates that fail half-way, the order of a Go map, a bounded channel that nobody receives from until the end |
| Tool logger (`cli_tools/common/utils/logging`) | three buffers and a mutex | `User`, `Debug`, `Trace`, `Metric`, `ReadOutputInfo` | several goroutines log while the buffers are copied and emptied |
| Parameters of import and export (`cli_tools/common/utils/param`, `storage`, `paramhelper`) | what has been completed so far; the project's shared scratch buckets | project, bucket, location, zone, region, network | every request may fail and is survived; tools that share a bucket; zones found by way of a bucket |
| Disk inspection with the hooks of the worker and the table of distributions (`cli_tools/common/disk`, `daisyutils/workflow_hook_*.go`, `cli_tools/common/distro`) | vars shared by the attempts, serial output, results | `Inspect`, the hooks, releases and flags | hooks applied again in a retry; a result read from the last of two workflows |
| Diagnostics (`cli_tools/diagnostics`) | collected files, errors, the zip | nine gatherers, zip, deliver, clean up | goroutines that send errors and folders on two channels; the only copy of the logs is deleted at the end |
| GCS objects and tar extraction, resource deleter, resource cleaner, flags and validation, metadata, image file parsers, guest scripts, JSON workflows, mocks, client wrappers | none, or not in Go | | not modelled, below |

How they interact: `gce_windows_upgrade` runs each of its workflows through
`daisyutils.RunWorkflowWithCancelSignal` (the goroutine that `DaisyWorker`
models) and wraps the whole run into `service.RunWithServerLogging`
(`ServerLogger`). `gce_image_publish` has its own copy of the Ctrl-C goroutine
(`PublishMain`), reached after the templates have been loaded and the workflows
created (`PublishTool`), and runs the workflows that `publish` plans
(`ImagePublish`). `gce_export` writes a gzip stream to a `BufferedWriter`. The
disk inspection (`DiskInspection`) runs its workflow, with the hooks
(`WorkflowHooks`), in a `DaisyWorker`, and interprets what it finds with the
table of distributions (`Distro`). The tools log into one tool logger from all
their goroutines (`ToolLogger`) inside `RunWithServerLogging`. An import first
completes its parameters (`ImportParameters`).

What makes each correct, in short: an upload that reports success left exactly
the content; Run of a worker ends when it is cancelled and retries once;
whatever happens to an upgrade, the customer's startup script can be restored;
the last log of a tool is complete and does not keep the tool from ending; an
image family always resolves to an image, and to the newest published one; main
does not report success after an error and does not block; a rollout reaches
every zone once and is spread over the regions; no logged line is lost between
a buffer and the output that is read; an import runs where its data is, with
parameters that belong together; an inspection reports what its last workflow
found; diagnostics that end without an error have packed everything and never
lose the zip.

## Modules

| Module | Extends / instantiates | What it is |
|---|---|---|
| `StreamExport` | | What the multipart upload promises: the target appears at once, complete |
| `BufferedWriter` | INSTANCE `StreamExport` | The upload itself |
| `DaisyWorker` | | One `Run` with its attempts, `Cancel` and Ctrl-C |
| `WorkflowHooks` | | What the hooks of a worker do to a workflow |
| `Distro` | | Releases from components and from flags, and flags from releases |
| `DiskInspection` | `DaisyWorker`, `WorkflowHooks`, `Distro` | One inspection: the worker with the workflow each attempt prepares |
| `WindowsUpgrade` | | Runs of the upgrade tool on one instance |
| `ServerLogger` | | One `RunWithServerLogging` |
| `ToolLogger` | `ServerLogger` | The function it runs, which logs from several goroutines |
| `ImagePublish` | | Invocations of the publish tool on one family |
| `PublishMain` | | One invocation of the publish tool, from its workflows on |
| `PublishTool` | `PublishMain` | The same from the flags on |
| `ImportParameters` | | Completing the parameters of one import or export |
| `Diagnostics` | | One run of the diagnostics tool on Windows |
| `MC...` | the module | Constants for TLC |
| `...Proofs` | the module and `TLAPS` | Theorems |

A definition marked "Mutant" in a comment is a way in which the code could be
wrong: putting it in the place of the definition after it makes one of the
properties fail, which shows that the property depends on that line of code.
It is not part of the specification.

### BufferedWriter

`pc` is the position of the writing goroutine in `Write` and `Close`, `wpc[w]`
that of worker `w` in `uploadWorker`. `Write`, `Send`, `NewChunk` and
`AppendSlice` are the four places between which a `Write` can be interrupted by
workers; `Send` is the rendezvous on the unbuffered channel. A worker goes
through `Register` (the append to `tmpObjs`), `Upload`, `RemoveFile`; an error
in between is `ConnectFails`, `UploadFails` (with or without effect on the
bucket) or `PermissionDenied`, and `Retry` decides whether the process dies.
`Close` goes on with `CloseUpload`, `WaitEnds`, and rounds of `ComposeBatch`,
`DeleteSource`, `RoundEnds` until `CopyLast`. The payload of a slice is its
number, so that losing, repeating and reordering are visible. `DiskFails` and
`CloseClientFails` are the other errors, all of which end in `Fatal`, the
`log.Fatal` of `gce_export`. A chunk file whose write was partial is not
modelled: the export has failed then. Nor is a compose, copy or delete that
reports an error after it has taken effect, which leaves more objects behind than
one that has not.

### DaisyWorker

`pc` is the position in `Run`, `watcher[a]` the goroutine of attempt `a`. What
is external: `RunFails`, `RunSucceeds` and `RunCancelled` are the ends of Daisy's
`Workflow.Run`; after a cancellation it may still end by itself. Daisy may close
the `Cancel` channel of a workflow that failed, which ends its goroutine: the
model allows that and does not rely on it.

### DiskInspection, WorkflowHooks, Distro

`DiskInspection` adds to each step of `DaisyWorker` what it does to data.
`workflow[a]` is the workflow of attempt `a`, a record of its vars, settings,
name, the logs that are off, and one resource of each kind. `Prepare` is all of
`runOnce` before the workflow runs: the vars, of which the map `given` is shared
by the attempts, and the hooks of `NewDaisyWorker` in their order (`Hooked`), so
that a retry applies them to a new workflow but with vars the first attempt may
have changed. `serial[a]` is what the instance wrote, which is external:
nothing, something that does not decode, or a message. `RunningFailed`,
`DecodingFailed`, `InterpretingFailed` and `Inspected` are the ends of
`Inspect`. In `Distro` a flag is a record of the parts its text is made of.
`CasesAssumption`: no workflow declares two vars for one value of the
environment; none of the repository does. `Overlay` is a map written over
another. An architecture that is not printed is "none", which is not one that is
not known.

### WindowsUpgrade

`vm` is what the instance looks like: whether it runs, which boot disk it has,
whether the new disk and the install disk exist, the startup script and its
backup in the metadata. `Steps` and `...Needs` are the workflows of
`workflows.go` with their dependencies; each step is one action. `AfterFailure`
and `HandleResult` are the decisions of `upgrader.go`, `StartRun` those of
`validators.go` that depend on the instance. Assumed of Compute Engine and
Daisy: the first step that fails ends the workflow and no other step starts
later; an operation is carried out as a whole or not at all, whatever it
reports; detaching a disk that is not attached and creating a disk that exists
fail. `Kill`, `UserStarts` and `UserReattaches` are the outside world.

### ServerLogger

`pc` is `runWithServerLogging`, `lpc[l]` the goroutine of the start log and of
the final one. A parameter is "old", "torn" or "new": `updateParams` writes
strings under `l.mutex`, `constructLogRequest` reads them without it, and a
string is two words. `wait` is `nextRequestWaitMillis`.

### ToolLogger

The step "the function runs" of `ServerLogger` in detail. `tpc[t]` and `next[t]`
are the position of goroutine `t` and its next call; a call takes `mutationLock`
(`LockCall`), prints, and appends to a buffer; `LockRead`, `BuildOutput`,
`MergeOutput` and `ResetBuffers` are the parts of `ReadOutputInfo`. A message is
the call that logged it, so that losing and repeating are visible. Goroutines
other than the tool's may log until the process ends. `Panic` is a panic of the
function, recovered from by `Run`.

### ImagePublish

`image[v]` is the deprecation of version `v` of an image; `plan[t]` is what the
workflow of invocation `t` still has to do, computed by `PublishPlan` or
`RollbackPlan` from the images listed at that moment; `DeprecateImage` and
`DeleteImage` follow the order of `populateSteps`. `DeleteOverwritten` and
`WorkflowFails` are Daisy's. `Old` allows any expiry: with an image
every older one is old, but for the one being published, which is passed over by
its name. That an invocation does not last as long as `DeleteAfter` is assumed:
no image is old that an invocation is still to create.
One family, one prefix; what precedes the plan is `PublishTool`.

### PublishMain

`run[w]` and `watcher[w]` are the two goroutines of a workflow, `errors` the
contents of the channel, with `Capacity` its size. `Start` is one turn of the
loop in main, so that Ctrl-C can come between two of them. The module takes any
set of workflows and of earlier errors; `PublishTool` computes them.

### PublishTool

`phase` is where main is before it runs workflows. `LoadTemplate` and
`LoadDirect` are the templates and the command line; `BeginTemplate` to
`EndTemplate` are `PublishCreateWorkflows` of one template, image by image:
`FilterImage`, `BlockImage` (the publish determination on the day the call is
made), `CreateWorkflow` (with `createRollOut`) and `PopulateWorkflow` (which may
find no steps). `ZoneLists` is the set of zone lists that the code can produce:
it goes through a Go map once for each round (`Round`). A zone is a number in
the order of the names, and belongs to one region (`ZonesAssumption`). The facts
about an image that the determination looks at are a record; a day is its day of the month, weekday and
date. A template's content stands for its images, and what its parsing may find
wrong is one error.

### ImportParameters

`pc` follows `PopulateMissingParameters`. The user's choices are `in`, the
completed values `out`, network and subnet `net`; `bucket` maps names to owner
and location, where a shared scratch bucket is named after the location it is
for. `WantNearFile`, `WantNearZone`, `LookForScratch` and `CreateScratch` are
`CreateScratchBucket`, with `OtherToolCreates` in between; `CheckScratch` and
`RejectScratch` are a bucket the user gave; `PopulateLocation` and
`PopulateZone` go from the bucket to a location and a zone, through the tables of
multi-regions. `failed` remembers which requests failed, since most failures
lead to a fallback. Identifiers are records of their parts, and compared without
regard to case as the code does, but for the lookup of a multi-region in its
table (resource_location_retriever.go:131), where the code minds the case: the
model assumes the upper case in which Cloud Storage reports locations.

### Diagnostics

`Steps` lists what each gatherer does, in its order: commands, queries, roots to
walk, tools without which something is skipped. `status`, `pos`, `pending` are
the goroutine of a gatherer, `pending` being the errors it has yet to send on
the unbuffered channel; `ReceiveError` and `ReceiveFolder` are the select of
`gatherLogs`. Then `CreateZip`, `ZipFiles`, `MoveZip` or `StartUpload` and
`PutZip`, and `CleanUp`; `places` is where the zip exists. An item is a file, or
all files under a root; names inside the zip are not modelled.

## Runs

Bounds are constants of the modules, given in the `.cfg` files. Symmetry is used
where the members of a set are interchangeable and only safety is checked.

| Run | Shows | Bounds, and why they suffice |
|---|---|---|
| `upload_two_workers` | no slice is ever lost, no upload is missed, chunk files are bounded, the promise is kept up to order | 2 workers, 4 slices of two lengths, compose of 2, 2 attempts: several compose rounds, chunks of one and of two slices, a retry beside a second worker. Without failed uploads and removals, for which `FilesBounded` does not hold |
| `upload_one_worker` | with one worker the promise is kept with the order; every export ends | 3 slices, 3 attempts, all faults: repeated registrations and objects stored by an upload that reports an error |
| `daisy_worker` | the attempts prepare the same workflow but for its disks, the reason of a cancellation is reported, an inspection is sound, Cancel ends Run and Ctrl-C the attempt | two attempts as in the code; three workflows with what was asked for (a subnet alone with every other setting, a network, a workflow that lacks a var); ten responses that differ in how they are read |
| `windows_reruns` | script kept, snapshot consistent, reported ends true, every run ends | 2 runs, 3 faults: a run that fails, with its cleanup failing, and one after it |
| `logger_returns` | nothing that was logged is lost or repeated, final log current, nothing sent later, Run returns | 2 requests where the code has 3 (the smallest number with a retry), waits none and above the cap, 2 goroutines with 2 calls each of all levels |
| `publish_concurrent` | the family is served | 2 invocations at once, 4 in all, 3 versions, 1 fault, with obsolete dates, expiry and skipping |
| `publish_one_tool` | only the new image is active; a rollback restores | 1 at a time, 5 in all, 4 versions in any order, skipped and replaced ones too, 1 rollback, 2 faults |
| `publish_main` | success means success; without Ctrl-C the channel has room and main ends; a template yields all its workflows or none; a rollout is spread | 2 templates, 3 images of different facts, 3 regions of one to three zones, six days around the second Tuesday and an end of life, 3 command lines; deadlock is not checked since main may really stop |
| `import_parameters` | parameters fit together and the import runs where its data is; only an upload to a foreign bucket is deleted | 3 regions with a zone each, of which any are up, 2 multi-regions (one not allowed for storage), 3 networks, 3 subnets; every request may fail |
| `diagnostics` | a clean exit is complete, the zip is kept, the tool ends | 4 sets of two or three gatherers with every kind of step, where the code starts eight or nine: gatherers meet only in main, and the proofs hold for all sets. 3 tries of a query as in the code; deadlock is not checked, since main may wait for a gatherer that quit |

Two runs show a place where the code does not do what a comment or message
beside it says:

- `upload_order`: parts uploaded by several workers may be composed out of order.
- `windows_rollback`: with `-auto-rollback` one failed operation can leave the
  instance without its boot disk.

Other limits of the code are visible in the models or were met while they were
written. Where a property is concerned, it says what holds instead.

Upload, worker, upgrade:

- An upload that is retried registers its object twice, and `Close` fails when it
  deletes it the second time.
- One chunk for each worker and the open one are on disk, so that the buffer may
  exceed `-buffer_size` by one chunk; `FilesBounded` states the real bound.
- `gce_export` divides by the seconds since its last progress report
  (main.go:96), which may be zero.
- A Ctrl-C typed between the attempts of a worker is taken by the goroutine of
  the first one; hence `InterruptEndsAttempt` speaks of one attempt.
- A run of the upgrade that was killed, on an instance that had no startup
  script, leaves the script of the tool, which the next run takes for the
  customer's; `UpgradedIsClean` compares with what the run found.
- The cleanup steps belong to the upgrade workflow: with `-auto-rollback` an
  upgrade of which only the cleanup failed is rolled back.

Publishing:

- After Ctrl-C main may wait for ever: two goroutines of each workflow send to a
  channel with room for one error of each; hence `Terminates` and
  `RoomForEveryError` speak of runs without Ctrl-C.
- Only images without any deprecation status are deprecated, so that one that
  was published with an `ObsoleteDate`, or un-deprecated by a rollback, stays
  active; and a rollback un-deprecates the newest image that has a status, so
  that a second rollback may bring back the image just rolled back. Hence the
  conditions of `OnlyNewActive` and `RollbackRestores`.
- With `-skip_duplicates` an old version that is deprecated stays so while the
  others are deprecated; `publish_concurrent` therefore publishes an existing
  image again only if it is the newest. `-replace` deletes before it creates.
- `-rollout_rate` 0 still makes a policy, although its flag says none; without
  zones the default time is one rate before the start. Two zones of one region
  may follow each other, as the last of a round and the first of the next, which
  `RolloutSpread` allows.
- A template that yields nothing does not replace the previous one in the shared
  value it is parsed into, and an expiry may overflow its product.

Logging:

- The wait that the server asks for is never slept: it is set to zero before it
  is read (logger.go:292).
- `updateParams` leaves `WindowsUpgradeParams` out (log_entry.go:298).
- Lines take their time before they take `mutationLock`, so that times may be
  out of order; a panic's log drops what was logged before it.

Import:

- A failed listing of buckets reads as "not in the project", so that a file that
  gcloud uploaded to the user's own bucket is then deleted; hence the condition
  of `OnlyForeignUploadDeleted`, which excuses this case.
- A failed lookup of a bucket or of zones is survived with a fallback, so that
  the import may run elsewhere; `RunsWhereDataIs` speaks of imports in which
  nothing failed.
- The region of a subnet that is given in full is not compared with the zone's,
  and a zone that the user gives is not looked up.

Inspection:

- The synonyms of the architectures are swapped (distro.go:57: `amd64` is read as
  x86, `i386` as x64); distro_test.go:225 expects the opposite but does not
  assert it. The model follows the code.
- The flag of a Windows server has no architecture, which `ImportCompatible`
  nevertheless compares; Ubuntu before 10.04 has a flag that cannot be read back.
  `InspectionSound` excludes both.
- The provider of the workflow changes its own copy of the environment, so that
  the `-inspect` prefix never reaches the hooks, and grows with a retry
  (inspect.go:58).
- Instances of the beta API keep their disks in the fallback, and beta images are
  not labelled.

Diagnostics:

- Without PowerShell, or without a current directory, the RDP gatherer sends no
  folder, and main waits for ever; hence the condition of `Ends`.
- A root whose `os.Stat` fails unexpectedly is only logged (`unseen`); the error
  of closing the zip writer is ignored; the status of the answer to the PUT, and
  an error in reading the zip, are ignored before the zip is removed. `ZipIsKept`
  and `CleanExitIsComplete` name these cases.
- An error in closing a file with the output of a command is lost
  (main_windows.go:82 looks at another error), so that a file that `RunCommand`
  collects may be incomplete; no property speaks of what is in a file.
- Files of one base name share a name in the zip.

### Fairness

Liveness assumes weak fairness of goroutines that can run, and nothing of users.
`BufferedWriter` assumes that calls to Cloud Storage return, with a result or an
error, and the retry loop is bounded by the code. `DaisyWorker` and
`DiskInspection` assume nothing of a workflow that has not been cancelled.
`WindowsUpgrade`, `PublishMain` and `PublishTool` rely on Daisy's step timeouts,
`ServerLogger` and `ToolLogger` on the timeout of the HTTP client; a goroutine
that has called the tool logger goes on. `Diagnostics` assumes that commands,
WMI queries and requests end. `ImportParameters` has only safety properties.

## Proofs

Every safety property of the runs that pass, the two refinements of
`StreamExport` among them, is also a theorem for all values of the constants.

| Module | Theorems | Argument |
|---|---|---|
| `BufferedWriterProofs` | `TypeCorrect`, `NothingLostInUpload`, `FewChunkFiles` | `UploadInv`: until composing starts each chunk has one keeper, the open file, a worker or a registered stored object. `AllUploaded` alone is not inductive: it says nothing before `Close`. `FileInv`: every file is in the hands of a worker or the last one made; the number of files follows by an injection into the workers and one more |
| | `NoSliceIsLost` | `KeeperInv`: the keeper's object holds what its file holds; `NamesInv`: composed objects have new names, so that nothing is overwritten; `DeleteInv`: what is being deleted is in the object composed of it. `NoByteLost` is inductive only together with these |
| | `UploadKeepsItsPromise`, `OneWorkerKeepsOrder` | Every step is a step of `StreamExport` or none. `ContentInv`: the slices grow along each chunk and from chunk to chunk; `WholeInv`: in each round, if no object is missing, those that are registered have every slice once between them, and with one worker in order, since it registers the chunks in theirs (`SortedInv`). The second assumes one worker (`OneWorker`) |
| `DaisyWorkerProofs` | `TypeCorrect`, `RetryOnlyAsFallback`, `ReasonNotLost`, `InspectionRunsWorker`, `InspectionIsSafe` | `FallbackInv` ties the retry flag to the attempt; `ReasonInv` says where the reason is during the first attempt. An inspection implements a worker, step by step, so that the invariants carry over |
| | `InspectionIsSound` | `FoundInv`: nothing is reported before the worker has ended, and what an instance writes is nothing, something that does not decode, or a message. The lemma `FlagReadsBack`: each release with a flag is the one that the flag makes, for every distribution, version and architecture |
| | `SecondAttemptAlike`, `InspectTypeCorrect` | `WorkflowInv`: a workflow that was prepared is what the hooks make of the file with vars that are `Settled`. Backfilling settles the vars and does nothing to settled ones (`BackfillOnce`, `BackfillTwice`), so that the retry, whose vars the first attempt has changed, prepares the same. The hooks are followed one by one (`RemoveAlike`, `StandardAlike`, ...) |
| `WindowsUpgradeProofs` | `TypeCorrect`, `ScriptNeverLost`, `SnapshotOfStoppedInstance` | `ScriptInv`: the customer's script is in the metadata or in its backup, and a run knows it before it writes either; holds for any number of runs and faults |
| | `SuccessIsClean`, `RollbackIsComplete` | `ResultInv`: a step that is done has had its effect, the new disk boots once it is attached, and a run that goes on has reported nothing. One lemma for each workflow |
| `ServerLoggerProofs` | `TypeCorrect`, `FinalLogCurrent`, `NothingLeftBehind`, `ToolIsServed`, `ToolIsSafe` | `CurrentInv`: the goroutine of the final log starts after the update, and what it has read so far is new. A tool that logs implements the server log, whatever its goroutines do |
| | `NothingLoggedIsLost`, `ToolTypeCorrect` | `LockInv`: one goroutine is between its lock and its unlock; `CopyInv`, `KeptInv`: each line that has been logged is in a buffer or in what was read from it, once, in the middle of a read too; `ReportInv` takes this to the log that is sent. Sets of calls are counted by cardinality |
| `PublishMainProofs` | `TypeCorrect`, `SuccessIsReal`, `ErrorsNeverBlock` | Of `PublishMain`, with any workflows. `SentInv`: the error of a workflow that is over is in the channel; `RoomInv`: without Ctrl-C the channel holds only earlier errors and one of each workflow that is over, so that there is room, by cardinality |
| | `ToolIsSafe`, `ToolTypeCorrect`, `TemplatesAreWhole` | Of `PublishTool`. `MainInv`: before the plan ends main has done nothing (`Waiting`), and when it ends the invariants above hold. `TemplatesInv` and `ImagesInv` follow templates and images through planning. `SecondTuesday`: the days 8 to 14 are those with one such weekday before them |
| | `RolloutIsSpread` | `RolloutInv`: a policy comes from a list in `ZoneLists`. `ListIs`: such a list, for any regions, has each zone once and is ordered by rounds |
| `ImagePublishProofs` | `FamilyAlwaysServed` | `FamilyInv`: no invocation whose image is there is about to deprecate or delete the newest image, and the newest image is active. `FamilyServed` alone is not inductive: it does not see the plans made from an old list. One lemma for each action that changes the project or the plans. Assumes what the run `publish_concurrent` assumes (`PublishOnly`: no replacing, no old version, no rollback) |
| | `OnlyTheNewImage`, `RollbackBringsBack` | `OneInv`: whatever is active is the new image or still to be deprecated or deleted (`SoleInv`); what was served before is the newest image but the new one (`PublishInv`, `LastInv`), which the first rollback brings back and the only one it touches (`RestoreInv`). Both assume one invocation at a time without obsolete dates (`OneAtATime`), and the second at most one rollback, as the run `publish_one_tool` does: otherwise they do not hold |
| `ImportParametersProofs` | `TypeCorrect`, `DeletesOnlyForeignUpload`, `ReturnsWhatFits` | The scratch bucket is ours as soon as the tool has it (`ScratchIsOurs`), and no step of another tool takes a bucket away; the zone, once found, gives the region; the location comes from the table that contains the bucket's |
| | `ImportsWhereDataIs` | `PlaceInv`: if the user left zone and scratch bucket to the tool and nothing failed (`Asked`), the file's location is what the scratch bucket is named after, the bucket's own location is what the zone is sought in, and the zone is the cheapest there: `ZoneForRegionFits`, `ZoneFromLocationFits` |
| `DiagnosticsProofs` | `TypeCorrect`, `CleanExitComplete` | `StepInv`: what a step that is done should have yielded is collected, about to be walked (`RootInv`), or there is an error, received or still to be sent; `FolderInv`: main goes on with the folders of gatherers that have nothing left to send; `ZipInv` takes this to the exit. Holds for every set of gatherers and number of tries |
| | `ZipNeverLost` | `PlaceInv`: where the zip is at each position of main; what is removed at the end is the copy in the temporary folder, when there is another or the PUT was answered |

The invariants are defined beside the properties, in the modules of the models
or before the theorems that need them, and were checked by TLC on the instances
of the runs before they were proved. The proofs use the assumptions on the
constants that the modules name, and the hypotheses that the table names, and
nothing else; TLC evaluates the assumptions in the runs.

Induction, where data need it, has the form of a least counterexample: the numbers for
which a fact fails have a least element (`LeastOf`, from the well-founded order
of the naturals), and the fact holds for the one before it. In this way
`FlattenSeq` is shown to concatenate, with what it keeps of the order and the
distinctness of its pieces (`FlattenHolds`), and the least of a set of numbers
to exist. A set of zones is sorted by the number of zones up to each
(`SortedExists`).

Only model-checked: liveness (`Terminates`, `CancelEndsRun`,
`InterruptEndsAttempt`, `RunEnds`, `Returns`, `Ends`), which is about fairness and
hence about `ENABLED`, of which these provers know nothing.

## Not modelled

- GCS objects and tar extraction: wrappers of the client library, and a
  sequential copy loop that no tool calls.
- The resource deleter: two best-effort loops without a caller.
- The resource cleaner: calls of the cleanerupper library, which decides what to
  delete.
- Flags, validation, paths and strings; image files, mounts and `gcsfuse`
  output: pure functions on text.
- Compute metadata, instance utilities, GCP client and logging helpers: wrappers
  of services.
- Daisy's engine, the workflows in JSON and the guest scripts: outside the Go
  code, or run inside guests.
- `stub_linux.go` of the diagnostics, which gathers nothing; tests, mocks and
  generated code.

## Plan

Done: all modules above, and a theorem for each safety property of the runs. Left,
in this order:

1. `UpgradeWorkflows`: `WindowsUpgrade` with each workflow run by a
   `DaisyWorker`, so that Ctrl-C during an upgrade is a step.
2. `OnlyNewActive` for several invocations, in the form in which it survives
   them: an image that stays active beside the newest was listed before a
   later one was created.
3. The wait that the server asks for (logger.go:292): a property that tells
   what is slept from what was asked.
