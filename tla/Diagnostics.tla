----------------------------- MODULE Diagnostics -----------------------------
(***************************************************************************)
(* The diagnostics tool on Windows, cli_tools/diagnostics: main.go,        *)
(* main_windows.go and wmi_windows.go.                                     *)
(*                                                                         *)
(* gatherLogs starts one goroutine for each gatherer.  A gatherer collects *)
(* the items of its list, sends each error on an unbuffered channel, and   *)
(* at last its folder on a buffered one.  main counts the folders, then    *)
(* zips what they hold, moves or uploads the zip, and removes the          *)
(* temporary folder.                                                       *)
(*                                                                         *)
(* An item is a file, or all files under a root.  The commands, WMI, the   *)
(* file system and the log server are external.                            *)
(***************************************************************************)
EXTENDS Integers, Sequences, FiniteSets

CONSTANTS
    RunFuncs,  \* the sets of gatherers that may be started: all, "trace" only
               \* with -trace
    MaxTries   \* tries of one WMI query: 3

Gatherers == {"system", "disk", "network", "program", "event", "kubernetes",
              "rdp", "docker", "trace"}

ASSUME RunFuncsAssumption ==
    RunFuncs \subseteq SUBSET Gatherers /\ {} \notin RunFuncs
ASSUME TriesAssumption == MaxTries \in Nat \ {0}

\* What may be on the machine; "workdir" stands for filepath.Abs.
Installed == {"powershell", "docker", "workdir", "k8sLogs", "crashDump"}

(***************************************************************************)
(* What the gatherers do, in order.                                        *)
(***************************************************************************)

\* A step: what it does, the item or the tool it is about, and the tools without
\* which it is skipped.
Plain(do, what) == [do |-> do, what |-> what, needs |-> {}]
With(tools, do, what) == [do |-> do, what |-> what, needs |-> tools]

SystemSteps == <<
    Plain("command", "systeminfo"), Plain("command", "bcdedit"),
    Plain("command", "drivers"), Plain("command", "pnputil"),
    Plain("command", "msinfo32"), Plain("query", "users")>>

DiskSteps == <<Plain("query", "disks"), Plain("query", "volumes"),
               Plain("query", "partitions")>>

NetworkSteps == <<
    Plain("command", "nslookup_dns"), Plain("command", "tracert_gstatic"),
    Plain("command", "ping_dns"), Plain("command", "ping_gstatic"),
    Plain("command", "ipconfig"), Plain("command", "route"),
    Plain("command", "netstat"), Plain("query", "firewall")>>

ProgramSteps == <<Plain("query", "processes"), Plain("query", "services"),
                  Plain("query", "scheduled_tasks")>>

\* getPlainEventLogs reports a missing PowerShell and returns no file.
EventSteps == <<
    Plain("root", "eventLogs"), Plain("walk", "roots"),
    Plain("lookup", "powershell"),
    With({"powershell"}, "command", "Application"),
    With({"powershell"}, "command", "System")>>

KubernetesSteps == <<
    Plain("stat", "k8sLogs"), Plain("stat", "crashDump"), Plain("walk", "roots"),
    With({"docker"}, "lookup", "powershell"),
    With({"docker", "powershell"}, "command", "docker")>>

\* Without PowerShell or a current directory, the gatherer returns.
RDPSteps == <<Plain("require", "powershell"), Plain("require", "workdir"),
              Plain("command", "rdp_status")>>

DockerSteps == <<With({"docker"}, "command", "docker_images")>>

\* A trace that could not be started is stopped all the same.
TraceSteps == <<Plain("start", "wpr"), Plain("command", "trace")>>

Steps ==
    [g \in Gatherers |->
        CASE g = "system"     -> SystemSteps
          [] g = "disk"       -> DiskSteps
          [] g = "network"    -> NetworkSteps
          [] g = "program"    -> ProgramSteps
          [] g = "event"      -> EventSteps
          [] g = "kubernetes" -> KubernetesSteps
          [] g = "rdp"        -> RDPSteps
          [] g = "docker"     -> DockerSteps
          [] g = "trace"      -> TraceSteps]

VARIABLES
    runFuncs,  \* the gatherers of this run
    installed, \* what is on the machine
    pc,        \* where main is
    status,    \* of each gatherer
    pos,       \* its next step
    tries,     \* failed tries of its query
    roots,     \* roots it is going to walk
    pending,   \* errors it has to send before it goes on
    files,     \* items it has collected
    unseen,    \* roots whose existence could not be found out
    folders,   \* gatherers whose folder main has received
    erred,     \* errStrings is not empty, or zipping met a non-fatal error
    archive,   \* the zip file: none, open, complete, or without its directory
    zipped,    \* the items in it, complete
    places,    \* where the zip file is
    answer,    \* what the server made of the upload
    exit       \* how main ended

gathererVars == <<runFuncs, installed, status, pos, tries, roots, pending, files, unseen>>
zipVars == <<archive, zipped, places, answer>>
mainVars == <<pc, folders, erred, zipVars, exit>>
vars == <<gathererVars, mainVars>>

Init ==
    /\ runFuncs \in RunFuncs
    /\ installed \in SUBSET Installed
    /\ pc = "start"
    /\ status = [g \in Gatherers |-> "none"]
    /\ pos = [g \in Gatherers |-> 1]
    /\ tries = [g \in Gatherers |-> 0]
    /\ roots = [g \in Gatherers |-> {}]
    /\ pending = [g \in Gatherers |-> 0]
    /\ files = [g \in Gatherers |-> {}]
    /\ unseen = {} /\ folders = {} /\ erred = FALSE
    /\ archive = "none" /\ zipped = {} /\ places = {}
    /\ answer = "none" /\ exit = "none"

(***************************************************************************)
(* The gatherers.                                                          *)
(***************************************************************************)

\* g is at a step that is to be done or skipped.
Ready(g) == status[g] = "running" /\ pending[g] = 0 /\ pos[g] <= Len(Steps[g])
Now(g) == Steps[g][pos[g]]
At(g, do) == Ready(g) /\ Now(g).needs \subseteq installed /\ Now(g).do = do

Advance(g) == pos' = [pos EXCEPT ![g] = @ + 1]
Collect(g, items) == files' = [files EXCEPT ![g] = @ \cup items]

\* An error is sent on errs, which has no buffer.
Report(g) == pending' = [pending EXCEPT ![g] = 1]

\* What is only done with a tool that is not installed.
SkipStep(g) ==
    /\ Ready(g) /\ ~(Now(g).needs \subseteq installed)
    /\ Advance(g)
    /\ UNCHANGED <<runFuncs, installed, status, tries, roots, pending, files, unseen, mainVars>>

\* cmd.run, called by runAll: the output of a command that fails is left out.
\* The output of one that succeeds is taken even if its file cannot be closed.
RunCommand(g) ==
    /\ At(g, "command")
    /\ \/ Collect(g, {Now(g).what}) /\ UNCHANGED pending
       \/ Report(g) /\ UNCHANGED files
    /\ Advance(g)
    /\ UNCHANGED <<runFuncs, installed, status, tries, roots, unseen, mainVars>>

\* The start of a trace, which leaves no file yet.
StartTrace(g) ==
    /\ At(g, "start")
    /\ Report(g) \/ UNCHANGED pending
    /\ Advance(g)
    /\ UNCHANGED <<runFuncs, installed, status, tries, roots, files, unseen, mainVars>>

\* wmiQuery.run: the query succeeds and is written, or the file fails, at once.
QueryEnds(g) ==
    /\ At(g, "query")
    /\ \/ Collect(g, {Now(g).what}) /\ UNCHANGED pending
       \/ Report(g) /\ UNCHANGED files
    /\ Advance(g)
    /\ tries' = [tries EXCEPT ![g] = 0]
    /\ UNCHANGED <<runFuncs, installed, status, roots, unseen, mainVars>>

\* Mutants: the query is tried once more; WMI is asked until it answers.
QueryFailsOnceMore(g) ==
    /\ At(g, "query")
    /\ IF tries[g] < MaxTries
       THEN /\ tries' = [tries EXCEPT ![g] = @ + 1]
            /\ UNCHANGED <<pos, pending>>
       ELSE /\ tries' = [tries EXCEPT ![g] = 0]
            /\ Advance(g) /\ Report(g)
    /\ UNCHANGED <<runFuncs, installed, status, roots, files, unseen, mainVars>>
QueryFailsForever(g) ==
    /\ At(g, "query")
    /\ tries' = [tries EXCEPT ![g] = (@ + 1) % MaxTries]
    /\ UNCHANGED <<runFuncs, installed, status, pos, roots, pending, files, unseen,
                   mainVars>>

\* "WMI is somewhat flaky": the last try that fails is reported.
QueryFails(g) ==
    /\ At(g, "query")
    /\ IF tries[g] + 1 < MaxTries
       THEN /\ tries' = [tries EXCEPT ![g] = @ + 1]
            /\ UNCHANGED <<pos, pending>>
       ELSE /\ tries' = [tries EXCEPT ![g] = 0]
            /\ Advance(g) /\ Report(g)
    /\ UNCHANGED <<runFuncs, installed, status, roots, files, unseen, mainVars>>

\* A root that is walked in any case.
AddRoot(g) ==
    /\ At(g, "root")
    /\ roots' = [roots EXCEPT ![g] = @ \cup {Now(g).what}]
    /\ Advance(g)
    /\ UNCHANGED <<runFuncs, installed, status, tries, pending, files, unseen, mainVars>>

\* os.Stat: an error other than "does not exist" is logged, and not reported.
StatRoot(g) ==
    /\ At(g, "stat")
    /\ \/ /\ Now(g).what \in installed
          /\ roots' = [roots EXCEPT ![g] = @ \cup {Now(g).what}]
          /\ UNCHANGED unseen
       \/ Now(g).what \notin installed /\ UNCHANGED <<roots, unseen>>
       \/ unseen' = unseen \cup {Now(g).what} /\ UNCHANGED roots
    /\ Advance(g)
    /\ UNCHANGED <<runFuncs, installed, status, tries, pending, files, mainVars>>

\* collectFilePaths: a root whose walk fails is an error, and incomplete.
WalkRoots(g) ==
    /\ At(g, "walk")
    /\ \E broken \in SUBSET roots[g] :
        /\ Collect(g, roots[g] \ broken)
        /\ pending' = [pending EXCEPT ![g] = Cardinality(broken)]
    /\ roots' = [roots EXCEPT ![g] = {}]
    /\ Advance(g)
    /\ UNCHANGED <<runFuncs, installed, status, tries, unseen, mainVars>>

\* getPlainEventLogs looks for PowerShell.
LookUp(g) ==
    /\ At(g, "lookup")
    /\ IF Now(g).what \in installed THEN UNCHANGED pending ELSE Report(g)
    /\ Advance(g)
    /\ UNCHANGED <<runFuncs, installed, status, tries, roots, files, unseen, mainVars>>

\* gatherRDPSettings returns after the error, and sends no folder.
Require(g) ==
    /\ At(g, "require")
    /\ IF Now(g).what \in installed
       THEN UNCHANGED <<status, pending>>
       ELSE Report(g) /\ status' = [status EXCEPT ![g] = "quitting"]
    /\ Advance(g)
    /\ UNCHANGED <<runFuncs, installed, tries, roots, files, unseen, mainVars>>

\* The last statement of a gatherer; the channel has room for every folder.
SendFolder(g) ==
    /\ status[g] = "running" /\ pending[g] = 0 /\ pos[g] > Len(Steps[g])
    /\ status' = [status EXCEPT ![g] = "sent"]
    /\ UNCHANGED <<runFuncs, installed, pos, tries, roots, pending, files, unseen, mainVars>>

(***************************************************************************)
(* main.                                                                   *)
(***************************************************************************)

\* log.Fatal
Fatal == pc' = "exited" /\ exit' = "failed"

\* TempDir, then gatherLogs starts the gatherers.
Start ==
    /\ pc = "start"
    /\ \/ Fatal /\ UNCHANGED status
       \/ /\ pc' = "collect"
          /\ status' = [g \in Gatherers |-> IF g \in runFuncs THEN "running" ELSE "none"]
          /\ UNCHANGED exit
    /\ UNCHANGED <<runFuncs, installed, pos, tries, roots, pending, files, unseen, folders,
                   erred, zipVars>>

\* A gatherer's error meets the select of main.
ReceiveError(g) ==
    /\ pc = "collect" /\ pending[g] > 0
    /\ pending' = [pending EXCEPT ![g] = @ - 1]
    /\ erred' = TRUE
    /\ status' = [status EXCEPT ![g] =
                    IF @ = "quitting" /\ pending[g] = 1 THEN "gone" ELSE @]
    /\ UNCHANGED <<runFuncs, installed, pos, tries, roots, files, unseen, pc, folders,
                   zipVars, exit>>

\* Mutant: all but one are enough.
ReceiveAllButOne(g) ==
    /\ pc = "collect" /\ status[g] = "sent" /\ g \notin folders
    /\ folders' = folders \cup {g}
    /\ IF Cardinality(folders') >= Cardinality(runFuncs) - 1
       THEN pc' = "create" ELSE UNCHANGED pc
    /\ UNCHANGED <<gathererVars, erred, zipVars, exit>>

\* The other case of the select; the last folder ends the loop.
ReceiveFolder(g) ==
    /\ pc = "collect" /\ status[g] = "sent" /\ g \notin folders
    /\ folders' = folders \cup {g}
    /\ IF folders' = runFuncs
       THEN pc' = "create" ELSE UNCHANGED pc
    /\ UNCHANGED <<gathererVars, erred, zipVars, exit>>

\* What is in the folders that main has received.
Packed == UNION {files[g] : g \in folders}

\* zipFiles: os.Create.
CreateZip ==
    /\ pc = "create"
    /\ \/ Fatal /\ UNCHANGED <<archive, places>>
       \/ /\ pc' = "zip"
          /\ archive' = "open" /\ places' = {"tmp"}
          /\ UNCHANGED exit
    /\ UNCHANGED <<gathererVars, folders, erred, zipped, answer>>

\* zipFiles: a file that cannot be opened, created in the zip, copied or closed is
\* no fatal error; an item is all files of a root.  The zip writer, closed by a
\* deferred call, writes the directory, and its error is ignored; closing the zip
\* itself may be a fatal error.
ZipFiles ==
    /\ pc = "zip"
    /\ zipped' \in SUBSET Packed
    /\ erred' \in {erred \/ zipped' # Packed, TRUE}
    /\ archive' \in {"complete", "undirected"}
    /\ \/ Fatal
       \/ pc' = "deliver" /\ UNCHANGED exit
    /\ UNCHANGED <<gathererVars, folders, places, answer>>

\* Mutant: the temporary folder goes with every error.
DeliverFailsAndCleansUp ==
    /\ pc \in {"deliver", "put"}
    /\ Fatal
    /\ places' = {}
    /\ UNCHANGED <<gathererVars, folders, erred, archive, zipped, answer>>

\* Moving, or a request of the upload, fails or times out: "Logs can be found at".
DeliverFails ==
    /\ pc \in {"deliver", "put"}
    /\ Fatal
    /\ UNCHANGED <<gathererVars, folders, erred, zipVars>>

\* moveZipFile, without -signedUrl.
MoveZip ==
    /\ pc = "deliver"
    /\ pc' = "cleanUp"
    /\ places' = {"workdir"}
    /\ UNCHANGED <<gathererVars, folders, erred, archive, zipped, answer, exit>>

\* uploadToSignedURL: the POST has been answered and the zip opened.
StartUpload ==
    /\ pc = "deliver"
    /\ pc' = "put"
    /\ UNCHANGED <<gathererVars, folders, erred, zipVars, exit>>

\* The PUT is answered: with whatever status, and for whatever io.Copy has read.
PutZip ==
    /\ pc = "put"
    /\ pc' = "cleanUp"
    /\ answer' \in {"stored", "refused", "truncated"}
    /\ places' = places \cup (IF answer' = "stored" THEN {"server"} ELSE {})
    /\ UNCHANGED <<gathererVars, folders, erred, archive, zipped, exit>>

\* os.RemoveAll, and the exit status.
CleanUp ==
    /\ pc = "cleanUp"
    /\ pc' = "exited"
    /\ places' = places \ {"tmp"}
    /\ exit' = IF erred THEN "failed" ELSE "clean"
    /\ UNCHANGED <<gathererVars, folders, erred, archive, zipped, answer>>

(***************************************************************************)

GathererStep(g) ==
    \/ SkipStep(g) \/ RunCommand(g) \/ StartTrace(g) \/ QueryEnds(g) \/ QueryFails(g)
    \/ AddRoot(g) \/ StatRoot(g) \/ WalkRoots(g) \/ LookUp(g) \/ Require(g)
    \/ SendFolder(g)

MainStep ==
    \/ Start \/ CreateZip \/ ZipFiles
    \/ DeliverFails \/ MoveZip \/ StartUpload \/ PutZip \/ CleanUp
    \/ \E g \in runFuncs : ReceiveError(g) \/ ReceiveFolder(g)

Terminating == pc = "exited" /\ UNCHANGED vars

Next == MainStep \/ (\E g \in runFuncs : GathererStep(g)) \/ Terminating

Spec == Init /\ [][Next]_vars

\* Goroutines run; commands, WMI and requests end.
FairSpec == Spec /\ WF_vars(MainStep) /\ \A g \in Gatherers : WF_vars(GathererStep(g))

(***************************************************************************)
(* Properties.                                                             *)
(***************************************************************************)

\* Types of the variables.
TypeOK ==
    /\ runFuncs \in RunFuncs /\ installed \subseteq Installed
    /\ pc \in {"start", "collect", "create", "zip", "deliver", "put", "cleanUp",
               "exited"}
    /\ status \in [Gatherers -> {"none", "running", "quitting", "gone", "sent"}]
    /\ pos \in [Gatherers -> Nat]
    /\ \A g \in Gatherers : pos[g] \in 1..(Len(Steps[g]) + 1)
    /\ tries \in [Gatherers -> 0..(MaxTries - 1)]
    /\ pending \in [Gatherers -> Nat]
    /\ DOMAIN roots = Gatherers /\ DOMAIN files = Gatherers
    /\ \A g \in Gatherers : IsFiniteSet(roots[g])
    /\ folders \subseteq runFuncs
    /\ erred \in BOOLEAN
    /\ archive \in {"none", "open", "complete", "undirected"}
    /\ zipped \subseteq Packed
    /\ places \subseteq {"tmp", "workdir", "server"}
    /\ answer \in {"none", "stored", "refused", "truncated"}
    /\ exit \in {"none", "clean", "failed"}

\* The files and roots that the list of g yields on this machine.
Yields(s) ==
    /\ s.do \in {"command", "query", "root", "stat"} /\ s.needs \subseteq installed
    /\ s.do = "stat" => s.what \in installed
Expected(g) == {Steps[g][i].what : i \in {j \in DOMAIN Steps[g] : Yields(Steps[g][j])}}

\* A run without an error message has packed every file of every gatherer: no
\* error is lost between the goroutines, the retries and the zip, except for
\* the roots that the tool could not see, which it only logs.
CleanExitIsComplete ==
    exit = "clean" => \A g \in runFuncs : Expected(g) \subseteq zipped \cup unseen

\* Whatever fails after the files have been zipped, the zip is left somewhere,
\* unless the server answered without storing it, which the tool does not look at.
ZipIsKept ==
    pc = "exited" /\ archive # "none" =>
        places # {} \/ answer \in {"refused", "truncated"}

\* The tool ends, however many gatherers fail: none waits for main with an
\* error, and main for none, unless one has quit without its folder.
Ends == <>(pc = "exited" \/ \E g \in runFuncs : status[g] = "gone")

(***************************************************************************)
(* The inductive invariant behind CleanExitIsComplete.                     *)
(***************************************************************************)

\* A folder is sent after the last step, with no error left to send, and main
\* goes on with all of them.
FolderInv ==
    /\ pc = "start" => \A g \in Gatherers : status[g] = "none"
    /\ \A g \in Gatherers :
        status[g] = "sent" => pos[g] > Len(Steps[g]) /\ pending[g] = 0
    /\ \A g \in folders : status[g] = "sent"
    /\ pc \notin {"start", "collect", "exited"} => folders = runFuncs

\* Roots that have been found are still to be walked.
RootInv ==
    \A g \in Gatherers :
        roots[g] # {} => \E j \in pos[g]..Len(Steps[g]) : Steps[g][j].do = "walk"

\* What a step done before should have yielded is there, or about to be walked,
\* or there is or will be an error.
Accounted(g, what) ==
    \/ what \in files[g] \cup roots[g] \cup unseen
    \/ erred \/ pending[g] > 0
StepInv ==
    \A g \in Gatherers : \A i \in 1..(pos[g] - 1) :
        Yields(Steps[g][i]) => Accounted(g, Steps[g][i].what)

\* After zipping, everything is in the zip or there was an error.
ZipInv ==
    /\ pc \in {"deliver", "put", "cleanUp"} => erred \/ zipped = Packed
    /\ exit = "clean" => pc = "exited" /\ folders = runFuncs /\ ~erred /\ zipped = Packed

\* Behind ZipIsKept: where the zip is at each step of main, the last of which
\* takes away only the copy in the temporary folder.
PlaceInv ==
    /\ archive # "none" <=> places # {} \/ answer # "none"
    /\ pc \in {"start", "collect", "create"} => archive = "none"
    /\ pc \in {"zip", "deliver", "put"} => "tmp" \in places
    /\ pc = "cleanUp" => places \ {"tmp"} # {} \/ answer \in {"refused", "truncated"}
    /\ ZipIsKept
=============================================================================
