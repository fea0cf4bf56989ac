-------------------------- MODULE DaisyWorkerProofs --------------------------
(***************************************************************************)
(* Theorems about DaisyWorker, for any set of errors a workflow may have.  *)
(***************************************************************************)
EXTENDS DiskInspection, TLAPS

\* One attempt at most is made besides the first, and the variables of Run, of
\* its goroutines and of Cancel keep their types.
THEOREM TypeCorrect == Spec => []TypeOK
<1>1. Init => TypeOK
  <2> SUFFICES ASSUME Init PROVE TypeOK
    OBVIOUS
  <2>1. /\ pc = "provide" /\ attempt \in Attempt /\ result \in Results
        /\ canceller = "idle"
    BY DEF Init, Attempt, Results
  <2>2. /\ disks \in [Attempt -> {"none", "asWritten", "standard"}]
        /\ stopped \in [Attempt -> {"no", "plain", "withReason", "byDaisy"}]
        /\ watcher \in [Attempt -> {"none", "waiting", "over"}]
        /\ signals \in [Attempt -> {"off", "empty", "full"}]
    BY DEF Init
  <2>3. /\ fallback \in BOOLEAN /\ buffered \in BOOLEAN /\ closed \in BOOLEAN
        /\ interrupted \in BOOLEAN
    BY DEF Init
  <2>4. QED
    BY <2>1, <2>2, <2>3 DEF TypeOK
<1>2. TypeOK /\ [Next]_vars => TypeOK'
  <2> SUFFICES ASSUME TypeOK, [Next]_vars PROVE TypeOK'
    OBVIOUS
  <2> USE DEF TypeOK, Attempt, Results, cancelVars, runVars
  <2>1. CASE Provide
    BY <2>1 DEF Provide, Finish
  <2>2. CASE CheckIfCancelled
    BY <2>2 DEF CheckIfCancelled, Finish
  <2>3. CASE PreRunHooks
    BY <2>3 DEF PreRunHooks, Finish
  <2>4. CASE StartRun
    BY <2>4 DEF StartRun
  <2>5. CASE RunFails
    BY <2>5, ErrorsAssumption DEF RunFails
  <2>6. CASE RunSucceeds
    BY <2>6 DEF RunSucceeds, Finish
  <2>7. CASE RunCancelled
    BY <2>7 DEF RunCancelled
  <2>8. CASE PostRunHooks
    BY <2>8 DEF PostRunHooks, Finish
  <2>9. CASE CancelSend
    BY <2>9 DEF CancelSend
  <2>10. CASE CancelClose
    BY <2>10 DEF CancelClose
  <2>11. CASE Interrupt
    BY <2>11 DEF Interrupt
  <2>12. ASSUME NEW a \in Attempt, WatchSignal(a) PROVE TypeOK'
    BY <2>12 DEF WatchSignal, StopWorkflow
  <2>13. ASSUME NEW a \in Attempt, WatchCancel(a) PROVE TypeOK'
    <3> DEFINE how == IF buffered THEN "withReason" ELSE "plain"
    <3>1. how \in {"no", "plain", "withReason", "byDaisy"}
      OBVIOUS
    <3>2. /\ stopped' = [stopped EXCEPT ![a] = IF @ = "no" THEN how ELSE @]
          /\ watcher' = [watcher EXCEPT ![a] = "over"]
      BY <2>13 DEF WatchCancel, StopWorkflow
    <3> HIDE DEF how
    <3>3. /\ stopped' \in [Attempt -> {"no", "plain", "withReason", "byDaisy"}]
          /\ watcher' \in [Attempt -> {"none", "waiting", "over"}]
      BY <3>1, <3>2
    <3>4. buffered' \in BOOLEAN
      BY <2>13 DEF WatchCancel
    <3>5. QED
      BY <2>13, <3>3, <3>4 DEF WatchCancel
  <2>14. ASSUME NEW a \in Attempt, WatchWorkflow(a) PROVE TypeOK'
    BY <2>14 DEF WatchWorkflow
  <2>15. CASE UNCHANGED vars
    BY <2>15 DEF vars
  <2>16. QED
    BY <2>1, <2>2, <2>3, <2>4, <2>5, <2>6, <2>7, <2>8, <2>9, <2>10, <2>11,
       <2>12, <2>13, <2>14, <2>15
       DEF Next, RunStep, Daisy, Watch, Terminating
<1>3. QED
  BY <1>1, <1>2, PTL DEF Spec

\* fallback holds during all of the second attempt and not during the first,
\* so each attempt's disks are the ones it stands for.
THEOREM FallbackInvariant == Spec => []FallbackInv
<1>1. Init => FallbackInv
  BY DEF Init, FallbackInv
<1>2. TypeOK /\ FallbackInv /\ [Next]_vars => FallbackInv'
  <2> SUFFICES ASSUME TypeOK, FallbackInv, [Next]_vars PROVE FallbackInv'
    OBVIOUS
  <2> USE DEF TypeOK, Attempt, FallbackInv
  <2>1. CASE Provide
    BY <2>1 DEF Provide, Finish
  <2>2. CASE CheckIfCancelled
    BY <2>2 DEF CheckIfCancelled, Finish
  <2>3. CASE PreRunHooks
    BY <2>3 DEF PreRunHooks, Finish
  <2>4. CASE StartRun
    BY <2>4 DEF StartRun
  <2>5. CASE RunFails
    BY <2>5 DEF RunFails
  <2>6. CASE RunSucceeds
    BY <2>6 DEF RunSucceeds, Finish
  <2>7. CASE RunCancelled
    BY <2>7 DEF RunCancelled
  <2>8. CASE PostRunHooks
    BY <2>8 DEF PostRunHooks, Finish
  <2>9. CASE Interrupt
    BY <2>9 DEF Interrupt
  <2>10. CASE UNCHANGED runVars
    BY <2>10 DEF runVars
  <2>11. QED
    BY <2>1, <2>2, <2>3, <2>4, <2>5, <2>6, <2>7, <2>8, <2>9, <2>10
       DEF Next, RunStep, Daisy, Watch, Terminating, vars, CancelSend, CancelClose,
           WatchSignal, WatchCancel, WatchWorkflow
<1>3. QED
  BY <1>1, <1>2, TypeCorrect, PTL DEF Spec

\* A second attempt is made only after one with the disks of the workflow as
\* written, and with standard disks.
THEOREM RetryOnlyAsFallback == Spec => []RetryIsFallback
<1>1. TypeOK /\ FallbackInv => RetryIsFallback
  BY DEF TypeOK, FallbackInv, RetryIsFallback, Attempt
<1>2. QED
  BY <1>1, TypeCorrect, FallbackInvariant, PTL

\* Where the reason of Cancel is while the first attempt lasts.
THEOREM ReasonInvariant == Spec => []ReasonInv
<1>1. Init => ReasonInv
  BY DEF Init, ReasonInv, Attempt
<1>2. TypeOK /\ ReasonInv /\ [Next]_vars => ReasonInv'
  <2> SUFFICES ASSUME TypeOK, ReasonInv, [Next]_vars PROVE ReasonInv'
    OBVIOUS
  <2> USE DEF TypeOK, Attempt, ReasonInv, cancelVars, runVars
  <2>1. CASE Provide
    BY <2>1 DEF Provide, Finish
  <2>2. CASE CheckIfCancelled
    BY <2>2 DEF CheckIfCancelled, Finish
  <2>3. CASE PreRunHooks
    BY <2>3 DEF PreRunHooks, Finish
  <2>4. CASE StartRun
    BY <2>4 DEF StartRun
  <2>5. CASE RunFails
    BY <2>5, ErrorsAssumption DEF RunFails
  <2>6. CASE RunSucceeds
    BY <2>6 DEF RunSucceeds, Finish
  <2>7. CASE RunCancelled
    BY <2>7 DEF RunCancelled
  <2>8. CASE PostRunHooks
    BY <2>8 DEF PostRunHooks, Finish
  <2>9. CASE CancelSend
    BY <2>9 DEF CancelSend
  <2>10. CASE CancelClose
    BY <2>10 DEF CancelClose
  <2>11. CASE Interrupt
    BY <2>11 DEF Interrupt
  <2>12. ASSUME NEW a \in Attempt, WatchSignal(a) PROVE ReasonInv'
    BY <2>12 DEF WatchSignal, StopWorkflow
  <2>13. ASSUME NEW a \in Attempt, WatchCancel(a) PROVE ReasonInv'
    BY <2>13 DEF WatchCancel, StopWorkflow
  <2>14. ASSUME NEW a \in Attempt, WatchWorkflow(a) PROVE ReasonInv'
    BY <2>14 DEF WatchWorkflow
  <2>15. CASE UNCHANGED vars
    BY <2>15 DEF vars
  <2>16. QED
    BY <2>1, <2>2, <2>3, <2>4, <2>5, <2>6, <2>7, <2>8, <2>9, <2>10, <2>11,
       <2>12, <2>13, <2>14, <2>15
       DEF Next, RunStep, Daisy, Watch, Terminating
<1>3. QED
  BY <1>1, <1>2, TypeCorrect, PTL DEF Spec

\* In a run of one attempt without Ctrl-C, the goroutine and checkIfCancelled
\* never lose the reason between them.
THEOREM ReasonNotLost == Spec => []ReasonReported
<1>1. TypeOK /\ ReasonInv => ReasonReported
  BY DEF TypeOK, ReasonInv, ReasonReported, Attempt
<1>2. QED
  BY <1>1, TypeCorrect, ReasonInvariant, PTL

(***************************************************************************)
(* The inspection.                                                         *)
(***************************************************************************)

\* DiskInspection runs the worker as it is: with the variables of the worker
\* alone its initial states and its steps are those of DaisyWorker, so that what
\* is proved above holds of every inspection.
THEOREM InspectionRunsWorker == InspectSpec => Spec
<1>1. InspectInit => Init
  BY DEF InspectInit
<1>2. [InspectNext]_<<vars, inspectVars>> => [Next]_vars
  <2> SUFFICES ASSUME InspectNext PROVE [Next]_vars
    OBVIOUS
  <2>1. CASE Prepares
    BY <2>1 DEF Prepares, ProvideWorkflow, Prepare, Next, RunStep
  <2>2. CASE Unprepared
    BY <2>2 DEF Unprepared, Next, RunStep
  <2>3. CASE Interpret
    BY <2>3 DEF Interpret, RunningFailed, DecodingFailed, InterpretingFailed, Inspected, Fail
  <2>4. CASE InspectorSucceeds \/ InspectorFails \/ InspectorCancelled
    BY <2>4 DEF InspectorSucceeds, InspectorFails, InspectorCancelled, Next, RunStep, Daisy
  <2>5. CASE InspectTerminating
    BY <2>5 DEF InspectTerminating
  <2>6. QED
    BY <2>1, <2>2, <2>3, <2>4, <2>5 DEF InspectNext
<1>3. QED
  BY <1>1, <1>2, PTL DEF InspectSpec, Spec

\* An inspection is retried only with standard disks, and reports why it was
\* cancelled.
THEOREM InspectionIsSafe == InspectSpec => [](RetryIsFallback /\ ReasonReported)
BY InspectionRunsWorker, RetryOnlyAsFallback, ReasonNotLost, PTL

(***************************************************************************)
(* The flag of a release is read as the same release.                      *)
(***************************************************************************)

Known == {"centos", "debian", "opensuse", "rhel", "rocky", "sles-sap", "sles", "ubuntu",
          "windows"}

\* A name stands for the first known one that it contains: a known one for itself.
LEMMA StandardName ==
    ASSUME NEW d
    PROVE  /\ standardizeDistro(d) \in Known \cup {"error"}
           /\ standardizeDistro(d) # "error" => ContainsName(d, standardizeDistro(d))
           /\ d \in Known => standardizeDistro(d) = d
<1> DEFINE known == <<"centos", "debian", "opensuse", "rhel", "rocky", "sles-sap",
                      "sles", "ubuntu", "windows">>
           Fits == {i \in 1..9 : ContainsName(d, known[i])}
           first == IF Fits # {} THEN Min(Fits) ELSE 0
<1>1. standardizeDistro(d) = IF first = 0 THEN "error" ELSE known[first]
  BY DEF standardizeDistro, SelectInSeq
<1>2. ASSUME Fits # {}
      PROVE  first \in Fits /\ \A i \in Fits : first <= i
  <2>1. \E i \in Fits : \A j \in Fits : i <= j
    <3>1. ASSUME NEW i \in Fits PROVE i \in 1..9
      OBVIOUS
    <3> HIDE DEF Fits
    <3>2. CASE 1 \in Fits
      BY <3>1, <3>2
    <3>3. CASE 1 \notin Fits
      BY <1>2, <3>1, <3>3
    <3> QED
      BY <3>2, <3>3
  <2> QED
    BY <1>2, <2>1 DEF Min
<1> QED
  BY <1>1, <1>2 DEF ContainsName, Known

\* An architecture stands for itself.
LEMMA StandardArchitecture ==
    ASSUME NEW a
    PROVE  /\ standardizeArchitecture(a) \in {"none", "x86", "x64", "error"}
           /\ a \in {"none", "x86", "x64"} => standardizeArchitecture(a) = a
<1> DEFINE fits == {s \in standardArchitectures : a \in {s[1]} \cup s[2]}
<1>1. /\ \A s \in fits : s[1] \in {"x86", "x64"}
      /\ a = "x86" \/ a = "x64" => fits # {} /\ \A s \in fits : s[1] = a
  <2> DEFINE x86 == <<"x86", {"amd64", "x86_64"}>>
             x64 == <<"x64", {"i386", "i686", "x86_32"}>>
  <2>1. /\ x86[1] = "x86" /\ x86[2] = {"amd64", "x86_64"}
        /\ x64[1] = "x64" /\ x64[2] = {"i386", "i686", "x86_32"}
    OBVIOUS
  <2>2. standardArchitectures = {x86, x64}
    BY DEF standardArchitectures
  <2> HIDE DEF x86, x64
  <2> QED
    BY <2>1, <2>2
<1>2. standardizeArchitecture(a) =
        CASE a = "none" -> "none"
          [] a # "none" /\ fits = {} -> "error"
          [] OTHER -> (CHOOSE s \in fits : TRUE)[1]
  BY DEF standardizeArchitecture
<1> HIDE DEF fits
<1>3. fits # {} => (CHOOSE s \in fits : TRUE) \in fits
  OBVIOUS
<1>4. CASE a = "none"
  BY <1>2, <1>4
<1>5. CASE a # "none" /\ fits = {}
  BY <1>1, <1>2, <1>5
<1>6. CASE a # "none" /\ fits # {}
  <2>1. standardizeArchitecture(a) = (CHOOSE s \in fits : TRUE)[1]
    BY <1>2, <1>6
  <2> QED
    BY <1>1, <1>3, <1>6, <2>1
<1> QED
  BY <1>4, <1>5, <1>6

\* The releases that components make.
WindowsRelease(major, minor, arch) ==
    [distro |-> "windows", major |-> major, minor |-> minor, arch |-> arch]
LinuxRelease(name, major, minor) ==
    [distro |-> name, major |-> major, minor |-> minor, arch |-> "none"]

\* A release has the distribution of its name, its versions as they are, and an
\* architecture on Windows only.
LEMMA ReleaseFact ==
    ASSUME NEW d, NEW major \in Int, NEW minor \in Int, NEW a,
           FromComponents(d, major, minor, a) # NoRelease
    PROVE  \/ /\ major >= 0
              /\ \E arch \in {"none", "x86", "x64"} :
                    FromComponents(d, major, minor, a) = WindowsRelease(major, minor, arch)
           \/ /\ major >= 1
              /\ \E name \in Known \ {"windows"} :
                    /\ FromComponents(d, major, minor, a) = LinuxRelease(name, major, minor)
                    /\ name = "ubuntu" => d = "ubuntu" /\ minor \in {4, 10}
<1> DEFINE arch == standardizeArchitecture(a)
           name == standardizeDistro(d)
           release == FromComponents(d, major, minor, a)
<1>1. /\ arch \in {"none", "x86", "x64", "error"} /\ name \in Known \cup {"error"}
      /\ name # "error" => ContainsName(d, name)
  BY StandardArchitecture, StandardName
<1>2. release =
        CASE "error" \in {arch, name} -> NoRelease
          [] "error" \notin {arch, name} /\ name = "windows" ->
                 newWindowsRelease(major, minor, arch)
          [] OTHER -> newLinuxRelease(name, major, minor)
  BY DEF FromComponents
<1>3. release # NoRelease
  OBVIOUS
<1> HIDE DEF arch, name, release
<1>4. arch # "error" /\ name # "error"
  BY <1>2, <1>3
<1>5. CASE name = "windows"
  <2>1. release = newWindowsRelease(major, minor, arch)
    BY <1>2, <1>4, <1>5
  <2>2. release = WindowsRelease(major, minor, arch) /\ major >= 0
    BY <1>3, <2>1 DEF newWindowsRelease, WindowsRelease
  <2> QED
    BY <1>1, <1>4, <2>2 DEF release
<1>6. CASE name # "windows"
  <2>1. release = newLinuxRelease(name, major, minor)
    BY <1>2, <1>4, <1>6
  <2>2. ~(major < 1 \/ minor < 0 \/ (name = "ubuntu" /\ minor \notin {4, 10}))
    BY <1>3, <2>1 DEF newLinuxRelease
  <2>3. release = LinuxRelease(name, major, minor)
    BY <2>1, <2>2 DEF newLinuxRelease, LinuxRelease
  <2>4. major >= 1 /\ (name = "ubuntu" => minor \in {4, 10})
    BY <2>2
  <2>5. name = "ubuntu" => d = "ubuntu"
    BY <1>1, <1>4 DEF ContainsName
  <2> QED
    BY <1>1, <1>4, <1>6, <2>3, <2>4, <2>5 DEF release
<1> QED
  BY <1>5, <1>6

\* The release of components that are standard already.
LEMMA StandardComponents ==
    ASSUME NEW d \in Known, NEW major \in Int, NEW minor \in Int,
           NEW a \in {"none", "x86", "x64"}
    PROVE  FromComponents(d, major, minor, a) =
                IF d = "windows" THEN newWindowsRelease(major, minor, a)
                                 ELSE newLinuxRelease(d, major, minor)
<1>1. standardizeArchitecture(a) = a /\ standardizeDistro(d) = d
  BY StandardArchitecture, StandardName
<1>2. "error" \notin {a, d}
  BY DEF Known
<1> QED
  BY <1>1, <1>2 DEF FromComponents

\* The flag of Windows tells R2 from the other minor versions, and the architecture
\* of desktops.
LEMMA WindowsReadsBack ==
    ASSUME NEW major \in Nat, NEW minor \in Int, NEW arch \in {"none", "x86", "x64"}
    PROVE  ReadsBack(AsGcloudArg(WindowsRelease(major, minor, arch)),
                     WindowsRelease(major, minor, arch))
<1> DEFINE half == IF minor = R2 THEN R2 ELSE 0
           printed == IF major > 99 THEN "none" ELSE arch
           flag == [distro |-> "windows", version |-> major, minor |-> half, arch |-> printed]
<1>1. half \in Int /\ (half = R2 <=> minor = R2)
  BY DEF R2
<1>7. printed \in {"none", "x86", "x64"}
  OBVIOUS
<1>2. AsGcloudArg(WindowsRelease(major, minor, arch)) = flag
  BY DEF AsGcloudArg, Server, WindowsRelease
<1>3. FromGcloudOSArgument(flag) = WindowsRelease(major, half, printed)
  <2>1. FromGcloudOSArgument(flag) = FromComponents("windows", major, half, printed)
    BY DEF FromGcloudOSArgument
  <2> HIDE DEF half, printed
  <2>2. FromComponents("windows", major, half, printed) = newWindowsRelease(major, half, printed)
    BY <1>1, <1>7, StandardComponents DEF Known
  <2> QED
    BY <2>1, <2>2 DEF newWindowsRelease, WindowsRelease
<1>4. AsGcloudArg(WindowsRelease(major, half, printed)) = flag
  BY <1>1 DEF AsGcloudArg, Server, WindowsRelease
<1>5. ImportCompatible(
          [WindowsRelease(major, half, printed) EXCEPT !.arch =
              IF Server(WindowsRelease(major, half, printed)) THEN arch ELSE @],
          WindowsRelease(major, minor, arch))
  BY <1>1 DEF ImportCompatible, WindowsRelease, Server
<1>6. WindowsRelease(major, minor, arch).arch = arch
  BY DEF WindowsRelease
<1> QED
  BY <1>2, <1>3, <1>4, <1>5, <1>6 DEF ReadsBack

\* The flag of Ubuntu has its major and minor version in four digits.
LEMMA UbuntuReadsBack ==
    ASSUME NEW major \in 10..99, NEW minor \in {4, 10}
    PROVE  ReadsBack(AsGcloudArg(LinuxRelease("ubuntu", major, minor)),
                     LinuxRelease("ubuntu", major, minor))
<1> DEFINE version == 100 * major + minor
           flag == [distro |-> "ubuntu", version |-> version, minor |-> 0, arch |-> "none"]
<1>1. version \in 1000..9999 /\ version \div 100 = major /\ version % 100 = minor
  OBVIOUS
<1>2. AsGcloudArg(LinuxRelease("ubuntu", major, minor)) = flag
  BY DEF AsGcloudArg, Server, LinuxRelease
<1>3. FromGcloudOSArgument(flag) = LinuxRelease("ubuntu", major, minor)
  <2> HIDE DEF version
  <2>1. FromGcloudOSArgument(flag) = FromComponents("ubuntu", major, minor, "none")
    BY <1>1 DEF FromGcloudOSArgument
  <2>2. FromComponents("ubuntu", major, minor, "none") = newLinuxRelease("ubuntu", major, minor)
    BY StandardComponents DEF Known
  <2> QED
    BY <2>1, <2>2 DEF newLinuxRelease, LinuxRelease
<1>4. ImportCompatible(
          [LinuxRelease("ubuntu", major, minor) EXCEPT !.arch =
              IF Server(LinuxRelease("ubuntu", major, minor))
              THEN LinuxRelease("ubuntu", major, minor).arch ELSE @],
          LinuxRelease("ubuntu", major, minor))
  BY DEF ImportCompatible, LinuxRelease, Server
<1> QED
  BY <1>2, <1>3, <1>4 DEF ReadsBack

\* The flag of any other system has its major version only.
LEMMA LinuxReadsBack ==
    ASSUME NEW name \in Known \ {"windows", "ubuntu"}, NEW major \in Int, NEW minor \in Int,
           major >= 1
    PROVE  ReadsBack(AsGcloudArg(LinuxRelease(name, major, minor)),
                     LinuxRelease(name, major, minor))
<1> DEFINE flag == [distro |-> name, version |-> major, minor |-> 0, arch |-> "none"]
<1>1. AsGcloudArg(LinuxRelease(name, major, minor)) = flag
  BY DEF AsGcloudArg, Server, LinuxRelease
<1>2. FromGcloudOSArgument(flag) = LinuxRelease(name, major, 0)
  <2>1. FromGcloudOSArgument(flag) = FromComponents(name, major, 0, "none")
    BY DEF FromGcloudOSArgument
  <2>2. FromComponents(name, major, 0, "none") = newLinuxRelease(name, major, 0)
    BY StandardComponents
  <2> QED
    BY <2>1, <2>2 DEF newLinuxRelease, LinuxRelease
<1>3. AsGcloudArg(LinuxRelease(name, major, 0)) = flag
  BY DEF AsGcloudArg, Server, LinuxRelease
<1>4. ImportCompatible(
          [LinuxRelease(name, major, 0) EXCEPT !.arch =
              IF Server(LinuxRelease(name, major, 0))
              THEN LinuxRelease(name, major, minor).arch ELSE @],
          LinuxRelease(name, major, minor))
  BY DEF ImportCompatible, LinuxRelease, Server
<1> QED
  BY <1>1, <1>2, <1>3, <1>4 DEF ReadsBack

\* The flag of a release is read as that release, whatever it leaves out, but for
\* the three digits of Ubuntu before 10.04.
LEMMA FlagReadsBack ==
    ASSUME NEW d, NEW major \in Int, NEW minor \in Int, NEW a,
           FromComponents(d, major, minor, a) # NoRelease
    PROVE  (d = "ubuntu" => major \in 10..99) =>
                ReadsBack(AsGcloudArg(FromComponents(d, major, minor, a)),
                          FromComponents(d, major, minor, a))
<1>1. ASSUME NEW arch \in {"none", "x86", "x64"}, major >= 0
      PROVE  ReadsBack(AsGcloudArg(WindowsRelease(major, minor, arch)),
                       WindowsRelease(major, minor, arch))
  BY <1>1, WindowsReadsBack
<1>2. ASSUME NEW name \in Known \ {"windows"}, major >= 1,
             name = "ubuntu" => major \in 10..99 /\ minor \in {4, 10}
      PROVE  ReadsBack(AsGcloudArg(LinuxRelease(name, major, minor)),
                       LinuxRelease(name, major, minor))
  BY <1>2, UbuntuReadsBack, LinuxReadsBack
<1> QED
  BY <1>1, <1>2, ReleaseFact

(***************************************************************************)
(* What an inspection returns.                                             *)
(***************************************************************************)

\* What is written is known, and what is decoded has the types of a response.
LEMMA WritableFact ==
    ASSUME NEW s \in Writable, s.written # "garbage"
    PROVE  /\ s.results = NoResults \/ s.results \in Responses
           /\ s.results.errorWhen \in WorkerErrors /\ s.results.cli = <<>>
           /\ s.results = [osCount |-> s.results.osCount, errorWhen |-> s.results.errorWhen,
                           os |-> s.results.os, cli |-> s.results.cli]
<1>1. s.results = NoResults \/ s.results \in Responses
  BY DEF Writable, Nothing, Garbage, Message
<1>2. CASE s.results = NoResults
  BY <1>1, <1>2 DEF NoResults, WorkerErrors
<1>3. CASE s.results \in Responses
  BY <1>1, <1>3, ResponsesAssumption
<1> QED
  BY <1>1, <1>2, <1>3

\* While the inspection goes on, steps of its worker say nothing of its results.
LEMMA StillRunning ==
    ASSUME FoundInv, inspection = "running", serial' \in [Attempt -> Writable],
           UNCHANGED <<inspection, results, metric>>
    PROVE  FoundInv'
BY DEF FoundInv, InspectionSound

\* Once it is over, its worker is too.
LEMMA StaysEnded ==
    ASSUME FoundInv, pc \in {"done", "killed"}, pc' \in {"done", "killed"},
           UNCHANGED <<attempt, result, inspectVars>>
    PROVE  FoundInv'
<1>1. UNCHANGED <<serial, inspection, results, metric>>
  BY DEF inspectVars
<1> QED
  BY <1>1 DEF FoundInv, InspectionSound, Writable

\* The steps of the worker that leave the inspection alone.
LEMMA UnpreparedKeepsFound ==
    ASSUME TypeOK, FoundInv, Unprepared
    PROVE  FoundInv'
<1>1. UNCHANGED <<serial, inspection, results, metric, inspectVars>>
  BY DEF Unprepared, inspectVars
<1>2. CASE inspection = "running"
  BY <1>1, <1>2, StillRunning DEF FoundInv
<1>3. CASE inspection # "running"
  <2>1. pc \in {"done", "killed"}
    BY <1>3 DEF FoundInv
  <2>2. /\ UNCHANGED <<attempt, result>> /\ pc' \in {"done", "killed"}
    BY <2>1 DEF Unprepared, CheckIfCancelled, StartRun, PostRunHooks, CancelSend, CancelClose,
        Interrupt, Watch, WatchSignal, WatchCancel, WatchWorkflow, runVars
  <2> QED
    BY <1>1, <2>1, <2>2, StaysEnded
<1> QED
  BY <1>2, <1>3

\* A failure names its reason, and logs nothing.
LEMMA FailKeepsFound ==
    ASSUME FoundInv, inspection = "running", pc = "done",
           NEW errorWhen \in {"RUNNING_WORKER", "DECODING_WORKER_RESPONSE",
                              "INTERPRETING_INSPECTION_RESULTS"},
           NEW s \in Writable, s.written # "garbage", Fail(errorWhen, s.results)
    PROVE  FoundInv'
<1>1. /\ inspection' = "failed" /\ pc' = "done" /\ serial' = serial /\ metric' = <<>>
      /\ results' = [s.results EXCEPT !.errorWhen = errorWhen]
  BY DEF Fail, vars, runVars, FoundInv
<1>2. results'.errorWhen = errorWhen /\ results'.cli = <<>>
  <2>1. /\ s.results.cli = <<>>
        /\ s.results = [osCount |-> s.results.osCount, errorWhen |-> s.results.errorWhen,
                        os |-> s.results.os, cli |-> s.results.cli]
    BY WritableFact
  <2> QED
    BY <1>1, <2>1
<1>3. InspectionSound'
  BY <1>1, <1>2 DEF InspectionSound
<1> QED
  BY <1>1, <1>2, <1>3 DEF FoundInv

\* What is returned is what was found, with the flag of its release if it has one.
LEMMA InspectedKeepsFound ==
    ASSUME TypeOK, FoundInv, Inspected
    PROVE  FoundInv'
<1> DEFINE found == serial[attempt].results
           release == Release(found.os)
<1>1. /\ pc' = "done" /\ attempt' = attempt /\ result' = "success" /\ result = "success"
      /\ serial' = serial /\ inspection' = "returned" /\ results' = Populate(found)
      /\ metric' = <<results'>> /\ Consistent(found)
  BY DEF Inspected, Decoded, Finished, vars, runVars
<1>2. /\ serial[attempt] \in Writable /\ serial[attempt].written # "garbage"
  BY DEF TypeOK, FoundInv, Inspected, Decoded, Finished
<1>3. /\ found = NoResults \/ found \in Responses
      /\ found.errorWhen \in WorkerErrors /\ found.cli = <<>>
      /\ found = [osCount |-> found.osCount, errorWhen |-> found.errorWhen,
                  os |-> found.os, cli |-> found.cli]
  BY <1>2, WritableFact
<1>4. found.osCount # 1 => found.os = NoOS
  BY <1>1 DEF Consistent
<1> HIDE DEF found
<1>5. CASE found.errorWhen = "NO_ERROR" /\ found.osCount = 1 /\ release # NoRelease
  <2>1. results' = [found EXCEPT !.cli = <<AsGcloudArg(release)>>]
    BY <1>1, <1>5 DEF Populate
  <2>2. /\ results'.cli = <<AsGcloudArg(release)>> /\ results'.errorWhen = "NO_ERROR"
        /\ results'.osCount = 1 /\ results'.os = found.os
        /\ [results' EXCEPT !.cli = <<>>] = found
    BY <1>3, <1>5, <2>1
  <2>3. \/ found.os.distroId = "ubuntu" /\ found.os.major < 10
        \/ ReadsBack(AsGcloudArg(release), release)
    <3>1. /\ found \in Responses /\ found.os # NoOS
      BY <1>1, <1>3, <1>5 DEF Consistent, NoResults
    <3>2. /\ found.os.major \in Int /\ found.os.minor \in Int
          /\ found.os.distroId = "ubuntu" => found.os.major < 100
      BY <3>1, ResponsesAssumption
    <3>3. release = FromComponents(found.os.distroId, found.os.major, found.os.minor,
                                   found.os.architecture)
      BY DEF Release
    <3>4. (found.os.distroId = "ubuntu" => found.os.major \in 10..99) =>
                ReadsBack(AsGcloudArg(release), release)
      BY <1>5, <3>2, <3>3, FlagReadsBack
    <3> QED
      BY <3>2, <3>4
  <2> HIDE DEF release
  <2>4. InspectionSound'
    <3>1. Release(results'.os) = release
      BY <2>2 DEF release
    <3>2. \/ results'.os.distroId = "ubuntu" /\ results'.os.major < 10
          \/ ReadsBack(results'.cli[1], Release(results'.os))
      BY <2>2, <2>3, <3>1
    <3> QED
      BY <1>1, <2>2, <3>2 DEF InspectionSound, found
  <2>5. Len(results'.cli) < 2 /\ Len(metric') < 2
    BY <1>1, <2>2
  <2> QED
    BY <1>1, <2>2, <2>4, <2>5 DEF FoundInv, WorkerErrors
<1>6. CASE ~(found.errorWhen = "NO_ERROR" /\ found.osCount = 1 /\ release # NoRelease)
  <2>1. results' = found
    BY <1>1, <1>6 DEF Populate
  <2>2. [results' EXCEPT !.cli = <<>>] = found
    BY <1>3, <2>1
  <2>3. InspectionSound'
    BY <1>1, <1>3, <1>4, <2>1, <2>2 DEF InspectionSound, found
  <2>4. Len(results'.cli) < 2 /\ Len(metric') < 2
    BY <1>1, <1>3, <2>1
  <2> QED
    BY <1>1, <1>3, <2>1, <2>3, <2>4 DEF FoundInv
<1> QED
  BY <1>5, <1>6

\* An inspection ends once, after its worker, with what its last workflow found.
LEMMA FoundStep ==
    ASSUME TypeOK, FoundInv, [InspectNext]_<<vars, inspectVars>>
    PROVE  FoundInv'
<1>1. CASE Prepares
  <2>1. pc \in {"provide", "prepare"} /\ UNCHANGED <<serial, inspection, results, metric>>
    BY <1>1 DEF Prepares, ProvideWorkflow, Provide, Prepare, PreRunHooks
  <2> QED
    BY <2>1, StillRunning DEF FoundInv
<1>2. CASE InspectorSucceeds \/ InspectorFails \/ InspectorCancelled
  <2>1. /\ pc = "run" /\ UNCHANGED <<inspection, results, metric>>
        /\ \E s \in Writable : serial' = [serial EXCEPT ![attempt] = s]
    BY <1>2, EarlyAssumption DEF InspectorSucceeds, InspectorFails, InspectorCancelled, Written,
        RunSucceeds, RunFails, RunCancelled, Writable
  <2> QED
    BY <2>1, StillRunning DEF FoundInv
<1>3. CASE Unprepared
  BY <1>3, UnpreparedKeepsFound
<1>4. CASE RunningFailed
  <2>1. Nothing \in Writable /\ Nothing.written # "garbage" /\ Nothing.results = NoResults
    BY DEF Writable, Nothing
  <2> QED
    BY <1>4, <2>1, FailKeepsFound DEF RunningFailed
<1>5. CASE DecodingFailed
  <2>1. Nothing \in Writable /\ Nothing.written # "garbage" /\ Nothing.results = NoResults
    BY DEF Writable, Nothing
  <2> QED
    BY <1>5, <2>1, FailKeepsFound DEF DecodingFailed
<1>6. CASE InterpretingFailed
  <2>1. serial[attempt] \in Writable
    BY DEF TypeOK, FoundInv
  <2> QED
    BY <1>6, <2>1, FailKeepsFound DEF InterpretingFailed, Decoded, Finished
<1>7. CASE Inspected
  BY <1>7, InspectedKeepsFound
<1>8. CASE InspectTerminating \/ UNCHANGED <<vars, inspectVars>>
  <2>1. UNCHANGED <<pc, attempt, result, serial, inspection, results, metric>>
    BY <1>8 DEF InspectTerminating, vars, runVars, inspectVars
  <2> QED
    BY <2>1 DEF FoundInv, InspectionSound, Writable
<1> QED
  BY <1>1, <1>2, <1>3, <1>4, <1>5, <1>6, <1>7, <1>8 DEF InspectNext, Interpret

\* An inspection without an error is what a workflow that succeeded has found, and
\* the flag it shows is read as the system that was found; an inspection with an
\* error is not logged.
THEOREM InspectionIsSound == InspectSpec => []InspectionSound
<1>1. InspectInit => FoundInv
  BY DEF InspectInit, FoundInv, InspectionSound, Writable, NoResults, WorkerErrors
<1>2. TypeOK /\ FoundInv /\ [InspectNext]_<<vars, inspectVars>> => FoundInv'
  BY FoundStep
<1>3. FoundInv => InspectionSound
  BY DEF FoundInv
<1> QED
  BY <1>1, <1>2, <1>3, InspectionRunsWorker, TypeCorrect, PTL DEF InspectSpec

(***************************************************************************)
(* The vars of the second attempt are those of the first.                  *)
(***************************************************************************)

IsMap(f) == f = [k \in DOMAIN f |-> f[k]]

\* At most one var takes a value of the environment.
Unique(pattern) == \A j, k \in DOMAIN file.vars \cap pattern : j = k

\* h is g with a value settled and the vars of other patterns as they are.
Settles(h, g, pattern, val) ==
    /\ IsMap(h) /\ Settled(h, pattern, val)
    /\ DOMAIN g \subseteq DOMAIN h
    /\ DOMAIN h \subseteq DOMAIN g \cup (DOMAIN file.vars \cap pattern)
    /\ \A k \in DOMAIN g : k \notin pattern => h[k] = g[k]

\* Backfilling a value settles it, and changes the vars of its pattern only.
LEMMA BackfillSettles ==
    ASSUME NEW g, IsMap(g), NEW pattern, NEW val, Unique(pattern),
           NEW h \in BackfillVar(g, file, pattern, val)
    PROVE  Settles(h, g, pattern, val)
<1> DEFINE missing == {k \in DOMAIN file.vars \cap pattern : k \in DOMAIN g => g[k] = ""}
<1>1. CASE missing = {}
  <2>1. h = g
    BY <1>1 DEF BackfillVar
  <2>2. Settled(g, pattern, val)
    BY <1>1 DEF Settled
  <2> QED
    BY <2>1, <2>2 DEF Settles
<1>2. CASE missing # {}
  <2>1. PICK k \in missing : h = Overlay([x \in {k} |-> val], g)
    BY <1>2 DEF BackfillVar
  <2>2. h = [j \in {k} \cup DOMAIN g |-> IF j \in {k} THEN val ELSE g[j]]
    BY <2>1 DEF Overlay
  <2>3. DOMAIN h = {k} \cup DOMAIN g /\ IsMap(h)
    BY <2>2 DEF IsMap
  <2>4. h[k] = val /\ \A j \in DOMAIN g : j # k => h[j] = g[j]
    BY <2>2
  <2>5. k \in DOMAIN file.vars \cap pattern
    BY <2>1
  <2>6. Settled(h, pattern, val)
    BY <2>3, <2>4, <2>5 DEF Settled, Unique
  <2> QED
    BY <2>3, <2>4, <2>5, <2>6 DEF Settles
<1> QED
  BY <1>1, <1>2

\* A settled value is not backfilled again.
LEMMA BackfillIdle ==
    ASSUME NEW g, IsMap(g), NEW pattern, NEW val, Settled(g, pattern, val)
    PROVE  BackfillVar(g, file, pattern, val) = {g}
<1> DEFINE missing == {k \in DOMAIN file.vars \cap pattern : k \in DOMAIN g => g[k] = ""}
<1>1. CASE missing = {}
  BY <1>1 DEF BackfillVar
<1>2. CASE missing # {}
  <2>1. ASSUME NEW k \in missing PROVE Overlay([x \in {k} |-> val], g) = g
    <3>1. k \in DOMAIN g /\ g[k] = val
      BY <2>1 DEF Settled
    <3>2. Overlay([x \in {k} |-> val], g) =
            [j \in {k} \cup DOMAIN g |-> IF j \in {k} THEN val ELSE g[j]]
      BY DEF Overlay
    <3>3. @ = [j \in DOMAIN g |-> g[j]]
      BY <3>1
    <3> QED
      BY <3>2, <3>3 DEF IsMap
  <2>2. BackfillVar(g, file, pattern, val) = {Overlay([x \in {k} |-> val], g) : k \in missing}
    BY <1>2 DEF BackfillVar
  <2> QED
    BY <1>2, <2>1, <2>2
<1> QED
  BY <1>1, <1>2

\* A value stays settled when the vars of its pattern do.
LEMMA SettledKept ==
    ASSUME NEW g, NEW h, NEW pattern, NEW val, Settled(g, pattern, val),
           DOMAIN g \subseteq DOMAIN h, \A k \in DOMAIN g : k \in pattern => h[k] = g[k]
    PROVE  Settled(h, pattern, val)
BY DEF Settled

\* The vars that the first attempt leaves.
LEMMA BackfillOnce ==
    ASSUME NEW g0, IsMap(g0), Unique(SubnetVars), Unique(NetworkVars), Unique(AccountVars),
           NEW g \in Backfilled(env, g0, file)
    PROVE  /\ IsMap(g) /\ AllSettled(g)
           /\ DOMAIN g \subseteq DOMAIN g0 \cup (DOMAIN file.vars \cap
                    (NetworkVars \cup SubnetVars \cup AccountVars))
<1> DEFINE subnetted == IF env.subnet = "" THEN {g0}
                        ELSE BackfillVar(g0, file, SubnetVars, env.subnet)
           networked == IF env.network = "" /\ env.subnet = "" THEN subnetted
                        ELSE UNION {BackfillVar(s, file, NetworkVars,
                            env.network) : s \in subnetted}
           filled == IF env.account = "" THEN networked
                     ELSE UNION {BackfillVar(n, file, AccountVars, env.account) : n \in networked}
<1>1. /\ \A k \in SubnetVars : k \notin NetworkVars /\ k \notin AccountVars
      /\ \A k \in NetworkVars : k \notin AccountVars
  BY DEF SubnetVars, NetworkVars, AccountVars
<1>2. g \in filled
  BY DEF Backfilled
<1>3. ASSUME NEW s \in subnetted
      PROVE  /\ IsMap(s) /\ (env.subnet # "" => Settled(s, SubnetVars, env.subnet))
             /\ DOMAIN s \subseteq DOMAIN g0 \cup (DOMAIN file.vars \cap SubnetVars)
  <2>1. CASE env.subnet = ""
    BY <1>3, <2>1
  <2>2. CASE env.subnet # ""
    <3>1. s \in BackfillVar(g0, file, SubnetVars, env.subnet)
      BY <1>3, <2>2
    <3>2. Settles(s, g0, SubnetVars, env.subnet)
      BY <3>1, BackfillSettles
    <3> QED
      BY <3>2 DEF Settles
  <2> QED
    BY <2>1, <2>2
<1> HIDE DEF subnetted
<1>4. ASSUME NEW n \in networked
      PROVE  /\ IsMap(n) /\ (env.subnet # "" => Settled(n, SubnetVars, env.subnet))
             /\ env.network # "" \/ env.subnet # "" => Settled(n, NetworkVars, env.network)
             /\ DOMAIN n \subseteq DOMAIN g0 \cup (DOMAIN file.vars \cap (SubnetVars \cup NetworkVars))
  <2>1. CASE env.network = "" /\ env.subnet = ""
    BY <1>3, <1>4, <2>1
  <2>2. CASE ~(env.network = "" /\ env.subnet = "")
    <3>1. PICK s \in subnetted : n \in BackfillVar(s, file, NetworkVars, env.network)
      BY <1>4, <2>2
    <3>2. IsMap(s)
      BY <1>3, <3>1
    <3>3. Settles(n, s, NetworkVars, env.network)
      BY <3>1, <3>2, BackfillSettles
    <3>4. /\ IsMap(n) /\ Settled(n, NetworkVars, env.network) /\ DOMAIN s \subseteq DOMAIN n
          /\ DOMAIN n \subseteq DOMAIN s \cup (DOMAIN file.vars \cap NetworkVars)
          /\ \A k \in DOMAIN s : k \notin NetworkVars => n[k] = s[k]
      BY <3>3 DEF Settles
    <3>5. env.subnet # "" => Settled(n, SubnetVars, env.subnet)
      BY <1>1, <1>3, <3>4, SettledKept
    <3> QED
      BY <1>3, <3>4, <3>5
  <2> QED
    BY <2>1, <2>2
<1> HIDE DEF networked
<1>5. CASE env.account = ""
  BY <1>2, <1>4, <1>5 DEF AllSettled
<1>6. CASE env.account # ""
  <2>1. PICK n \in networked : g \in BackfillVar(n, file, AccountVars, env.account)
    BY <1>2, <1>6
  <2>2. IsMap(n)
    BY <1>4, <2>1
  <2>3. Settles(g, n, AccountVars, env.account)
    BY <2>1, <2>2, BackfillSettles
  <2>4. /\ IsMap(g) /\ Settled(g, AccountVars, env.account) /\ DOMAIN n \subseteq DOMAIN g
        /\ DOMAIN g \subseteq DOMAIN n \cup (DOMAIN file.vars \cap AccountVars)
        /\ \A k \in DOMAIN n : k \notin AccountVars => g[k] = n[k]
    BY <2>3 DEF Settles
  <2>5. /\ env.subnet # "" => Settled(g, SubnetVars, env.subnet)
        /\ env.network # "" \/ env.subnet # "" => Settled(g, NetworkVars, env.network)
    BY <1>1, <1>4, <2>4, SettledKept
  <2> QED
    BY <1>4, <2>4, <2>5 DEF AllSettled
<1> QED
  BY <1>5, <1>6

\* The second attempt leaves them as they are.
LEMMA BackfillTwice ==
    ASSUME NEW g, IsMap(g), AllSettled(g)
    PROVE  Backfilled(env, g, file) = {g}
<1> DEFINE subnetted == IF env.subnet = "" THEN {g}
                        ELSE BackfillVar(g, file, SubnetVars, env.subnet)
           networked == IF env.network = "" /\ env.subnet = "" THEN subnetted
                        ELSE UNION {BackfillVar(s, file, NetworkVars,
                            env.network) : s \in subnetted}
           filled == IF env.account = "" THEN networked
                     ELSE UNION {BackfillVar(n, file, AccountVars, env.account) : n \in networked}
<1>1. subnetted = {g}
  BY BackfillIdle DEF AllSettled
<1> HIDE DEF subnetted
<1>2. networked = {g}
  <2>1. CASE env.network = "" /\ env.subnet = ""
    BY <1>1, <2>1
  <2>2. CASE ~(env.network = "" /\ env.subnet = "")
    <3>1. BackfillVar(g, file, NetworkVars, env.network) = {g}
      BY <2>2, BackfillIdle DEF AllSettled
    <3> QED
      BY <1>1, <2>2, <3>1
  <2> QED
    BY <2>1, <2>2
<1> HIDE DEF networked
<1>3. filled = {g}
  <2>1. CASE env.account = ""
    BY <1>2, <2>1
  <2>2. CASE env.account # ""
    <3>1. BackfillVar(g, file, AccountVars, env.account) = {g}
      BY <2>2, BackfillIdle DEF AllSettled
    <3> QED
      BY <1>2, <2>2, <3>1
  <2> QED
    BY <2>1, <2>2
<1> QED
  BY <1>3 DEF Backfilled, subnetted, networked

(***************************************************************************)
(* The hooks of the second attempt differ from those of the first in the   *)
(* types of the disks.                                                     *)
(***************************************************************************)

\* A hook that replaces some resources leaves the rest of a workflow.
LEMMA WithResourcesFact ==
    ASSUME NEW wf, IsWorkflow(wf), NEW changed, DOMAIN changed \subseteq Kinds
    PROVE  WithResources(wf, changed) =
                [vars |-> wf.vars, settings |-> wf.settings, name |-> wf.name,
                 disabled |-> wf.disabled,
                 resources |-> [k \in Kinds |-> IF k \in DOMAIN changed THEN changed[k]
                                                ELSE wf.resources[k]]]
<1>1. DOMAIN wf.resources = Kinds
  BY DEF IsWorkflow
<1>2. Overlay(changed, wf.resources) =
        [k \in Kinds |-> IF k \in DOMAIN changed THEN changed[k] ELSE wf.resources[k]]
  BY <1>1 DEF Overlay
<1>3. WithResources(wf, changed) = [wf EXCEPT !.resources = Overlay(changed, wf.resources)]
  BY DEF WithResources
<1>4. @ = [vars |-> wf.vars, settings |-> wf.settings, name |-> wf.name,
           disabled |-> wf.disabled, resources |-> Overlay(changed, wf.resources)]
  BY DEF IsWorkflow
<1> QED
  BY <1>2, <1>3, <1>4

IsResource(r) == r = [labels |-> r.labels, location |-> r.location,
                      diskType |-> r.diskType, addresses |-> r.addresses]

\* It makes a workflow if it makes resources.
LEMMA WithResourcesKept ==
    ASSUME NEW wf, IsWorkflow(wf), NEW changed, DOMAIN changed \subseteq Kinds,
           \A k \in DOMAIN changed : IsResource(changed[k])
    PROVE  /\ IsWorkflow(WithResources(wf, changed))
           /\ WithResources(wf, changed).vars = wf.vars
           /\ WithResources(wf, changed).resources =
                [k \in Kinds |-> IF k \in DOMAIN changed THEN changed[k] ELSE wf.resources[k]]
<1> DEFINE new == WithResources(wf, changed)
<1>1. new = [vars |-> wf.vars, settings |-> wf.settings, name |-> wf.name,
             disabled |-> wf.disabled,
             resources |-> [k \in Kinds |-> IF k \in DOMAIN changed THEN changed[k]
                                            ELSE wf.resources[k]]]
  BY WithResourcesFact
<1> HIDE DEF new
<1>2. /\ new.vars = wf.vars
      /\ new.resources = [k \in Kinds |-> IF k \in DOMAIN changed THEN changed[k]
                                          ELSE wf.resources[k]]
      /\ new = [vars |-> new.vars, settings |-> new.settings, name |-> new.name,
                disabled |-> new.disabled, resources |-> new.resources]
  BY <1>1
<1>3. ASSUME NEW k \in Kinds PROVE IsResource(new.resources[k])
  <2>1. IsResource(wf.resources[k])
    BY DEF IsWorkflow, IsResource
  <2> QED
    BY <1>2, <2>1
<1>4. IsWorkflow(new)
  BY <1>2, <1>3 DEF IsWorkflow, IsResource
<1> QED
  BY <1>2, <1>4 DEF new

\* Each resource of a workflow.
LEMMA ResourceFact ==
    ASSUME NEW wf, IsWorkflow(wf), NEW k \in Kinds
    PROVE  IsResource(wf.resources[k])
BY DEF IsWorkflow, IsResource

\* A resource with other labels and another location.
LEMMA Relabelled ==
    ASSUME NEW r, IsResource(r), NEW l, NEW p
    PROVE  [[r EXCEPT !.labels = l] EXCEPT !.location = p] =
                [labels |-> l, location |-> p, diskType |-> r.diskType, addresses |-> r.addresses]
<1> DEFINE x == [r EXCEPT !.labels = l]
<1>1. x = [labels |-> l, location |-> r.location, diskType |-> r.diskType,
           addresses |-> r.addresses]
  BY DEF IsResource
<1> HIDE DEF x
<1>2. /\ x = [labels |-> x.labels, location |-> x.location, diskType |-> x.diskType,
              addresses |-> x.addresses]
      /\ x.labels = l /\ x.diskType = r.diskType /\ x.addresses = r.addresses
  BY <1>1
<1>3. [x EXCEPT !.location = p] =
        [labels |-> x.labels, location |-> p, diskType |-> x.diskType, addresses |-> x.addresses]
  BY <1>2
<1>4. @ = [labels |-> l, location |-> p, diskType |-> r.diskType, addresses |-> r.addresses]
  BY <1>2
<1> QED
  BY <1>3, <1>4 DEF x

\* What the hooks that every attempt applies keep.
Keeps(new, wf) ==
    /\ IsWorkflow(new) /\ new.vars = wf.vars
    /\ \A k \in Kinds : new.resources[k].diskType = wf.resources[k].diskType

LEMMA LabelKeeps ==
    ASSUME NEW e, NEW wf, IsWorkflow(wf)
    PROVE  Keeps(LabelResources(e, wf), wf)
<1> DEFINE labels == Overlay(e.labels, "tool-tmp" :> "true" @@ "tool-build-id" :> e.id)
           location(k) == IF k = "image" /\ e.location # "" THEN e.location
                                                            ELSE wf.resources[k].location
           labelled(r) == [r EXCEPT !.labels = Overlay(labels, @)]
           changed == [k \in Kinds \ {"imageBeta"} |->
                        [labelled(wf.resources[k]) EXCEPT !.location = location(k)]]
<1>1. LabelResources(e, wf) = WithResources(wf, changed)
  BY DEF LabelResources
<1> HIDE DEF labels, location
<1>2. ASSUME NEW k \in DOMAIN changed
      PROVE  IsResource(changed[k]) /\ changed[k].diskType = wf.resources[k].diskType
  <2>1. IsResource(wf.resources[k])
    BY <1>2, ResourceFact
  <2>2. changed[k] = [[wf.resources[k] EXCEPT !.labels = Overlay(labels, wf.resources[k].labels)]
                        EXCEPT !.location = location(k)]
    BY <1>2
  <2>3. @ = [labels |-> Overlay(labels, wf.resources[k].labels), location |-> location(k),
             diskType |-> wf.resources[k].diskType, addresses |-> wf.resources[k].addresses]
    BY <2>1, Relabelled
  <2> QED
    BY <2>2, <2>3 DEF IsResource
<1>3. DOMAIN changed \subseteq Kinds
  OBVIOUS
<1> HIDE DEF changed
<1>4. /\ IsWorkflow(WithResources(wf, changed)) /\ WithResources(wf, changed).vars = wf.vars
      /\ WithResources(wf, changed).resources =
            [k \in Kinds |-> IF k \in DOMAIN changed THEN changed[k] ELSE wf.resources[k]]
  BY <1>2, <1>3, WithResourcesKept
<1> QED
  BY <1>1, <1>2, <1>4 DEF Keeps

LEMMA ConfigureKeeps ==
    ASSUME NEW e, NEW wf, IsWorkflow(wf)
    PROVE  Keeps(ConfigureDaisyLogging(e, ApplyEnvToWorkflow(e, wf)), wf)
<1>1. wf = [vars |-> wf.vars, settings |-> wf.settings, name |-> wf.name,
            disabled |-> wf.disabled, resources |-> wf.resources]
  BY DEF IsWorkflow
<1>2. PICK s : ApplyEnvToWorkflow(e, wf) = [wf EXCEPT !.settings = s]
  BY DEF ApplyEnvToWorkflow
<1>3. ApplyEnvToWorkflow(e, wf) =
        [vars |-> wf.vars, settings |-> s, name |-> wf.name,
         disabled |-> wf.disabled, resources |-> wf.resources]
  BY <1>1, <1>2
<1> DEFINE new == [vars |-> wf.vars, settings |-> s, name |-> wf.name,
                   disabled |-> wf.disabled, resources |-> wf.resources]
           n == IF e.prefix = "" THEN new.name ELSE e.prefix
           d == new.disabled \cup e.disabled
<1>4. ConfigureDaisyLogging(e, new) =
        [vars |-> wf.vars, settings |-> s, name |-> n, disabled |-> d, resources |-> wf.resources]
  <2>1. ConfigureDaisyLogging(e, new) = [new EXCEPT !.name = n, !.disabled = d]
    BY DEF ConfigureDaisyLogging
  <2> HIDE DEF n, d
  <2> QED
    BY <2>1
<1> HIDE DEF new
<1> DEFINE hooked == ConfigureDaisyLogging(e, new)
<1> HIDE DEF hooked
<1>5. Keeps(ConfigureDaisyLogging(e, new), wf)
  <2>1. hooked = [vars |-> wf.vars, settings |-> s, name |-> n, disabled |-> d,
                  resources |-> wf.resources]
    BY <1>4 DEF hooked
  <2> HIDE DEF n, d
  <2>2. hooked.vars = wf.vars /\ hooked.resources = wf.resources
    BY <2>1
  <2>3. hooked = [vars |-> hooked.vars, settings |-> hooked.settings, name |-> hooked.name,
                  disabled |-> hooked.disabled, resources |-> hooked.resources]
    BY <2>1
  <2>4. IsWorkflow(hooked)
    BY <2>2, <2>3 DEF IsWorkflow
  <2> QED
    BY <2>2, <2>4 DEF Keeps, hooked
<1> QED
  BY <1>3, <1>5 DEF new

LEMMA RemoveKeeps ==
    ASSUME NEW wf, IsWorkflow(wf)
    PROVE  /\ Keeps(RemoveExternalIP(wf), wf)
           /\ RemoveExternalIP(wf).resources =
                [k \in Kinds |-> IF k \in {"instance", "instanceBeta"}
                                 THEN [wf.resources[k] EXCEPT !.addresses = {}]
                                 ELSE wf.resources[k]]
<1> DEFINE changed == [k \in {"instance", "instanceBeta"} |->
                        [wf.resources[k] EXCEPT !.addresses = {}]]
<1>1. RemoveExternalIP(wf) = WithResources(wf, changed)
  BY DEF RemoveExternalIP
<1>2. DOMAIN changed \subseteq Kinds
  BY DEF Kinds
<1>3. ASSUME NEW k \in DOMAIN changed
      PROVE  IsResource(changed[k]) /\ changed[k].diskType = wf.resources[k].diskType
  <2>1. IsResource(wf.resources[k])
    BY <1>2, <1>3, ResourceFact
  <2>2. changed[k] = [wf.resources[k] EXCEPT !.addresses = {}]
    BY <1>3
  <2>3. @ = [labels |-> wf.resources[k].labels, location |-> wf.resources[k].location,
             diskType |-> wf.resources[k].diskType, addresses |-> {}]
    BY <2>1 DEF IsResource
  <2> QED
    BY <2>2, <2>3 DEF IsResource
<1>4. /\ IsWorkflow(WithResources(wf, changed)) /\ WithResources(wf, changed).vars = wf.vars
      /\ WithResources(wf, changed).resources =
            [k \in Kinds |-> IF k \in DOMAIN changed THEN changed[k] ELSE wf.resources[k]]
  <2> HIDE DEF changed
  <2> QED
    BY <1>2, <1>3, WithResourcesKept
<1>5. /\ DOMAIN changed = {"instance", "instanceBeta"}
      /\ \A k \in DOMAIN changed : changed[k] = [wf.resources[k] EXCEPT !.addresses = {}]
  OBVIOUS
<1> HIDE DEF changed
<1> QED
  BY <1>1, <1>3, <1>4, <1>5 DEF Keeps

LEMMA StandardDisks ==
    ASSUME NEW wf, IsWorkflow(wf)
    PROVE  /\ IsWorkflow(UseStandardDisks(wf)) /\ UseStandardDisks(wf).vars = wf.vars
           /\ UseStandardDisks(wf) =
                [vars |-> wf.vars, settings |-> wf.settings, name |-> wf.name,
                 disabled |-> wf.disabled,
                 resources |-> [k \in Kinds |->
                        IF k \in {"disk", "instance"}
                        THEN [wf.resources[k] EXCEPT !.diskType = "pd-standard"]
                        ELSE wf.resources[k]]]
<1> DEFINE changed == [k \in {"disk", "instance"} |->
                        [wf.resources[k] EXCEPT !.diskType = "pd-standard"]]
<1>1. UseStandardDisks(wf) = WithResources(wf, changed)
  BY DEF UseStandardDisks
<1>2. DOMAIN changed \subseteq Kinds
  BY DEF Kinds
<1>3. ASSUME NEW k \in DOMAIN changed PROVE IsResource(changed[k])
  <2>1. IsResource(wf.resources[k])
    BY <1>2, <1>3, ResourceFact
  <2>2. changed[k] = [wf.resources[k] EXCEPT !.diskType = "pd-standard"]
    BY <1>3
  <2>3. @ = [labels |-> wf.resources[k].labels, location |-> wf.resources[k].location,
             diskType |-> "pd-standard", addresses |-> wf.resources[k].addresses]
    BY <2>1 DEF IsResource
  <2> QED
    BY <2>2, <2>3 DEF IsResource
<1>4. /\ IsWorkflow(WithResources(wf, changed)) /\ WithResources(wf, changed).vars = wf.vars
  <2> HIDE DEF changed
  <2> QED
    BY <1>2, <1>3, WithResourcesKept
<1>5. WithResources(wf, changed) =
                [vars |-> wf.vars, settings |-> wf.settings, name |-> wf.name,
                 disabled |-> wf.disabled,
                 resources |-> [k \in Kinds |-> IF k \in DOMAIN changed THEN changed[k]
                                                ELSE wf.resources[k]]]
  <2> HIDE DEF changed
  <2> QED
    BY <1>2, WithResourcesFact
<1>6. /\ DOMAIN changed = {"disk", "instance"}
      /\ \A k \in DOMAIN changed : changed[k] = [wf.resources[k] EXCEPT !.diskType = "pd-standard"]
  OBVIOUS
<1> HIDE DEF changed
<1> QED
  BY <1>1, <1>4, <1>5, <1>6

\* What two workflows that differ in the types of their disks have in common.
Alike(v, w) ==
    /\ v.vars = w.vars /\ v.settings = w.settings /\ v.name = w.name /\ v.disabled = w.disabled
    /\ \A k \in Kinds :
        /\ v.resources[k].labels = w.resources[k].labels
        /\ v.resources[k].location = w.resources[k].location
        /\ v.resources[k].addresses = w.resources[k].addresses

LEMMA ButDisksFact ==
    ASSUME NEW wf, IsWorkflow(wf)
    PROVE  ButDisks(wf) =
                [vars |-> wf.vars, settings |-> wf.settings, name |-> wf.name,
                 disabled |-> wf.disabled,
                 resources |-> [k \in Kinds |->
                        [labels |-> wf.resources[k].labels, location |-> wf.resources[k].location,
                         diskType |-> "any", addresses |-> wf.resources[k].addresses]]]
<1> DEFINE changed == [k \in Kinds |-> [wf.resources[k] EXCEPT !.diskType = "any"]]
<1>1. ButDisks(wf) = WithResources(wf, changed)
  BY DEF ButDisks
<1>2. DOMAIN changed = Kinds
  OBVIOUS
<1>3. \A k \in Kinds : changed[k] = [wf.resources[k] EXCEPT !.diskType = "any"]
  OBVIOUS
<1> HIDE DEF changed
<1>4. ASSUME NEW k \in Kinds
      PROVE  changed[k] = [labels |-> wf.resources[k].labels,
                           location |-> wf.resources[k].location,
                           diskType |-> "any", addresses |-> wf.resources[k].addresses]
  <2>1. IsResource(wf.resources[k])
    BY ResourceFact
  <2>2. [wf.resources[k] EXCEPT !.diskType = "any"] =
          [labels |-> wf.resources[k].labels, location |-> wf.resources[k].location,
           diskType |-> "any", addresses |-> wf.resources[k].addresses]
    BY <2>1 DEF IsResource
  <2> QED
    BY <1>3, <2>2
<1>5. WithResources(wf, changed) =
                [vars |-> wf.vars, settings |-> wf.settings, name |-> wf.name,
                 disabled |-> wf.disabled,
                 resources |-> [k \in Kinds |-> IF k \in DOMAIN changed THEN changed[k]
                                                ELSE wf.resources[k]]]
  BY <1>2, WithResourcesFact
<1>6. [k \in Kinds |-> IF k \in DOMAIN changed THEN changed[k] ELSE wf.resources[k]] =
            [k \in Kinds |->
                [labels |-> wf.resources[k].labels, location |-> wf.resources[k].location,
                 diskType |-> "any", addresses |-> wf.resources[k].addresses]]
  BY <1>2, <1>4
<1> QED
  BY <1>1, <1>5, <1>6

LEMMA SameButDisks ==
    ASSUME NEW v, NEW w, IsWorkflow(v), IsWorkflow(w), Alike(v, w)
    PROVE  ButDisks(v) = ButDisks(w)
<1>1. [k \in Kinds |->
            [labels |-> v.resources[k].labels, location |-> v.resources[k].location,
             diskType |-> "any", addresses |-> v.resources[k].addresses]] =
      [k \in Kinds |->
            [labels |-> w.resources[k].labels, location |-> w.resources[k].location,
             diskType |-> "any", addresses |-> w.resources[k].addresses]]
  BY DEF Alike
<1>2. /\ v.vars = w.vars /\ v.settings = w.settings /\ v.name = w.name
      /\ v.disabled = w.disabled
  BY DEF Alike
<1> QED
  BY <1>1, <1>2, ButDisksFact

\* Standard disks leave the rest of the workflow.
LEMMA StandardAlike ==
    ASSUME NEW wf, IsWorkflow(wf)
    PROVE  /\ Alike(UseStandardDisks(wf), wf)
           /\ \A k \in {"disk", "instance"} :
                UseStandardDisks(wf).resources[k].diskType = "pd-standard"
<1> DEFINE new == UseStandardDisks(wf)
           rs == [k \in Kinds |-> IF k \in {"disk", "instance"}
                                  THEN [wf.resources[k] EXCEPT !.diskType = "pd-standard"]
                                  ELSE wf.resources[k]]
<1>1. new = [vars |-> wf.vars, settings |-> wf.settings, name |-> wf.name,
             disabled |-> wf.disabled, resources |-> rs]
  BY StandardDisks
<1>2. \A k \in Kinds : rs[k] = IF k \in {"disk", "instance"}
                               THEN [wf.resources[k] EXCEPT !.diskType = "pd-standard"]
                               ELSE wf.resources[k]
  OBVIOUS
<1> HIDE DEF new, rs
<1>3. /\ new.vars = wf.vars /\ new.settings = wf.settings /\ new.name = wf.name
      /\ new.disabled = wf.disabled /\ new.resources = rs
  BY <1>1
<1>4. ASSUME NEW k \in Kinds
      PROVE  /\ rs[k].labels = wf.resources[k].labels
             /\ rs[k].location = wf.resources[k].location
             /\ rs[k].addresses = wf.resources[k].addresses
             /\ k \in {"disk", "instance"} => rs[k].diskType = "pd-standard"
  <2>1. CASE k \in {"disk", "instance"}
    <3>1. rs[k] = [wf.resources[k] EXCEPT !.diskType = "pd-standard"]
      BY <1>2, <2>1
    <3>2. IsResource(wf.resources[k])
      BY ResourceFact
    <3>3. [wf.resources[k] EXCEPT !.diskType = "pd-standard"] =
            [labels |-> wf.resources[k].labels, location |-> wf.resources[k].location,
             diskType |-> "pd-standard", addresses |-> wf.resources[k].addresses]
      BY <3>2 DEF IsResource
    <3> QED
      BY <3>1, <3>3
  <2>2. CASE k \notin {"disk", "instance"}
    BY <1>2, <2>2
  <2> QED
    BY <2>1, <2>2
<1>5. {"disk", "instance"} \subseteq Kinds
  BY DEF Kinds
<1> QED
  BY <1>3, <1>4, <1>5 DEF Alike, new

\* Workflows that differ in their disks still do without their addresses.
LEMMA RemoveAlike ==
    ASSUME NEW v, NEW w, IsWorkflow(v), IsWorkflow(w), Alike(v, w)
    PROVE  Alike(RemoveExternalIP(v), RemoveExternalIP(w))
<1>1. ASSUME NEW u, IsWorkflow(u)
      PROVE  /\ RemoveExternalIP(u).settings = u.settings
             /\ RemoveExternalIP(u).name = u.name
             /\ RemoveExternalIP(u).disabled = u.disabled
             /\ \A k \in Kinds :
                /\ RemoveExternalIP(u).resources[k].labels = u.resources[k].labels
                /\ RemoveExternalIP(u).resources[k].location = u.resources[k].location
                /\ RemoveExternalIP(u).resources[k].addresses =
                    IF k \in {"instance", "instanceBeta"} THEN {} ELSE u.resources[k].addresses
  <2> DEFINE changed == [k \in {"instance", "instanceBeta"} |->
                            [u.resources[k] EXCEPT !.addresses = {}]]
             new == RemoveExternalIP(u)
  <2>1. new = WithResources(u, changed)
    BY DEF RemoveExternalIP
  <2>2. DOMAIN changed \subseteq Kinds
    BY DEF Kinds
  <2> HIDE DEF changed, new
  <2>3. new = [vars |-> u.vars, settings |-> u.settings, name |-> u.name,
               disabled |-> u.disabled,
               resources |-> [k \in Kinds |-> IF k \in DOMAIN changed THEN changed[k]
                                              ELSE u.resources[k]]]
    BY <1>1, <2>1, <2>2, WithResourcesFact
  <2>4. new.settings = u.settings /\ new.name = u.name /\ new.disabled = u.disabled
    BY <2>3
  <2>5. ASSUME NEW k \in Kinds
        PROVE  /\ new.resources[k].labels = u.resources[k].labels
               /\ new.resources[k].location = u.resources[k].location
               /\ new.resources[k].addresses =
                    IF k \in {"instance", "instanceBeta"} THEN {} ELSE u.resources[k].addresses
    <3>1. new.resources[k] = IF k \in {"instance", "instanceBeta"}
                             THEN [u.resources[k] EXCEPT !.addresses = {}]
                             ELSE u.resources[k]
      BY <1>1, RemoveKeeps DEF new
    <3>2. [u.resources[k] EXCEPT !.addresses = {}] =
            [labels |-> u.resources[k].labels, location |-> u.resources[k].location,
             diskType |-> u.resources[k].diskType, addresses |-> {}]
      <4>1. IsResource(u.resources[k])
        BY <1>1, ResourceFact
      <4> QED
        BY <4>1 DEF IsResource
    <3>3. CASE k \in {"instance", "instanceBeta"}
      BY <3>1, <3>2, <3>3
    <3>4. CASE k \notin {"instance", "instanceBeta"}
      BY <3>1, <3>4
    <3> QED
      BY <3>3, <3>4
  <2> QED
    BY <2>4, <2>5 DEF new
<1>2. RemoveExternalIP(v).vars = v.vars /\ RemoveExternalIP(w).vars = w.vars
  BY RemoveKeeps DEF Keeps
<1>3. ASSUME NEW k \in Kinds
      PROVE  /\ RemoveExternalIP(v).resources[k].labels = RemoveExternalIP(w).resources[k].labels
             /\ RemoveExternalIP(v).resources[k].location =
                    RemoveExternalIP(w).resources[k].location
             /\ RemoveExternalIP(v).resources[k].addresses =
                    RemoveExternalIP(w).resources[k].addresses
  <2>1. /\ v.resources[k].labels = w.resources[k].labels
        /\ v.resources[k].location = w.resources[k].location
        /\ v.resources[k].addresses = w.resources[k].addresses
    BY DEF Alike
  <2> QED
    BY <1>1, <2>1
<1>4. /\ v.vars = w.vars /\ v.settings = w.settings /\ v.name = w.name
      /\ v.disabled = w.disabled
  BY DEF Alike
<1> QED
  BY <1>1, <1>2, <1>3, <1>4 DEF Alike

\* The workflow that each attempt runs: its vars are those it was prepared with; the
\* first attempt keeps the disks of the file, the second one has standard ones and
\* nothing else of its own.
LEMMA HookedFact ==
    ASSUME NEW e, NEW wf, IsWorkflow(wf)
    PROVE  /\ Keeps(Hooked(e, FALSE, wf), wf)
           /\ IsWorkflow(Hooked(e, TRUE, wf)) /\ Hooked(e, TRUE, wf).vars = wf.vars
           /\ \A k \in {"disk", "instance"} :
                Hooked(e, TRUE, wf).resources[k].diskType = "pd-standard"
           /\ ButDisks(Hooked(e, TRUE, wf)) = ButDisks(Hooked(e, FALSE, wf))
<1> DEFINE labelled == LabelResources(e, wf)
           c == ConfigureDaisyLogging(e, ApplyEnvToWorkflow(e, labelled))
           s == UseStandardDisks(c)
<1>1. Keeps(labelled, wf)
  BY LabelKeeps
<1>2. Keeps(c, labelled)
  <2>1. IsWorkflow(labelled)
    BY <1>1 DEF Keeps
  <2> HIDE DEF labelled
  <2> QED
    BY <2>1, ConfigureKeeps
<1>3. /\ Hooked(e, FALSE, wf) = IF e.noExternalIP THEN RemoveExternalIP(c) ELSE c
      /\ Hooked(e, TRUE, wf) = IF e.noExternalIP THEN RemoveExternalIP(s) ELSE s
  BY DEF Hooked
<1> HIDE DEF labelled, c
<1>4. Keeps(c, wf) /\ IsWorkflow(c)
  BY <1>1, <1>2 DEF Keeps
<1>5. IsWorkflow(s) /\ s.vars = c.vars
  BY <1>4, StandardDisks
<1>6. Alike(s, c) /\ \A k \in {"disk", "instance"} : s.resources[k].diskType = "pd-standard"
  BY <1>4, StandardAlike
<1> HIDE DEF s
<1>7. Keeps(RemoveExternalIP(c), c) /\ Keeps(RemoveExternalIP(s), s)
  BY <1>4, <1>5, RemoveKeeps
<1>8. CASE e.noExternalIP
  <2>1. Keeps(RemoveExternalIP(c), wf)
    BY <1>4, <1>7 DEF Keeps
  <2>2. /\ IsWorkflow(RemoveExternalIP(s)) /\ RemoveExternalIP(s).vars = wf.vars
        /\ \A k \in {"disk", "instance"} :
            RemoveExternalIP(s).resources[k].diskType = "pd-standard"
    BY <1>4, <1>5, <1>6, <1>7 DEF Keeps, Kinds
  <2>3. ButDisks(RemoveExternalIP(s)) = ButDisks(RemoveExternalIP(c))
    BY <1>4, <1>5, <1>6, <2>1, <2>2, RemoveAlike, SameButDisks DEF Keeps
  <2> QED
    BY <1>3, <1>8, <2>1, <2>2, <2>3
<1>9. CASE ~e.noExternalIP
  <2>1. ButDisks(s) = ButDisks(c)
    BY <1>4, <1>5, <1>6, SameButDisks
  <2>2. s.vars = wf.vars
    BY <1>4, <1>5 DEF Keeps
  <2> QED
    BY <1>3, <1>4, <1>5, <1>6, <1>9, <2>1, <2>2
<1> QED
  BY <1>8, <1>9

\* The vars that a workflow gets.
LEMMA ApplyFact ==
    ASSUME NEW g, NEW wf, IsWorkflow(wf), VarsKnown(g, wf)
    PROVE  /\ IsWorkflow(ApplyVars(g, wf)) /\ ApplyVars(g, wf).resources = wf.resources
           /\ DOMAIN ApplyVars(g, wf).vars = DOMAIN wf.vars
<1> DEFINE new == ApplyVars(g, wf)
           o == Overlay(g, wf.vars)
<1>1. DOMAIN o = DOMAIN wf.vars
  BY DEF Overlay, VarsKnown
<1>2. new = [wf EXCEPT !.vars = o]
  BY DEF ApplyVars
<1> HIDE DEF o
<1>3. [wf EXCEPT !.vars = o] =
        [vars |-> o, settings |-> wf.settings, name |-> wf.name,
         disabled |-> wf.disabled, resources |-> wf.resources]
  BY DEF IsWorkflow
<1> HIDE DEF new
<1>4. new = [vars |-> o, settings |-> wf.settings, name |-> wf.name,
             disabled |-> wf.disabled, resources |-> wf.resources]
  BY <1>2, <1>3
<1>5. /\ new = [vars |-> new.vars, settings |-> new.settings, name |-> new.name,
                disabled |-> new.disabled, resources |-> new.resources]
      /\ new.vars = o /\ new.resources = wf.resources
  BY <1>4
<1>6. IsWorkflow(new)
  BY <1>5 DEF IsWorkflow
<1> QED
  BY <1>1, <1>5, <1>6 DEF new

\* What CasesAssumption says of the inputs.
LEMMA InputFact ==
    ASSUME [file |-> file, env |-> env] \in Cases
    PROVE  IsWorkflow(file) /\ Unique(SubnetVars) /\ Unique(NetworkVars) /\ Unique(AccountVars)
<1> DEFINE c == [file |-> file, env |-> env]
<1>1. c.file = file
  OBVIOUS
<1> HIDE DEF c
<1>2. \A v \in {NetworkVars, SubnetVars, AccountVars} :
        \A j, k \in DOMAIN c.file.vars \cap v : j = k
  BY CasesAssumption DEF c
<1>3. IsWorkflow(c.file)
  BY CasesAssumption DEF c
<1> QED
  BY <1>1, <1>2, <1>3 DEF Unique

\* An attempt stays prepared.
LEMMA PreparedKept ==
    ASSUME NEW a \in Attempt, UNCHANGED <<file, env, given>>, workflow'[a] = workflow[a]
    PROVE  Prepared(a)' <=> Prepared(a)
BY DEF Prepared, AllSettled, Settled, VarsKnown, ApplyVars

\* The steps that leave the workflows.
LEMMA WorkflowKept ==
    ASSUME TypeOK, WorkflowInv, UNCHANGED <<file, env, given, workflow>>,
           \/ /\ attempt' = attempt
              /\ \/ pc' = pc \/ pc' \in {"done", "killed"}
                 \/ pc = "check" /\ pc' = "prepare"
                 \/ pc \in {"start", "run"} /\ pc' \in {"run", "post"}
           \/ pc = "post" /\ pc' = "provide" /\ attempt = 0 /\ attempt' = 1
    PROVE  WorkflowInv'
<1>1. \A a \in Attempt : Prepared(a)' <=> Prepared(a)
  BY PreparedKept
<1>2. attempt \in Attempt /\ 0 \in Attempt
  BY DEF TypeOK, Attempt
<1>3. /\ \A a \in Attempt : workflow'[a] = file' \/ Prepared(a)'
      /\ [file |-> file', env |-> env'] \in Cases
      /\ given' = [k \in DOMAIN given' |-> given'[k]]
      /\ DOMAIN given' \subseteq {"pd_uri"} \cup NetworkVars \cup SubnetVars \cup AccountVars
      /\ DOMAIN workflow' = Attempt
  BY <1>1 DEF WorkflowInv
<1>4. /\ attempt' = 0 => workflow'[1] = file'
      /\ attempt' = 0 /\ pc' \in {"provide", "check", "prepare"} => workflow'[0] = file'
      /\ pc' \in {"check", "prepare"} => workflow'[attempt'] = file'
  BY DEF WorkflowInv
<1>5. attempt' = 1 => Prepared(0)'
  BY <1>1, <1>2 DEF WorkflowInv
<1>6. pc' \in {"start", "run", "post"} => Prepared(attempt)'
  <2> SUFFICES ASSUME pc' \in {"start", "run", "post"} PROVE Prepared(attempt)'
    OBVIOUS
  <2>1. pc \in {"start", "run", "post"} /\ attempt' = attempt
    OBVIOUS
  <2>2. Prepared(attempt)
    BY <2>1 DEF WorkflowInv
  <2> QED
    BY <2>1, <2>2 DEF Prepared, AllSettled, Settled, VarsKnown, ApplyVars
<1> QED
  BY <1>3, <1>4, <1>5, <1>6 DEF WorkflowInv

LEMMA ProvideKeepsWorkflow ==
    ASSUME TypeOK, WorkflowInv, ProvideWorkflow
    PROVE  WorkflowInv'
<1>1. /\ pc = "provide" /\ pc' \in {"check", "done"} /\ UNCHANGED <<file, env, given, attempt>>
      /\ workflow' = [workflow EXCEPT ![attempt] = file]
  BY DEF ProvideWorkflow, Provide, Finish, inputs
<1>2. attempt \in {0, 1} /\ DOMAIN workflow = {0, 1}
  BY DEF TypeOK, WorkflowInv, Attempt
<1>3. workflow'[attempt] = file /\ \A a \in Attempt : a # attempt => workflow'[a] = workflow[a]
  BY <1>1, <1>2 DEF Attempt
<1>4. ASSUME NEW a \in Attempt, a # attempt PROVE Prepared(a)' <=> Prepared(a)
  BY <1>1, <1>3, <1>4, PreparedKept
<1>5. \A a \in Attempt : workflow'[a] = file' \/ Prepared(a)'
  BY <1>1, <1>3, <1>4 DEF WorkflowInv
<1>6. attempt' = 1 => Prepared(0)'
  BY <1>1, <1>4 DEF WorkflowInv, Attempt
<1>7. DOMAIN workflow' = Attempt
  BY <1>1 DEF WorkflowInv
<1> QED
  BY <1>1, <1>2, <1>3, <1>5, <1>6, <1>7 DEF WorkflowInv, Attempt

LEMMA PrepareKeepsWorkflow ==
    ASSUME TypeOK, FallbackInv, WorkflowInv, Prepare
    PROVE  WorkflowInv'
<1> DEFINE new == Hooked(env, fallback, ApplyVars(given', file))
<1>1. /\ pc = "prepare" /\ pc' \in {"start", "done"} /\ UNCHANGED <<file, env, attempt>>
      /\ workflow[attempt] = file
  BY DEF Prepare, PreRunHooks, Finish, inputs, WorkflowInv
<1>2. /\ given' \in Backfilled(env, given, file)
      /\ pc' = "start" <=> VarsKnown(given', file)
  BY <1>1 DEF Prepare
<1>3. attempt \in {0, 1} /\ DOMAIN workflow = {0, 1}
  BY DEF TypeOK, WorkflowInv, Attempt
<1>4. fallback = (attempt = 1)
  BY <1>1, <1>3 DEF FallbackInv, TypeOK
<1>5. /\ workflow'[attempt] = IF pc' = "done" THEN file ELSE new
      /\ \A a \in Attempt : a # attempt => workflow'[a] = workflow[a]
      /\ DOMAIN workflow' = Attempt
  <2>1. workflow' = [workflow EXCEPT ![attempt] = IF pc' = "done" THEN @
                                     ELSE Hooked(env, fallback, ApplyVars(given', @))]
    BY DEF Prepare
  <2> QED
    BY <1>1, <1>3, <2>1 DEF Attempt
<1>6. /\ IsMap(given') /\ AllSettled(given')
      /\ DOMAIN given' \subseteq {"pd_uri"} \cup NetworkVars \cup SubnetVars \cup AccountVars
  <2>1. IsMap(given) /\ [file |-> file, env |-> env] \in Cases
    BY DEF IsMap, WorkflowInv
  <2>2. /\ IsMap(given') /\ AllSettled(given')
        /\ DOMAIN given' \subseteq DOMAIN given \cup (DOMAIN file.vars \cap
                (NetworkVars \cup SubnetVars \cup AccountVars))
    BY <1>2, <2>1, InputFact, BackfillOnce
  <2>3. DOMAIN given \subseteq {"pd_uri"} \cup NetworkVars \cup SubnetVars \cup AccountVars
    BY DEF WorkflowInv
  <2> QED
    BY <2>2, <2>3
<1>7. AllSettled(given)'
  BY <1>1, <1>6 DEF AllSettled, Settled
<1>8. pc' = "start" => Prepared(attempt)'
  <2> SUFFICES ASSUME pc' = "start" PROVE Prepared(attempt)'
    OBVIOUS
  <2>1. VarsKnown(given', file') /\ workflow'[attempt] = Hooked(env', attempt = 1,
            ApplyVars(given', file'))
    BY <1>1, <1>2, <1>4, <1>5
  <2> QED
    BY <1>1, <1>7, <2>1 DEF Prepared
<1>9. attempt = 1 => given' = given
  <2> SUFFICES ASSUME attempt = 1 PROVE given' = given
    OBVIOUS
  <2>1. IsMap(given) /\ AllSettled(given)
    BY DEF IsMap, WorkflowInv, Prepared
  <2> QED
    BY <1>2, <2>1, BackfillTwice
<1>10. attempt = 1 => Prepared(0)'
  <2> SUFFICES ASSUME attempt = 1 PROVE Prepared(0)'
    OBVIOUS
  <2>1. Prepared(0) /\ workflow'[0] = workflow[0] /\ 0 \in Attempt
    BY <1>5 DEF WorkflowInv, Attempt
  <2> QED
    BY <1>1, <1>9, <2>1, PreparedKept
<1>11. \A a \in Attempt : workflow'[a] = file' \/ Prepared(a)'
  BY <1>1, <1>3, <1>5, <1>8, <1>10 DEF WorkflowInv, Attempt
<1> QED
  BY <1>1, <1>3, <1>5, <1>6, <1>8, <1>10, <1>11 DEF WorkflowInv, IsMap, Attempt

LEMMA WorkflowStep ==
    ASSUME TypeOK, FallbackInv, WorkflowInv, [InspectNext]_<<vars, inspectVars>>
    PROVE  WorkflowInv'
<1>1. CASE ProvideWorkflow
  BY <1>1, ProvideKeepsWorkflow
<1>2. CASE Prepare
  BY <1>2, PrepareKeepsWorkflow
<1>3. CASE InspectorSucceeds \/ InspectorFails \/ InspectorCancelled
  <2>1. /\ UNCHANGED <<file, env, given, workflow, attempt>>
        /\ pc = "run" /\ pc' \in {"post", "done"}
    BY <1>3 DEF InspectorSucceeds, InspectorFails, InspectorCancelled, Written, RunSucceeds,
        RunFails, RunCancelled, Finish, inputs
  <2> QED
    BY <2>1, WorkflowKept
<1>4. CASE Unprepared
  <2>1. UNCHANGED <<file, env, given, workflow>>
    BY <1>4 DEF Unprepared, inspectVars, inputs
  <2>2. CASE CheckIfCancelled \/ StartRun \/ PostRunHooks
    BY <2>1, <2>2, WorkflowKept DEF CheckIfCancelled, StartRun, PostRunHooks, Finish
  <2>3. CASE CancelSend \/ CancelClose \/ Interrupt \/ \E a \in Attempt : Watch(a)
    <3>1. attempt' = attempt /\ pc' \in {pc, "killed"}
      BY <2>3 DEF CancelSend, CancelClose, Interrupt, Watch, WatchSignal, WatchCancel,
          WatchWorkflow, runVars
    <3> QED
      BY <2>1, <3>1, WorkflowKept
  <2> QED
    BY <1>4, <2>2, <2>3 DEF Unprepared
<1>5. CASE Interpret \/ InspectTerminating \/ UNCHANGED <<vars, inspectVars>>
  <2>1. UNCHANGED <<file, env, given, workflow, attempt, pc>>
    BY <1>5 DEF Interpret, RunningFailed, DecodingFailed, InterpretingFailed, Inspected, Fail,
        InspectTerminating, vars, runVars, inspectVars, inputs
  <2> QED
    BY <2>1, WorkflowKept
<1> QED
  BY <1>1, <1>2, <1>3, <1>4, <1>5 DEF InspectNext, Prepares

LEMMA InspectionInvariant == InspectSpec => [](TypeOK /\ FoundInv /\ WorkflowInv)
<1>1. InspectInit => FoundInv /\ WorkflowInv
  <2> SUFFICES ASSUME InspectInit PROVE FoundInv /\ WorkflowInv
    OBVIOUS
  <2>1. FoundInv
    BY DEF InspectInit, FoundInv, InspectionSound, Writable, NoResults, WorkerErrors
  <2>2. [file |-> file, env |-> env] \in Cases
    <3>1. PICK c \in Cases : file = c.file /\ env = c.env
      BY DEF InspectInit
    <3> QED
      BY <3>1, CasesAssumption
  <2>3. WorkflowInv
    BY <2>2 DEF InspectInit, Init, WorkflowInv, Attempt
  <2> QED
    BY <2>1, <2>3
<1>2. TypeOK /\ FoundInv /\ [InspectNext]_<<vars, inspectVars>> => FoundInv'
  BY FoundStep
<1>3. TypeOK /\ FallbackInv /\ WorkflowInv /\ [InspectNext]_<<vars, inspectVars>> => WorkflowInv'
  BY WorkflowStep
<1> QED
  BY <1>1, <1>2, <1>3, InspectionRunsWorker, TypeCorrect, FallbackInvariant, PTL DEF InspectSpec

\* The second attempt runs the workflow of the first with other disks, although the
\* first has changed the vars they share and both apply every hook.
THEOREM SecondAttemptAlike == InspectSpec => []AttemptsAlike
<1>1. TypeOK /\ WorkflowInv => AttemptsAlike
  <2> SUFFICES ASSUME WorkflowInv, attempt = 1, pc \in {"start", "run", "post"}
               PROVE  /\ ButDisks(workflow[1]) = ButDisks(workflow[0])
                      /\ \A k \in DOMAIN file.resources :
                        /\ workflow[0].resources[k].diskType = file.resources[k].diskType
                        /\ k \in {"disk", "instance"} =>
                            workflow[1].resources[k].diskType = "pd-standard"
    BY DEF AttemptsAlike
  <2> DEFINE applied == ApplyVars(given, file)
  <2>1. Prepared(0) /\ Prepared(1)
    BY DEF WorkflowInv
  <2>2. workflow[0] = Hooked(env, FALSE, applied) /\ workflow[1] = Hooked(env, TRUE, applied)
    BY <2>1 DEF Prepared, Hooked
  <2>3. IsWorkflow(file) /\ VarsKnown(given, file)
    BY <2>1, InputFact DEF WorkflowInv, Prepared
  <2>4. IsWorkflow(applied) /\ applied.resources = file.resources
    BY <2>3, ApplyFact
  <2>5. DOMAIN file.resources = Kinds
    BY <2>3 DEF IsWorkflow
  <2> HIDE DEF applied
  <2>6. ButDisks(workflow[1]) = ButDisks(workflow[0])
    BY <2>2, <2>4, HookedFact
  <2>7. \A k \in Kinds : workflow[0].resources[k].diskType = file.resources[k].diskType
    <3>1. Keeps(Hooked(env, FALSE, applied), applied)
      BY <2>4, HookedFact
    <3> QED
      BY <2>2, <2>4, <3>1 DEF Keeps
  <2>8. \A k \in {"disk", "instance"} : workflow[1].resources[k].diskType = "pd-standard"
    <3>1. \A k \in {"disk", "instance"} :
            Hooked(env, TRUE, applied).resources[k].diskType = "pd-standard"
      BY <2>4, HookedFact
    <3> QED
      BY <2>2, <3>1
  <2> QED
    BY <2>5, <2>6, <2>7, <2>8
<1> QED
  BY <1>1, InspectionInvariant, PTL

\* The workflows keep the vars and the resources of their file, and what is found
\* is what the instance may have written.
THEOREM InspectTypeCorrect == InspectSpec => []InspectTypeOK
<1>1. TypeOK /\ FoundInv /\ WorkflowInv => InspectTypeOK
  <2> SUFFICES ASSUME TypeOK, FoundInv, WorkflowInv PROVE InspectTypeOK
    OBVIOUS
  <2>1. IsWorkflow(file)
    BY InputFact DEF WorkflowInv
  <2>2. ASSUME NEW a \in Attempt
        PROVE  /\ DOMAIN workflow[a] = DOMAIN file
               /\ DOMAIN workflow[a].vars = DOMAIN file.vars
               /\ DOMAIN workflow[a].resources = DOMAIN file.resources
    <3> DEFINE applied == ApplyVars(given, file)
    <3>1. CASE workflow[a] = file
      BY <3>1
    <3>2. CASE Prepared(a)
      <4>1. VarsKnown(given, file)
        BY <3>2 DEF Prepared
      <4>2. IsWorkflow(applied) /\ DOMAIN applied.vars = DOMAIN file.vars
        BY <2>1, <4>1, ApplyFact
      <4>3. workflow[a] = Hooked(env, TRUE, applied) \/ workflow[a] = Hooked(env, FALSE, applied)
        BY <3>2 DEF Prepared, Hooked
      <4> HIDE DEF applied
      <4>4. /\ IsWorkflow(Hooked(env, TRUE, applied))
            /\ Hooked(env, TRUE, applied).vars = applied.vars
        BY <4>2, HookedFact
      <4>5. /\ IsWorkflow(Hooked(env, FALSE, applied))
            /\ Hooked(env, FALSE, applied).vars = applied.vars
        BY <4>2, HookedFact DEF Keeps
      <4>6. IsWorkflow(workflow[a]) /\ workflow[a].vars = applied.vars
        BY <4>3, <4>4, <4>5
      <4>7. ASSUME NEW wf, IsWorkflow(wf)
            PROVE  /\ DOMAIN wf = {"vars", "settings", "name", "disabled", "resources"}
                   /\ DOMAIN wf.resources = Kinds
        BY <4>7 DEF IsWorkflow
      <4> QED
        BY <2>1, <4>2, <4>6, <4>7
    <3> QED
      BY <3>1, <3>2 DEF WorkflowInv
  <2>3. \A a \in Attempt : serial[a] \in {Nothing, Garbage} \cup {Message(m) : m \in Responses}
    BY DEF FoundInv, Writable
  <2> QED
    BY <2>2, <2>3 DEF InspectTypeOK, WorkflowInv, FoundInv
<1> QED
  BY <1>1, InspectionInvariant, PTL
=============================================================================
