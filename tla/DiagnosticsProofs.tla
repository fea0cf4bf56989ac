-------------------------- MODULE DiagnosticsProofs --------------------------
(***************************************************************************)
(* Diagnostics for every set of gatherers and every number of tries: its   *)
(* types, and that a clean exit means that everything has been packed.     *)
(***************************************************************************)
EXTENDS Diagnostics, TLAPS, FiniteSetTheorems

\* A walk depends on nothing, and whatever finds a root is followed by one.
StepsAreGood(s, n) ==
    /\ Len(s) = n /\ DOMAIN s = 1..n
    /\ \A i \in 1..n :
        /\ s[i].do = "walk" => s[i].needs = {}
        /\ s[i].do \in {"root", "stat"} =>
            \E j \in (i + 1)..n : s[j].do = "walk"

\* The list of each gatherer is good.
LEMMA StepsFact == \A g \in Gatherers : \E n \in Nat : StepsAreGood(Steps[g], n)
<1> USE DEF StepsAreGood, Plain, With
<1>1. StepsAreGood(SystemSteps, 6)
  BY DEF SystemSteps
<1>2. StepsAreGood(DiskSteps, 3)
  BY DEF DiskSteps
<1>3. StepsAreGood(NetworkSteps, 8)
  BY DEF NetworkSteps
<1>4. StepsAreGood(ProgramSteps, 3)
  BY DEF ProgramSteps
<1>5. StepsAreGood(EventSteps, 5)
  <2>1. /\ Len(EventSteps) = 5 /\ DOMAIN EventSteps = 1..5
        /\ \A i \in 1..5 : EventSteps[i].do = "walk" => EventSteps[i].needs = {}
    BY DEF EventSteps
  <2>2. \A i \in 1..5 : EventSteps[i].do \in {"root", "stat"} => i = 1
    BY DEF EventSteps
  <2>3. EventSteps[2].do = "walk" /\ 2 \in (1 + 1)..5
    BY DEF EventSteps
  <2> QED
    BY <2>1, <2>2, <2>3
<1>6. StepsAreGood(KubernetesSteps, 5)
  <2>1. /\ Len(KubernetesSteps) = 5 /\ DOMAIN KubernetesSteps = 1..5
        /\ \A i \in 1..5 : KubernetesSteps[i].do = "walk" => KubernetesSteps[i].needs = {}
    BY DEF KubernetesSteps
  <2>2. \A i \in 1..5 : KubernetesSteps[i].do \in {"root", "stat"} => i \in {1, 2}
    BY DEF KubernetesSteps
  <2>3. KubernetesSteps[3].do = "walk" /\ \A i \in {1, 2} : 3 \in (i + 1)..5
    BY DEF KubernetesSteps
  <2> QED
    BY <2>1, <2>2, <2>3
<1>7. StepsAreGood(RDPSteps, 3)
  BY DEF RDPSteps
<1>8. StepsAreGood(DockerSteps, 1)
  BY DEF DockerSteps
<1>9. StepsAreGood(TraceSteps, 2)
  BY DEF TraceSteps
<1> HIDE DEF StepsAreGood, Plain, With
<1>10. 1 \in Nat /\ 2 \in Nat /\ 3 \in Nat /\ 5 \in Nat /\ 6 \in Nat /\ 8 \in Nat
  OBVIOUS
<1> QED
  BY <1>1, <1>2, <1>3, <1>4, <1>5, <1>6, <1>7, <1>8, <1>9, <1>10 DEF Steps, Gatherers

\* The same for one gatherer: how long its list is, and what its steps are.
LEMMA OneList ==
    ASSUME NEW g \in Gatherers
    PROVE  /\ Len(Steps[g]) \in Nat /\ DOMAIN Steps[g] = 1..Len(Steps[g])
           /\ \A i \in 1..Len(Steps[g]) :
                /\ Steps[g][i].do = "walk" => Steps[g][i].needs = {}
                /\ Steps[g][i].do \in {"root", "stat"} =>
                    \E j \in (i + 1)..Len(Steps[g]) : Steps[g][j].do = "walk"
BY StepsFact DEF StepsAreGood

(***************************************************************************)
(* Types.                                                                  *)
(***************************************************************************)

\* A gatherer that is started is one of the nine.
LEMMA Started == TypeOK => \A g \in runFuncs : g \in Gatherers
BY RunFuncsAssumption DEF TypeOK

\* The steps of a gatherer leave main alone, and move one position.
LEMMA GathererTypes ==
    ASSUME TypeOK, NEW g \in runFuncs, GathererStep(g) PROVE TypeOK'
<1>0. g \in Gatherers
  BY Started
<1>1. Len(Steps[g]) \in Nat
  BY <1>0, OneList
<1>2. UNCHANGED <<runFuncs, installed, mainVars>>
  BY DEF GathererStep, SkipStep, RunCommand, StartTrace, QueryEnds, QueryFails,
         AddRoot, StatRoot, WalkRoots, LookUp, Require, SendFolder
<1>3. /\ pos' \in [Gatherers -> Nat]
      /\ \A h \in Gatherers : pos'[h] \in 1..(Len(Steps[h]) + 1)
  <2>1. CASE UNCHANGED pos
    BY <2>1 DEF TypeOK
  <2>2. CASE Advance(g) /\ pos[g] <= Len(Steps[g])
    BY <1>0, <1>1, <2>2 DEF TypeOK, Advance
  <2> QED
    BY <2>1, <2>2 DEF GathererStep, SkipStep, RunCommand, StartTrace, QueryEnds,
        QueryFails, AddRoot, StatRoot, WalkRoots, LookUp, Require, SendFolder, At, Ready
<1>4. tries' \in [Gatherers -> 0..(MaxTries - 1)]
  <2>1. CASE QueryFails(g)
    BY <1>0, <2>1, TriesAssumption DEF QueryFails, TypeOK
  <2>2. CASE QueryEnds(g)
    BY <1>0, <2>2, TriesAssumption DEF QueryEnds, TypeOK
  <2>3. CASE UNCHANGED tries
    BY <2>3 DEF TypeOK
  <2> QED
    BY <2>1, <2>2, <2>3 DEF GathererStep, SkipStep, RunCommand, StartTrace,
        AddRoot, StatRoot, WalkRoots, LookUp, Require, SendFolder
<1>5. /\ pending' \in [Gatherers -> Nat]
      /\ DOMAIN roots' = Gatherers /\ \A h \in Gatherers : IsFiniteSet(roots'[h])
  <2>1. CASE WalkRoots(g)
    <3>1. PICK broken \in SUBSET roots[g] :
            pending' = [pending EXCEPT ![g] = Cardinality(broken)]
      BY <2>1 DEF WalkRoots
    <3>2. Cardinality(broken) \in Nat
      BY <1>0, <3>1, FS_Subset, FS_CardinalityType DEF TypeOK
    <3> QED
      BY <1>0, <2>1, <3>1, <3>2, FS_EmptySet DEF WalkRoots, TypeOK
  <2>2. CASE AddRoot(g) \/ StatRoot(g)
    <3>1. /\ UNCHANGED pending
          /\ \/ UNCHANGED roots
             \/ roots' = [roots EXCEPT ![g] = @ \cup {Now(g).what}]
      BY <2>2 DEF AddRoot, StatRoot
    <3>2. IsFiniteSet(roots[g] \cup {Now(g).what})
      BY <1>0, FS_AddElement DEF TypeOK
    <3> QED
      BY <1>0, <3>1, <3>2 DEF TypeOK
  <2>3. CASE UNCHANGED roots /\ (UNCHANGED pending \/ Report(g))
    BY <1>0, <2>3 DEF Report, TypeOK
  <2> QED
    BY <2>1, <2>2, <2>3 DEF GathererStep, SkipStep, RunCommand, StartTrace,
        QueryEnds, QueryFails, LookUp, Require, SendFolder
<1>6. status' \in [Gatherers -> {"none", "running", "quitting", "gone", "sent"}]
  BY <1>0 DEF TypeOK, GathererStep, SkipStep, RunCommand, StartTrace, QueryEnds,
      QueryFails, AddRoot, StatRoot, WalkRoots, LookUp, Require, SendFolder
<1>7. DOMAIN files' = Gatherers /\ \A h \in Gatherers : files[h] \subseteq files'[h]
  <2>1. UNCHANGED files \/ \E items : Collect(g, items)
    BY DEF GathererStep, SkipStep, RunCommand, StartTrace, QueryEnds, QueryFails,
           AddRoot, StatRoot, WalkRoots, LookUp, Require, SendFolder
  <2> QED
    BY <1>0, <2>1 DEF Collect, TypeOK
<1>8. Packed \subseteq Packed'
  <2>1. folders \subseteq Gatherers /\ folders' = folders
    BY <1>2, Started DEF TypeOK, mainVars
  <2> QED
    BY <1>7, <2>1 DEF Packed
<1> QED
  BY <1>2, <1>3, <1>4, <1>5, <1>6, <1>7, <1>8 DEF TypeOK, mainVars, zipVars

\* Types of the variables.
THEOREM TypeCorrect == Spec => []TypeOK
<1>1. Init => TypeOK
  <2> SUFFICES ASSUME Init PROVE TypeOK
    OBVIOUS
  <2>1. \A g \in Gatherers : pos[g] \in 1..(Len(Steps[g]) + 1)
    BY OneList DEF Init
  <2> QED
    <3>1. tries \in [Gatherers -> 0..(MaxTries - 1)]
      BY TriesAssumption DEF Init
    <3>2. \A g \in Gatherers : IsFiniteSet(roots[g])
      BY FS_EmptySet DEF Init
    <3> QED
      BY <2>1, <3>1, <3>2 DEF Init, TypeOK, Packed
<1>2. TypeOK /\ [Next]_vars => TypeOK'
  <2> SUFFICES ASSUME TypeOK, [Next]_vars PROVE TypeOK'
    OBVIOUS
  <2>1. ASSUME NEW g \in runFuncs, GathererStep(g) PROVE TypeOK'
    BY <2>1, GathererTypes
  <2>2. CASE Start
    BY <2>2 DEF Start, Fatal, TypeOK, zipVars, Packed
  <2>3. CASE CreateZip \/ DeliverFails \/ MoveZip \/ StartUpload \/ PutZip \/ CleanUp
    BY <2>3 DEF CreateZip, DeliverFails, MoveZip, StartUpload, PutZip, CleanUp,
                Fatal, TypeOK, gathererVars, zipVars, Packed
  <2>4. CASE ZipFiles
    BY <2>4 DEF ZipFiles, Fatal, TypeOK, gathererVars, Packed
  <2>5. ASSUME NEW g \in runFuncs, ReceiveError(g) PROVE TypeOK'
    <3>1. g \in Gatherers
      BY Started
    <3> QED
      BY <2>5, <3>1 DEF ReceiveError, TypeOK, zipVars, Packed
  <2>6. ASSUME NEW g \in runFuncs, ReceiveFolder(g) PROVE TypeOK'
    BY <2>6 DEF ReceiveFolder, TypeOK, gathererVars, zipVars, Packed
  <2>7. CASE UNCHANGED vars
    BY <2>7 DEF vars, gathererVars, mainVars, zipVars, TypeOK, Packed
  <2> QED
    BY <2>1, <2>2, <2>3, <2>4, <2>5, <2>6, <2>7 DEF Next, MainStep, Terminating
<1> QED
  BY <1>1, <1>2, PTL DEF Spec

(***************************************************************************)
(* A clean exit is complete.                                               *)
(***************************************************************************)

\* A folder is sent once the list is done.
LEMMA FolderInvariant == Spec => []FolderInv
<1>1. Init => FolderInv
  BY DEF Init, FolderInv
<1>2. TypeOK /\ FolderInv /\ [Next]_vars => FolderInv'
  <2> SUFFICES ASSUME TypeOK, FolderInv, [Next]_vars PROVE FolderInv'
    OBVIOUS
  <2> USE DEF FolderInv
  <2>1. ASSUME NEW g \in runFuncs, GathererStep(g) PROVE FolderInv'
    <3>0. g \in Gatherers /\ Len(Steps[g]) \in Nat
      BY Started, OneList
    <3>1. UNCHANGED <<runFuncs, mainVars>>
      BY <2>1 DEF GathererStep, SkipStep, RunCommand, StartTrace, QueryEnds,
                  QueryFails, AddRoot, StatRoot, WalkRoots, LookUp, Require, SendFolder
    <3>2. CASE SendFolder(g)
      BY <3>0, <3>1, <3>2 DEF SendFolder, mainVars, TypeOK
    <3>3. CASE ~SendFolder(g)
      <4>1. /\ status[g] = "running"
            /\ UNCHANGED status \/ status' = [status EXCEPT ![g] = "quitting"]
            /\ UNCHANGED pos \/ Advance(g)
            /\ UNCHANGED pending \/ \E n : pending' = [pending EXCEPT ![g] = n]
        BY <2>1, <3>3 DEF GathererStep, SkipStep, RunCommand, StartTrace, QueryEnds,
           QueryFails, AddRoot, StatRoot, WalkRoots, LookUp, Require, At, Ready, Report
      <4>2. \A h \in Gatherers \ {g} :
                status'[h] = status[h] /\ pos'[h] = pos[h] /\ pending'[h] = pending[h]
        BY <3>0, <4>1 DEF Advance, TypeOK
      <4>3. status'[g] # "sent" /\ g \notin folders /\ pc # "start"
        BY <3>0, <4>1 DEF TypeOK
      <4> QED
        BY <3>1, <4>2, <4>3, Started DEF mainVars, TypeOK
    <3> QED
      BY <3>2, <3>3
  <2>2. CASE Start
    <3>1. folders = {}
      BY <2>2, Started DEF Start, TypeOK
    <3> QED
      BY <2>2, <3>1 DEF Start, Fatal, TypeOK
  <2>3. CASE \/ CreateZip \/ ZipFiles \/ DeliverFails \/ MoveZip \/ StartUpload
             \/ PutZip \/ CleanUp
    BY <2>3 DEF CreateZip, ZipFiles, DeliverFails, MoveZip, StartUpload, PutZip,
                CleanUp, Fatal, gathererVars
  <2>4. ASSUME NEW g \in runFuncs, ReceiveError(g) PROVE FolderInv'
    <3>1. g \in Gatherers /\ status[g] # "sent"
      BY <2>4, Started DEF ReceiveError, TypeOK
    <3> QED
      BY <2>4, <3>1 DEF ReceiveError, TypeOK
  <2>5. ASSUME NEW g \in runFuncs, ReceiveFolder(g) PROVE FolderInv'
    BY <2>5 DEF ReceiveFolder, gathererVars
  <2>6. CASE UNCHANGED vars
    BY <2>6 DEF vars, gathererVars, mainVars
  <2> QED
    BY <2>1, <2>2, <2>3, <2>4, <2>5, <2>6 DEF Next, MainStep, Terminating
<1> QED
  BY <1>1, <1>2, TypeCorrect, PTL DEF Spec

\* Whatever is found is walked before the list ends.
LEMMA RootInvariant == Spec => []RootInv
<1>1. Init => RootInv
  BY DEF Init, RootInv
<1>2. TypeOK /\ RootInv /\ [Next]_vars => RootInv'
  <2> SUFFICES ASSUME TypeOK, RootInv, [Next]_vars PROVE RootInv'
    OBVIOUS
  <2>1. ASSUME NEW g \in runFuncs, GathererStep(g) PROVE RootInv'
    <3>0. g \in Gatherers /\ Len(Steps[g]) \in Nat /\ pos[g] \in 1..(Len(Steps[g]) + 1)
      BY Started, OneList DEF TypeOK
    <3>1. \A h \in Gatherers \ {g} : roots'[h] = roots[h] /\ pos'[h] = pos[h]
      <4>1. /\ UNCHANGED pos \/ Advance(g)
            /\ UNCHANGED roots \/ \E r : roots' = [roots EXCEPT ![g] = r]
        BY <2>1 DEF GathererStep, SkipStep, RunCommand, StartTrace, QueryEnds,
           QueryFails, AddRoot, StatRoot, WalkRoots, LookUp, Require, SendFolder
      <4> QED
        BY <3>0, <4>1 DEF Advance, TypeOK
    <3>2. roots'[g] # {} =>
            \E j \in (pos'[g])..Len(Steps[g]) : Steps[g][j].do = "walk"
      <4>1. CASE WalkRoots(g)
        BY <3>0, <4>1 DEF WalkRoots, TypeOK
      <4>2. CASE AddRoot(g) \/ StatRoot(g)
        <5>1. /\ pos[g] \in 1..Len(Steps[g]) /\ Steps[g][pos[g]].do \in {"root", "stat"}
              /\ pos'[g] = pos[g] + 1
          BY <3>0, <4>2 DEF AddRoot, StatRoot, At, Ready, Now, Advance, TypeOK
        <5> QED
          BY <3>0, <5>1, OneList
      <4>3. CASE UNCHANGED roots /\ UNCHANGED pos
        BY <3>0, <4>3 DEF RootInv
      <4>4. CASE /\ UNCHANGED roots /\ Advance(g) /\ pos[g] <= Len(Steps[g])
                 /\ Steps[g][pos[g]].do # "walk"
        <5>1. pos'[g] = pos[g] + 1
          BY <3>0, <4>4 DEF Advance, TypeOK
        <5> SUFFICES ASSUME roots[g] # {}
                     PROVE \E j \in (pos'[g])..Len(Steps[g]) : Steps[g][j].do = "walk"
          BY <4>4
        <5>2. PICK j \in pos[g]..Len(Steps[g]) : Steps[g][j].do = "walk"
          BY <3>0 DEF RootInv
        <5>3. j # pos[g]
          BY <4>4, <5>2
        <5>4. j \in (pos'[g])..Len(Steps[g])
          BY <3>0, <5>1, <5>2, <5>3
        <5> QED
          BY <5>2, <5>4
      <4>5. CASE SkipStep(g)
        <5>1. Steps[g][pos[g]].do # "walk"
          BY <3>0, <4>5, OneList DEF SkipStep, Ready, Now
        <5> QED
          BY <4>4, <4>5, <5>1 DEF SkipStep, Ready
      <4> QED
        BY <2>1, <4>1, <4>2, <4>3, <4>4, <4>5 DEF GathererStep, RunCommand,
           StartTrace, QueryEnds, QueryFails, LookUp, Require, SendFolder, At, Ready, Now
    <3> QED
      BY <3>1, <3>2 DEF RootInv
  <2>2. CASE MainStep \/ UNCHANGED vars
    <3>1. UNCHANGED <<roots, pos>>
      BY <2>2 DEF MainStep, Start, CreateZip, ZipFiles, DeliverFails, MoveZip,
         StartUpload, PutZip, CleanUp, ReceiveError, ReceiveFolder, vars, gathererVars
    <3> QED
      BY <3>1 DEF RootInv
  <2> QED
    BY <2>1, <2>2 DEF Next, Terminating
<1> QED
  BY <1>1, <1>2, TypeCorrect, PTL DEF Spec

\* Each step that is done has left its item, or an error.
LEMMA StepInvariant == Spec => []StepInv
<1>1. Init => StepInv
  BY DEF Init, StepInv
<1>2. TypeOK /\ StepInv /\ [Next]_vars => StepInv'
  <2> SUFFICES ASSUME TypeOK, StepInv, [Next]_vars PROVE StepInv'
    OBVIOUS
  <2>1. ASSUME NEW g \in runFuncs, GathererStep(g) PROVE StepInv'
    <3>0. /\ g \in Gatherers /\ Len(Steps[g]) \in Nat
          /\ pos[g] \in 1..(Len(Steps[g]) + 1) /\ pending[g] \in Nat
      BY Started, OneList DEF TypeOK
    <3>1. /\ installed' = installed /\ erred' = erred /\ unseen \subseteq unseen'
          /\ UNCHANGED pos \/ Advance(g)
          /\ UNCHANGED pending \/ \E n : pending' = [pending EXCEPT ![g] = n]
          /\ UNCHANGED files \/ \E i : Collect(g, i)
          /\ UNCHANGED roots \/ \E r : roots' = [roots EXCEPT ![g] = r]
      BY <2>1 DEF GathererStep, SkipStep, RunCommand, StartTrace, QueryEnds, QueryFails,
         AddRoot, StatRoot, WalkRoots, LookUp, Require, SendFolder, Report, mainVars
    <3>2. \A h \in Gatherers \ {g} :
            /\ pos'[h] = pos[h] /\ pending'[h] = pending[h]
            /\ files'[h] = files[h] /\ roots'[h] = roots[h]
      BY <3>0, <3>1 DEF Advance, Collect, TypeOK
    <3>3. \A s : Yields(s)' <=> Yields(s)
      BY <3>1 DEF Yields
    \* What was accounted for still is.
    <3>4. ASSUME NEW what, Accounted(g, what) PROVE Accounted(g, what)'
      <4>1. CASE WalkRoots(g)
        <5>1. PICK broken \in SUBSET roots[g] :
                /\ Collect(g, roots[g] \ broken)
                /\ pending' = [pending EXCEPT ![g] = Cardinality(broken)]
          BY <4>1 DEF WalkRoots
        <5>2. IsFiniteSet(broken)
          BY <3>0, <5>1, FS_Subset DEF TypeOK
        <5>3. CASE broken = {}
          BY <3>0, <3>1, <3>4, <4>1, <5>1, <5>3
             DEF Accounted, Collect, TypeOK, WalkRoots, At, Ready
        <5>4. CASE broken # {}
          <6>1. Cardinality(broken) \in Nat /\ Cardinality(broken) # 0
            BY <5>2, <5>4, FS_CardinalityType, FS_EmptySet
          <6> QED
            BY <3>0, <5>1, <6>1 DEF Accounted, TypeOK
        <5> QED
          BY <5>3, <5>4
      <4>2. CASE ~WalkRoots(g)
        <5>1. /\ UNCHANGED pending \/ Report(g)
              /\ UNCHANGED roots \/ \E r : roots' = [roots EXCEPT ![g] = @ \cup r]
          BY <2>1, <4>2 DEF GathererStep, SkipStep, RunCommand, StartTrace, QueryEnds,
             QueryFails, AddRoot, StatRoot, LookUp, Require, SendFolder
        <5> QED
          BY <3>0, <3>1, <3>4, <5>1 DEF Accounted, Collect, Report, TypeOK
      <4> QED
        BY <4>1, <4>2
    \* The step just done is.
    <3>5. ASSUME Advance(g), pos[g] <= Len(Steps[g]), Yields(Now(g)),
                 NEW what, what = Now(g).what
          PROVE  Accounted(g, what)'
      <4>1. pos' # pos
        BY <3>0, <3>5 DEF Advance, TypeOK
      <4>2. CASE RunCommand(g) \/ QueryEnds(g) \/ QueryFails(g)
        <5>1. Collect(g, {what}) \/ Report(g)
          BY <3>5, <4>1, <4>2 DEF RunCommand, QueryEnds, QueryFails
        <5> QED
          BY <3>0, <5>1 DEF Accounted, Collect, Report, TypeOK
      <4>3. CASE AddRoot(g) \/ StatRoot(g)
        <5>1. \/ roots' = [roots EXCEPT ![g] = @ \cup {what}]
              \/ unseen' = unseen \cup {what}
          BY <3>5, <4>3 DEF AddRoot, StatRoot, At, Yields
        <5> QED
          BY <3>0, <5>1 DEF Accounted, TypeOK
      <4>4. CASE SkipStep(g) \/ StartTrace(g) \/ WalkRoots(g) \/ LookUp(g) \/ Require(g)
        BY <3>5, <4>4 DEF SkipStep, StartTrace, WalkRoots, LookUp, Require, At, Yields
      <4> QED
        BY <2>1, <4>1, <4>2, <4>3, <4>4 DEF GathererStep, SendFolder
    <3>6. ASSUME NEW i \in 1..(pos'[g] - 1), Yields(Steps[g][i])
          PROVE  Accounted(g, Steps[g][i].what)'
      <4>1. CASE i \in 1..(pos[g] - 1)
        BY <3>0, <3>4, <3>6, <4>1 DEF StepInv
      <4>2. CASE i \notin 1..(pos[g] - 1)
        <5>1. Advance(g) /\ i = pos[g]
          BY <3>0, <3>1, <3>6, <4>2 DEF Advance, TypeOK
        <5>2. pos[g] <= Len(Steps[g])
          <6>1. pos' # pos
            BY <3>0, <5>1 DEF Advance, TypeOK
          <6> QED
            BY <2>1, <6>1 DEF GathererStep, SkipStep, RunCommand, StartTrace, QueryEnds,
               QueryFails, AddRoot, StatRoot, WalkRoots, LookUp, Require, SendFolder,
               At, Ready
        <5> QED
          BY <3>5, <3>6, <5>1, <5>2 DEF Now
      <4> QED
        BY <4>1, <4>2
    <3>7. ASSUME NEW h \in Gatherers \ {g}, NEW i \in 1..(pos'[h] - 1),
                 Yields(Steps[h][i])
          PROVE  Accounted(h, Steps[h][i].what)'
      <4>1. Accounted(h, Steps[h][i].what)
        BY <3>2, <3>7 DEF StepInv
      <4> QED
        BY <3>1, <3>2, <4>1 DEF Accounted
    <3> QED
      BY <3>3, <3>6, <3>7 DEF StepInv
  <2>2. CASE MainStep \/ UNCHANGED vars
    <3>1. /\ UNCHANGED <<installed, pos, files, roots, unseen>>
          /\ erred => erred'
          /\ UNCHANGED pending \/ erred' = TRUE
      BY <2>2 DEF MainStep, Start, CreateZip, ZipFiles, DeliverFails, MoveZip,
         StartUpload, PutZip, CleanUp, ReceiveError, ReceiveFolder, vars, gathererVars,
         mainVars, TypeOK
    <3>2. ASSUME NEW g \in Gatherers, NEW what, Accounted(g, what)
          PROVE  Accounted(g, what)'
      BY <3>1, <3>2 DEF Accounted
    <3>3. \A s : Yields(s)' <=> Yields(s)
      BY <3>1 DEF Yields
    <3> QED
      BY <3>1, <3>2, <3>3 DEF StepInv
  <2> QED
    BY <2>1, <2>2 DEF Next, Terminating
<1> QED
  BY <1>1, <1>2, TypeCorrect, PTL DEF Spec

\* The gatherers whose folders main packs are done: nothing changes any more.
LEMMA PackedFact ==
    ASSUME TypeOK, FolderInv, NEW g \in runFuncs, GathererStep(g)
    PROVE  g \notin folders /\ Packed' = Packed
<1>1. g \in Gatherers /\ folders \subseteq Gatherers /\ status[g] = "running"
  BY Started DEF TypeOK, GathererStep, SkipStep, RunCommand, StartTrace, QueryEnds,
     QueryFails, AddRoot, StatRoot, WalkRoots, LookUp, Require, SendFolder, At, Ready
<1>2. g \notin folders
  BY <1>1 DEF FolderInv
<1>3. folders' = folders /\ (UNCHANGED files \/ \E i : Collect(g, i))
  BY DEF GathererStep, SkipStep, RunCommand, StartTrace, QueryEnds, QueryFails,
         AddRoot, StatRoot, WalkRoots, LookUp, Require, SendFolder, mainVars
<1>4. \A h \in folders : files'[h] = files[h]
  BY <1>1, <1>2, <1>3 DEF Collect, TypeOK
<1> QED
  BY <1>2, <1>3, <1>4 DEF Packed

\* The zip holds what main has received, unless there was an error.
LEMMA ZipInvariant == Spec => []ZipInv
<1>1. Init => ZipInv
  BY DEF Init, ZipInv
<1>2. TypeOK /\ FolderInv /\ ZipInv /\ [Next]_vars => ZipInv'
  <2> SUFFICES ASSUME TypeOK, FolderInv, ZipInv, [Next]_vars PROVE ZipInv'
    OBVIOUS
  <2> USE DEF ZipInv
  <2>1. ASSUME NEW g \in runFuncs, GathererStep(g) PROVE ZipInv'
    <3>1. UNCHANGED <<runFuncs, mainVars>>
      BY <2>1 DEF GathererStep, SkipStep, RunCommand, StartTrace, QueryEnds,
                  QueryFails, AddRoot, StatRoot, WalkRoots, LookUp, Require, SendFolder
    <3>2. Packed' = Packed
      BY <2>1, PackedFact
    <3> QED
      BY <3>1, <3>2 DEF mainVars, zipVars
  <2>2. CASE Start \/ CreateZip
    BY <2>2 DEF Start, CreateZip, Fatal
  <2>3. CASE ZipFiles
    <3>1. zipped' = Packed' \/ erred' = TRUE
      BY <2>3 DEF ZipFiles, Packed, gathererVars, TypeOK
    <3>2. exit # "clean"
      BY <2>3 DEF ZipFiles
    <3> QED
      BY <2>3, <3>1, <3>2 DEF ZipFiles, Fatal
  <2>4. CASE DeliverFails \/ MoveZip \/ StartUpload \/ PutZip
    BY <2>4 DEF DeliverFails, MoveZip, StartUpload, PutZip, Fatal, gathererVars,
                zipVars, Packed
  <2>5. CASE CleanUp
    BY <2>5 DEF CleanUp, gathererVars, Packed, FolderInv, TypeOK
  <2>6. ASSUME NEW g \in runFuncs, ReceiveError(g) \/ ReceiveFolder(g) PROVE ZipInv'
    BY <2>6 DEF ReceiveError, ReceiveFolder, zipVars
  <2>7. CASE UNCHANGED vars
    BY <2>7 DEF vars, gathererVars, mainVars, zipVars, Packed
  <2> QED
    BY <2>1, <2>2, <2>3, <2>4, <2>5, <2>6, <2>7 DEF Next, MainStep, Terminating
<1> QED
  BY <1>1, <1>2, TypeCorrect, FolderInvariant, PTL DEF Spec

\* A run without an error message has packed whatever its gatherers should have
\* found, except for the roots it could not see.
THEOREM CleanExitComplete == Spec => []CleanExitIsComplete
<1>1. TypeOK /\ FolderInv /\ RootInv /\ StepInv /\ ZipInv => CleanExitIsComplete
  <2> SUFFICES ASSUME TypeOK, FolderInv, RootInv, StepInv, ZipInv, exit = "clean",
                      NEW g \in runFuncs, NEW i \in DOMAIN Steps[g], Yields(Steps[g][i])
               PROVE  Steps[g][i].what \in zipped \cup unseen
    BY DEF CleanExitIsComplete, Expected
  <2>0. g \in Gatherers /\ Len(Steps[g]) \in Nat
    BY Started, OneList
  <2>1. g \in folders /\ ~erred /\ zipped = Packed
    BY DEF ZipInv
  <2>2. pos[g] > Len(Steps[g]) /\ pending[g] = 0 /\ pos[g] \in Nat
    BY <2>0, <2>1 DEF FolderInv, TypeOK
  <2>3. roots[g] = {}
    BY <2>0, <2>2 DEF RootInv
  <2>4. DOMAIN Steps[g] = 1..Len(Steps[g])
    BY <2>0, OneList
  <2>5. Accounted(g, Steps[g][i].what)
    BY <2>0, <2>2, <2>4 DEF StepInv
  <2>6. Steps[g][i].what \in files[g] \cup unseen
    BY <2>1, <2>2, <2>3, <2>5 DEF Accounted
  <2> QED
    BY <2>1, <2>6 DEF Packed
<1> QED
  BY <1>1, TypeCorrect, FolderInvariant, RootInvariant, StepInvariant, ZipInvariant, PTL

(***************************************************************************)
(* The only copy of the logs.                                              *)
(***************************************************************************)

\* However main ends once there is a zip (log.Fatal at any step, or the clean-up
\* at the end), it is still where main had put it, unless the server answered
\* without storing it.
THEOREM ZipNeverLost == Spec => []ZipIsKept
<1>1. Init => PlaceInv
  BY DEF Init, PlaceInv, ZipIsKept
<1>2. PlaceInv /\ [Next]_vars => PlaceInv'
  <2> SUFFICES ASSUME PlaceInv, [Next]_vars PROVE PlaceInv'
    OBVIOUS
  <2> USE DEF PlaceInv, ZipIsKept
  <2>1. ASSUME NEW g \in runFuncs, GathererStep(g) PROVE PlaceInv'
    BY <2>1 DEF GathererStep, SkipStep, RunCommand, StartTrace, QueryEnds, QueryFails,
       AddRoot, StatRoot, WalkRoots, LookUp, Require, SendFolder, mainVars, zipVars
  <2>2. CASE Start \/ CreateZip \/ ZipFiles
    BY <2>2 DEF Start, CreateZip, ZipFiles, Fatal, zipVars
  <2>3. CASE DeliverFails \/ StartUpload
    BY <2>3 DEF DeliverFails, StartUpload, Fatal, zipVars
  <2>4. CASE MoveZip \/ PutZip
    BY <2>4 DEF MoveZip, PutZip
  <2>5. CASE CleanUp
    BY <2>5 DEF CleanUp
  <2>6. ASSUME NEW g \in runFuncs, ReceiveError(g) \/ ReceiveFolder(g) PROVE PlaceInv'
    BY <2>6 DEF ReceiveError, ReceiveFolder, zipVars
  <2>7. CASE UNCHANGED vars
    BY <2>7 DEF vars, mainVars, zipVars
  <2> QED
    BY <2>1, <2>2, <2>3, <2>4, <2>5, <2>6, <2>7 DEF Next, MainStep, Terminating
<1>3. PlaceInv => ZipIsKept
  BY DEF PlaceInv
<1> QED
  BY <1>1, <1>2, <1>3, PTL DEF Spec
=============================================================================
