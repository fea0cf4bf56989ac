-------------------------- MODULE PublishMainProofs --------------------------
(***************************************************************************)
(* PublishMain and PublishTool for any workflows, templates, images and    *)
(* command lines: their types, that a success reported is one, that without *)
(* Ctrl-C nothing blocks on the errors channel, that templates are         *)
(* published as a whole, and that a rollout is spread over the regions.    *)
(***************************************************************************)
EXTENDS PublishTool, FiniteSetTheorems, SequenceTheorems, WellFoundedInduction, TLAPS

\* Every step keeps the types.
LEMMA TypeStep == TypeOK /\ [Next]_vars => TypeOK'
<1> SUFFICES ASSUME TypeOK, [Next]_vars PROVE TypeOK'
  OBVIOUS
<1> USE DEF TypeOK, goroutines
<1>1. CASE DryRun
  BY <1>1 DEF DryRun, Error, FromValidate
<1>2. CASE Confirm
  BY <1>2 DEF Confirm, Exit
<1>3. CASE Wait
  BY <1>3 DEF Wait
<1>4. CASE CheckError
  BY <1>4 DEF CheckError, Exit
<1>5. CASE Interrupt
  BY <1>5 DEF Interrupt
<1>6. ASSUME NEW w \in Workflow, Start(w) PROVE TypeOK'
  BY <1>6 DEF Start
<1>7. ASSUME NEW w \in Workflow, RunStep(w) PROVE TypeOK'
  <2>1. CASE RunSucceeds(w)
    BY <2>1 DEF RunSucceeds
  <2>2. CASE RunFails(w)
    BY <2>2 DEF RunFails
  <2>3. CASE SendRunError(w)
    BY <2>3 DEF SendRunError, Error, FromRun
  <2> QED
    BY <1>7, <2>1, <2>2, <2>3 DEF RunStep
<1>8. ASSUME NEW w \in Workflow, Watch(w) PROVE TypeOK'
  <2>1. CASE WatchSignal(w)
    BY <2>1 DEF WatchSignal
  <2>2. CASE WatchCancel(w)
    BY <2>2 DEF WatchCancel
  <2>3. CASE SendWatcherError(w)
    BY <2>3 DEF SendWatcherError, Error, FromWatcher
  <2> QED
    BY <1>8, <2>1, <2>2, <2>3 DEF Watch
<1>9. CASE UNCHANGED vars
  BY <1>9 DEF vars
<1> QED
  BY <1>1, <1>2, <1>3, <1>4, <1>5, <1>6, <1>7, <1>8, <1>9
     DEF Next, MainStep, Terminating

\* Types of PublishMain.
THEOREM TypeCorrect == Spec => []TypeOK
<1>1. Init => TypeOK
  <2> SUFFICES ASSUME Init PROVE TypeOK
    OBVIOUS
  <2>1. interrupted \in BOOLEAN
    BY DEF Init
  <2>2. /\ errors \subseteq Error
        /\ \A w \in Workflow \ ws : run[w] = "none" /\ watcher[w] = "none"
    BY DEF Init, Error, FromLoad
  <2> QED
    BY <2>1, <2>2 DEF Init, TypeOK
<1>2. TypeOK /\ [Next]_vars => TypeOK'
  BY TypeStep
<1> QED
  BY <1>1, <1>2, PTL DEF Spec

(***************************************************************************)
(* A success that is reported is one.                                      *)
(***************************************************************************)

\* Every step keeps an error that was met.
LEMMA SentStep == TypeOK /\ SentInv /\ [Next]_vars => SentInv'
<1> SUFFICES ASSUME TypeOK, SentInv, [Next]_vars PROVE SentInv'
  OBVIOUS
<1> USE DEF TypeOK, SentInv, SuccessIsComplete, goroutines
<1>1. CASE DryRun
  BY <1>1 DEF DryRun
<1>2. CASE Confirm
  BY <1>2 DEF Confirm, Exit
<1>3. CASE Wait
  BY <1>3 DEF Wait
<1>4. CASE CheckError
  BY <1>4 DEF CheckError, Exit
<1>5. CASE Interrupt
  BY <1>5 DEF Interrupt
<1>6. ASSUME NEW w \in Workflow, Start(w) PROVE SentInv'
  BY <1>6 DEF Start
<1>7. ASSUME NEW w \in Workflow, RunStep(w) PROVE SentInv'
  <2>1. CASE RunSucceeds(w)
    BY <2>1 DEF RunSucceeds
  <2>2. CASE RunFails(w)
    BY <2>2 DEF RunFails
  <2>3. CASE SendRunError(w)
    BY <2>3 DEF SendRunError
  <2> QED
    BY <1>7, <2>1, <2>2, <2>3 DEF RunStep
<1>8. ASSUME NEW w \in Workflow, Watch(w) PROVE SentInv'
  <2>1. CASE WatchSignal(w)
    BY <2>1 DEF WatchSignal
  <2>2. CASE WatchCancel(w)
    BY <2>2 DEF WatchCancel
  <2>3. CASE SendWatcherError(w)
    BY <2>3 DEF SendWatcherError
  <2> QED
    BY <1>8, <2>1, <2>2, <2>3 DEF Watch
<1>9. CASE UNCHANGED vars
  BY <1>9 DEF vars
<1> QED
  BY <1>1, <1>2, <1>3, <1>4, <1>5, <1>6, <1>7, <1>8, <1>9
     DEF Next, MainStep, Terminating

\* Errors stay in the channel until the workflows have ended.
THEOREM SentInvariant == Spec => []SentInv
<1>1. Init => SentInv
  BY DEF Init, SentInv, SuccessIsComplete
<1>2. TypeOK /\ SentInv /\ [Next]_vars => SentInv'
  BY SentStep
<1> QED
  BY <1>1, <1>2, TypeCorrect, PTL DEF Spec

\* "Workflows completed successfully" means that.
THEOREM SuccessIsReal == Spec => []SuccessIsComplete
<1>1. SentInv => SuccessIsComplete
  BY DEF SentInv
<1> QED
  BY <1>1, SentInvariant, PTL

(***************************************************************************)
(* Without Ctrl-C the channel has room for every error.                    *)
(***************************************************************************)

\* Every step leaves room, unless Ctrl-C is typed.
LEMMA RoomStep == TypeOK /\ SentInv /\ RoomInv /\ [Next]_vars => RoomInv'
<1> SUFFICES ASSUME TypeOK, SentInv, RoomInv, [Next]_vars PROVE RoomInv'
  OBVIOUS
<1> USE DEF TypeOK, RoomInv, goroutines
<1>1. CASE DryRun
  BY <1>1 DEF DryRun
<1>2. CASE Confirm
  BY <1>2 DEF Confirm, Exit
<1>3. CASE Wait
  BY <1>3 DEF Wait
<1>4. CASE CheckError
  BY <1>4 DEF CheckError, Exit
<1>5. CASE Interrupt
  BY <1>5 DEF Interrupt
<1>6. ASSUME NEW w \in Workflow, Start(w) PROVE RoomInv'
  BY <1>6 DEF Start
<1>7. ASSUME NEW w \in Workflow, RunStep(w) PROVE RoomInv'
  <2>1. CASE RunSucceeds(w)
    BY <2>1 DEF RunSucceeds
  <2>2. CASE RunFails(w)
    BY <2>2 DEF RunFails
  <2>3. CASE SendRunError(w)
    BY <2>3 DEF SendRunError
  <2> QED
    BY <1>7, <2>1, <2>2, <2>3 DEF RunStep
<1>8. ASSUME NEW w \in Workflow, Watch(w) PROVE RoomInv'
  BY <1>8 DEF Watch, WatchSignal, WatchCancel, SendWatcherError
<1>9. CASE UNCHANGED vars
  BY <1>9 DEF vars
<1> QED
  BY <1>1, <1>2, <1>3, <1>4, <1>5, <1>6, <1>7, <1>8, <1>9
     DEF Next, MainStep, Terminating

\* Without Ctrl-C no watcher sends, and the channel holds the errors met before
\* and those of the workflows that are over.
THEOREM RoomInvariant == Spec => []RoomInv
<1>1. Init => RoomInv
  BY DEF Init, RoomInv
<1>2. TypeOK /\ SentInv /\ RoomInv /\ [Next]_vars => RoomInv'
  BY RoomStep
<1> QED
  BY <1>1, <1>2, TypeCorrect, SentInvariant, PTL DEF Spec

\* A channel that holds at most the load errors and one error of each workflow
\* but one has room.
LEMMA RoomForOne ==
    ASSUME NEW e, IsFiniteSet(e), NEW s, IsFiniteSet(s), NEW w \in s, NEW c,
           c \subseteq {FromLoad(x) : x \in e} \cup {FromRun(v) : v \in s \ {w}}
    PROVE  IsFiniteSet(c) /\ Cardinality(c) < Cardinality(s) + Cardinality(e)
<1> DEFINE loads == {FromLoad(x) : x \in e}
           runs == {FromRun(v) : v \in s \ {w}}
<1>1. IsFiniteSet(loads) /\ Cardinality(loads) <= Cardinality(e)
  <2>1. [x \in e |-> FromLoad(x)] \in Surjection(e, loads)
    BY DEF Surjection
  <2> QED
    BY <2>1, FS_Surjection
<1>2. IsFiniteSet(s \ {w}) /\ Cardinality(s \ {w}) = Cardinality(s) - 1
  BY FS_RemoveElement
<1>3. IsFiniteSet(runs) /\ Cardinality(runs) <= Cardinality(s \ {w})
  <2>1. [v \in s \ {w} |-> FromRun(v)] \in Surjection(s \ {w}, runs)
    BY DEF Surjection
  <2> QED
    BY <1>2, <2>1, FS_Surjection
<1>4. IsFiniteSet(loads \cap runs)
  BY <1>1, FS_Subset
<1>5. /\ IsFiniteSet(loads \cup runs)
      /\ Cardinality(loads \cup runs)
            = Cardinality(loads) + Cardinality(runs) - Cardinality(loads \cap runs)
  BY <1>1, <1>3, FS_Union
<1>6. Cardinality(c) <= Cardinality(loads \cup runs) /\ IsFiniteSet(c)
  BY <1>5, FS_Subset
<1>7. /\ Cardinality(loads) \in Nat /\ Cardinality(runs) \in Nat
      /\ Cardinality(loads \cap runs) \in Nat /\ Cardinality(c) \in Nat
      /\ Cardinality(loads \cup runs) \in Nat
      /\ Cardinality(s) \in Nat /\ Cardinality(e) \in Nat
  BY <1>1, <1>3, <1>4, <1>5, <1>6, FS_CardinalityType
<1> QED
  BY <1>1, <1>2, <1>3, <1>5, <1>6, <1>7

\* Where the invariants hold there is room.
LEMMA RoomFact ==
    ASSUME TypeOK, SentInv, RoomInv
    PROVE  RoomForEveryError
<1> SUFFICES ASSUME ~interrupted, NEW w \in ws, run[w] = "sending"
             PROVE  ~Full
  BY DEF RoomForEveryError
<1>1. IsFiniteSet(ws) /\ IsFiniteSet(errs)
  BY SetsAssumption, FS_Subset DEF TypeOK
<1>2. pc = "start"
  BY DEF TypeOK, SentInv
<1>3. errors \subseteq {FromLoad(x) : x \in errs} \cup {FromRun(v) : v \in ws \ {w}}
  BY <1>2 DEF RoomInv
<1>4. IsFiniteSet(errors) /\ Cardinality(errors) < Capacity
  BY <1>1, <1>3, RoomForOne DEF Capacity
<1>5. Cardinality(errors) \in Nat /\ Capacity \in Nat
  BY <1>1, <1>4, FS_CardinalityType DEF Capacity
<1> QED
  BY <1>4, <1>5 DEF Full

\* Without Ctrl-C a goroutine that has an error to send can send it.
THEOREM ErrorsNeverBlock == Spec => []RoomForEveryError
BY RoomFact, TypeCorrect, SentInvariant, RoomInvariant, PTL

(***************************************************************************)
(* The tool: its templates and images.                                     *)
(***************************************************************************)

\* The steps of the plan that change neither main nor the templates.
LEMMA TemplatesKept ==
    ASSUME TemplatesInv, UNCHANGED <<flags, phase, todo, publishes, current, errs>>,
           today' \in Days, ws' \subseteq Workflow
    PROVE  TemplatesInv'
BY DEF TemplatesInv

\* A template ends, in error or not.
LEMMA ForgetKeepsTemplates ==
    ASSUME TemplatesInv, ImagesInv, Forget, UNCHANGED <<flags, phase, todo, publishes, today>>,
           errs' \in {errs, errs \cup current}, ws' \subseteq Workflow
    PROVE  TemplatesInv' /\ ImagesInv'
<1>1. current' = {} /\ left' = {} /\ made' = {} /\ idle' = {} /\ DOMAIN policy' = {}
  BY DEF Forget
<1>2. ImagesInv'
  BY <1>1 DEF ImagesInv
<1>3. errs' \subseteq Template /\ todo \cap errs' = {}
  BY DEF TemplatesInv
<1> QED
  BY <1>1, <1>2, <1>3 DEF TemplatesInv

LEMMA FailKeepsTemplates ==
    ASSUME TemplatesInv, ImagesInv, FailTemplate
    PROVE  TemplatesInv' /\ ImagesInv'
<1>1. /\ Forget /\ UNCHANGED <<flags, phase, todo, publishes, today, ws>>
      /\ errs' = errs \cup current
  BY DEF FailTemplate
<1>2. ws' \subseteq Workflow
  BY <1>1 DEF TemplatesInv
<1> QED
  BY <1>1, <1>2, ForgetKeepsTemplates

\* The steps that leave the images.
LEMMA ImagesKept ==
    ASSUME ImagesInv, UNCHANGED <<flags, templateVars>>
    PROVE  ImagesInv'
BY DEF ImagesInv, templateVars, Determined, publishDetermination, imageIsEOL,
    cadenceDetermination, isSecondTuesday

\* The images of a template are workflows.
LEMMA MadeFact ==
    ASSUME TemplatesInv, ImagesInv
    PROVE  made \subseteq Workflow /\ left \subseteq Workflow
<1>1. CASE current = {}
  BY <1>1 DEF ImagesInv
<1>2. CASE current # {}
  <2>1. PICK t \in Template : current = {t}
    BY <1>2 DEF TemplatesInv
  <2> QED
    BY <2>1, ImagesAssumption DEF ImagesInv
<1> QED
  BY <1>1, <1>2

\* The steps before the workflows are created.
LEMMA LoadKeepsTemplates ==
    ASSUME TemplatesInv, ImagesInv,
           \/ CheckFlags \/ LoadEnds \/ PlanEnds
           \/ \E t \in Template : LoadTemplate(t) \/ LoadDirect(t)
    PROVE  TemplatesInv' /\ ImagesInv'
<1>1. UNCHANGED <<flags, templateVars, ws>>
  BY DEF CheckFlags, LoadEnds, PlanEnds, LoadTemplate, LoadDirect, vars
<1>2. ImagesInv'
  BY <1>1, ImagesKept
<1>3. UNCHANGED <<flags, today, current, ws>>
  BY <1>1 DEF templateVars
<1>4. CASE CheckFlags
  BY <1>2, <1>3, <1>4 DEF CheckFlags, TemplatesInv
<1>5. CASE LoadEnds
  BY <1>2, <1>3, <1>5 DEF LoadEnds, TemplatesInv, vars
<1>6. CASE PlanEnds
  BY <1>2, <1>3, <1>6 DEF PlanEnds, TemplatesInv
<1>7. ASSUME NEW t \in Template, LoadTemplate(t) PROVE TemplatesInv'
  BY <1>3, <1>7 DEF LoadTemplate, TemplatesInv
<1>8. ASSUME NEW t \in Template, LoadDirect(t) PROVE TemplatesInv'
  BY <1>3, <1>8 DEF LoadDirect, TemplatesInv
<1> QED
  BY <1>2, <1>4, <1>5, <1>6, <1>7, <1>8

\* The workflows of the templates.
LEMMA CreateKeepsTemplates ==
    ASSUME TemplatesInv, ImagesInv,
           EndTemplate \/ \E t \in Template : BeginTemplate(t)
    PROVE  TemplatesInv' /\ ImagesInv'
<1>1. CASE EndTemplate
  <2>1. /\ Forget /\ UNCHANGED <<flags, phase, todo, publishes, today, errs>>
        /\ ws' = ws \cup made
    BY <1>1 DEF EndTemplate
  <2>2. ws' \subseteq Workflow
    BY <2>1, MadeFact DEF TemplatesInv
  <2> QED
    BY <2>1, <2>2, ForgetKeepsTemplates
<1>2. ASSUME NEW t \in Template, BeginTemplate(t) PROVE TemplatesInv' /\ ImagesInv'
  <2>1. /\ phase = "create" /\ current = {} /\ t \in todo /\ todo' = todo \ {t}
        /\ current' = {t} /\ today' \in Days /\ left' = ImagesOf[t]
        /\ made' = {} /\ idle' = {} /\ UNCHANGED <<flags, phase, publishes, policy, ws, errs>>
    BY <1>2 DEF BeginTemplate, vars
  <2>2. TemplatesInv'
    BY <2>1 DEF TemplatesInv
  <2>3. DOMAIN policy' = {}
    BY <2>1 DEF ImagesInv
  <2> QED
    BY <2>1, <2>2, <2>3 DEF ImagesInv
<1> QED
  BY <1>1, <1>2

\* One image of the current template.
LEMMA ImageKeepsTemplates ==
    ASSUME TemplatesInv, ImagesInv, NEW i \in Workflow,
           FilterImage(i) \/ BlockImage(i) \/ CreateWorkflow(i) \/ PopulateWorkflow(i)
    PROVE  TemplatesInv' /\ ImagesInv'
<1>1. CASE FailTemplate
  BY <1>1, FailKeepsTemplates
<1> DEFINE all == left \cup made \cup idle
           sound(j) == Determined /\ ~flags.force => publishDetermination(j, today) = {}
<1>2. ASSUME UNCHANGED <<flags, phase, todo, publishes, current, today, ws, errs>>, i \in left,
             DOMAIN policy' \subseteq left', all' \subseteq all,
                 all \cap flags.matched \subseteq all',
             \A j \in made' \cup DOMAIN policy' :
                j \in made \cup DOMAIN policy \/ (j \in flags.matched /\ sound(j))
      PROVE  TemplatesInv' /\ ImagesInv'
  <2>1. TemplatesInv'
    BY <1>2, TemplatesKept DEF TemplatesInv
  <2>2. current # {}
    BY <1>2 DEF ImagesInv
  <2>3. \A t \in current' :
            /\ left' \cup made' \cup idle' \subseteq ImagesOf[t]
            /\ ImagesOf[t] \cap flags'.matched \subseteq left' \cup made' \cup idle'
    BY <1>2 DEF ImagesInv
  <2>4. made' \cup DOMAIN policy' \subseteq flags'.matched
    BY <1>2 DEF ImagesInv
  <2>5. ASSUME Determined', ~flags'.force, NEW j \in made' \cup DOMAIN policy'
        PROVE  publishDetermination(j, today') = {}
    <3>1. Determined /\ ~flags.force
      BY <1>2, <2>5 DEF Determined
    <3>2. publishDetermination(j, today) = {}
      BY <1>2, <2>5, <3>1 DEF ImagesInv
    <3> QED
      BY <1>2, <3>2
  <2> QED
    BY <1>2, <2>1, <2>2, <2>3, <2>4, <2>5 DEF ImagesInv
<1>3. CASE FilterImage(i)
  <2>1. /\ UNCHANGED <<flags, phase, todo, publishes, current, today, ws, errs>>
        /\ i \in left /\ i \notin flags.matched /\ left' = left \ {i} /\ policy = <<>>
        /\ UNCHANGED <<made, idle, policy>>
    BY <1>3 DEF FilterImage, At, vars
  <2>2. DOMAIN policy' = {}
    BY <2>1
  <2> QED
    BY <1>2, <2>1, <2>2
<1>4. CASE BlockImage(i)
  BY <1>1, <1>4 DEF BlockImage
<1>5. CASE CreateWorkflow(i) /\ ~FailTemplate
  <2>1. /\ UNCHANGED <<flags, phase, todo, publishes, current, today, ws, errs>>
        /\ i \in left /\ i \in flags.matched /\ sound(i) /\ DOMAIN policy' = {i}
        /\ UNCHANGED <<left, made, idle>>
    BY <1>5 DEF CreateWorkflow, At, vars
  <2> HIDE DEF sound
  <2> QED
    BY <1>2, <2>1
<1>6. CASE PopulateWorkflow(i) /\ ~FailTemplate
  <2>1. /\ UNCHANGED <<flags, phase, todo, publishes, current, today, ws, errs>>
        /\ i \in DOMAIN policy /\ left' = left \ {i} /\ policy' = <<>>
        /\ \/ made' = made \cup {i} /\ UNCHANGED idle
           \/ idle' = idle \cup {i} /\ UNCHANGED made
    BY <1>6 DEF PopulateWorkflow, vars
  <2>2. DOMAIN policy' = {} /\ i \in left
    BY <2>1 DEF ImagesInv
  <2> HIDE DEF sound
  <2> QED
    BY <1>2, <2>1, <2>2
<1> QED
  BY <1>1, <1>3, <1>4, <1>5, <1>6

LEMMA PlanKeepsTemplates ==
    ASSUME TemplatesInv, ImagesInv, PlanStep
    PROVE  TemplatesInv' /\ ImagesInv'
BY LoadKeepsTemplates, CreateKeepsTemplates, ImageKeepsTemplates DEF PlanStep

(***************************************************************************)
(* The tool: main.                                                         *)
(***************************************************************************)

\* The end of the plan is the beginning of PublishMain.
LEMMA PlanEndsBegins ==
    ASSUME Waiting, TemplatesInv, PlanEnds
    PROVE  TypeOK' /\ SentInv' /\ RoomInv'
<1>1. /\ phase = "create" /\ errors' = {FromLoad(e) : e \in errs}
      /\ UNCHANGED <<ws, errs, pc, goroutines, interrupted, outcome>>
  BY DEF PlanEnds
<1>2. /\ pc' = "planned" /\ outcome' = "none" /\ interrupted' = FALSE
      /\ failed' = {} /\ cancelled' = {} /\ errors' = {FromLoad(e) : e \in errs'}
      /\ run' = [w \in Workflow |-> "none"] /\ watcher' = [w \in Workflow |-> "none"]
      /\ signal' = [w \in Workflow |-> "off"]
  BY <1>1 DEF Waiting, goroutines
<1>3. ws' \subseteq Workflow /\ errs' \subseteq LoadError
  BY <1>1 DEF TemplatesInv, Template
<1>4. TypeOK'
  <2>1. errors' \subseteq Error
    BY <1>2, <1>3 DEF Error, FromLoad
  <2>2. /\ run' \in [Workflow -> {"none", "running", "sending", "over"}]
        /\ watcher' \in [Workflow -> {"none", "waiting", "sending", "over"}]
        /\ signal' \in [Workflow -> {"off", "empty", "full"}]
        /\ \A w \in Workflow : run'[w] = "none" /\ watcher'[w] = "none"
    BY <1>2
  <2> QED
    BY <1>2, <1>3, <2>1, <2>2 DEF TypeOK
<1>5. SentInv' /\ RoomInv'
  BY <1>2, <1>3 DEF SentInv, SuccessIsComplete, RoomInv
<1> QED
  BY <1>4, <1>5

\* The other steps of the plan leave main alone.
LEMMA PlanKeepsMain ==
    ASSUME MainInv, TemplatesInv, PlanStep
    PROVE  MainInv'
<1>1. phase # "run"
  BY DEF PlanStep, CheckFlags, LoadEnds, EndTemplate, PlanEnds, LoadTemplate, LoadDirect,
      BeginTemplate, FilterImage, BlockImage, CreateWorkflow, PopulateWorkflow, At, TemplatesInv
<1>2. Waiting
  BY <1>1 DEF MainInv
<1>3. CASE CheckFlags
  BY <1>2, <1>3 DEF CheckFlags, Waiting, MainInv, Exit, goroutines
<1>4. CASE PlanEnds
  <2>1. phase' = "run"
    BY <1>4 DEF PlanEnds
  <2> QED
    BY <1>2, <1>4, <2>1, PlanEndsBegins DEF MainInv
<1>5. CASE UNCHANGED mainVars /\ phase' # "run" /\ phase # "flags"
  BY <1>2, <1>5 DEF mainVars, goroutines, Waiting, MainInv
<1>6. CASE LoadEnds \/ EndTemplate
  BY <1>5, <1>6 DEF LoadEnds, EndTemplate, vars, mainVars
<1>7. ASSUME NEW t \in Template, LoadTemplate(t) \/ LoadDirect(t) \/ BeginTemplate(t)
      PROVE  MainInv'
  BY <1>5, <1>7 DEF LoadTemplate, LoadDirect, BeginTemplate, vars, mainVars
<1>8. ASSUME NEW i \in Workflow,
             FilterImage(i) \/ BlockImage(i) \/ CreateWorkflow(i) \/ PopulateWorkflow(i)
      PROVE  MainInv'
  BY <1>5, <1>8 DEF FilterImage, BlockImage, CreateWorkflow, PopulateWorkflow, FailTemplate, At,
      vars, mainVars
<1> QED
  BY <1>3, <1>4, <1>6, <1>7, <1>8 DEF PlanStep

LEMMA ToolInvariant == ToolSpec => []ToolInv
<1>1. ToolInit => ToolInv
  <2> SUFFICES ASSUME ToolInit PROVE ToolInv
    OBVIOUS
  <2>1. MainInv
    BY DEF ToolInit, Init, MainInv, Waiting
  <2>2. DOMAIN policy = {}
    BY DEF ToolInit
  <2>3. TemplatesInv
    BY DEF ToolInit, TemplatesInv
  <2>4. ImagesInv
    BY <2>2 DEF ToolInit, ImagesInv
  <2> QED
    BY <2>1, <2>3, <2>4 DEF ToolInv
<1>2. ToolInv /\ [ToolNext]_toolVars => ToolInv'
  <2> SUFFICES ASSUME ToolInv, [ToolNext]_toolVars PROVE ToolInv'
    OBVIOUS
  <2>1. CASE PlanStep
    BY <2>1, PlanKeepsTemplates, PlanKeepsMain DEF ToolInv
  <2>2. CASE RunMain
    <3>1. phase = "run" /\ phase' = "run" /\ UNCHANGED planVars /\ Next
      BY <2>2 DEF RunMain, planVars
    <3>2. TypeOK' /\ SentInv' /\ RoomInv'
      BY <3>1, TypeStep, SentStep, RoomStep DEF ToolInv, MainInv
    <3>3. TemplatesInv'
      <4>1. ws' \subseteq Workflow /\ errs' \subseteq Template
        BY <3>2 DEF TypeOK, Template
      <4>2. UNCHANGED errs
        BY <3>1 DEF Next, MainStep, DryRun, Confirm, Wait, CheckError, Start, Interrupt,
            Terminating, RunStep, RunSucceeds, RunFails, SendRunError, Watch, WatchSignal,
            WatchCancel, SendWatcherError, vars
      <4> QED
        BY <3>1, <4>1, <4>2, TemplatesKept DEF ToolInv, TemplatesInv, planVars, templateVars
    <3>4. ImagesInv'
      BY <3>1, ImagesKept DEF ToolInv, planVars
    <3> QED
      BY <3>1, <3>2, <3>3, <3>4 DEF ToolInv, MainInv
  <2>3. CASE Rejected \/ UNCHANGED toolVars
    <3>1. UNCHANGED <<planVars, templateVars, vars, flags>>
      BY <2>3 DEF Rejected, toolVars, planVars
    <3>2. ImagesInv'
      BY <3>1, ImagesKept DEF ToolInv
    <3>3. TemplatesInv'
      BY <3>1, TemplatesKept DEF ToolInv, TemplatesInv, planVars, templateVars, vars
    <3>4. MainInv'
      <4>1. UNCHANGED phase
        BY <3>1 DEF planVars
      <4>2. CASE phase = "run"
        BY <3>1, <4>1, <4>2, TypeStep, SentStep, RoomStep DEF ToolInv, MainInv
      <4>3. CASE phase # "run"
        BY <3>1, <4>1, <4>3 DEF ToolInv, MainInv, Waiting, vars, goroutines
      <4> QED
        BY <4>2, <4>3
    <3> QED
      BY <3>2, <3>3, <3>4 DEF ToolInv
  <2> QED
    BY <2>1, <2>2, <2>3 DEF ToolNext
<1> QED
  BY <1>1, <1>2, PTL DEF ToolSpec

\* Whatever the templates and the command line, main starts with what the plan has
\* left: its types, its errors and the room for them.
LEMMA ToolFact ==
    ASSUME ToolInv
    PROVE  TypeOK /\ SuccessIsComplete /\ RoomForEveryError
<1>1. CASE phase = "run"
  BY <1>1, RoomFact DEF ToolInv, MainInv, SentInv
<1>2. CASE phase # "run"
  <2>1. Waiting /\ ws \subseteq Workflow /\ errs \subseteq LoadError
    BY <1>2 DEF ToolInv, MainInv, TemplatesInv, Template
  <2>2. TypeOK
    <3>1. /\ run \in [Workflow -> {"none", "running", "sending", "over"}]
          /\ watcher \in [Workflow -> {"none", "waiting", "sending", "over"}]
          /\ signal \in [Workflow -> {"off", "empty", "full"}]
          /\ \A w \in Workflow : run[w] = "none" /\ watcher[w] = "none"
      BY <2>1 DEF Waiting
    <3>2. interrupted = FALSE
      BY <2>1 DEF Waiting
    <3> QED
      BY <2>1, <3>1, <3>2 DEF Waiting, TypeOK
  <2> QED
    BY <2>1, <2>2 DEF Waiting, SuccessIsComplete, RoomForEveryError
<1> QED
  BY <1>1, <1>2

\* From its flags on the tool reports a success only if every template was loaded
\* and every workflow ended without an error, and sends no error into a full
\* channel unless Ctrl-C is typed.
THEOREM ToolIsSafe == ToolSpec => [](SuccessIsComplete /\ RoomForEveryError)
BY ToolFact, ToolInvariant, PTL

\* Types of the tool: one template at a time, of whose images it knows only its own.
THEOREM ToolTypeCorrect == ToolSpec => []ToolTypeOK
<1>1. ToolInv => ToolTypeOK
  <2> SUFFICES ASSUME ToolInv PROVE ToolTypeOK
    OBVIOUS
  <2>1. TemplatesInv /\ ImagesInv /\ TypeOK
    BY ToolFact DEF ToolInv
  <2>2. Cardinality(current) <= 1
    <3>1. CASE current = {}
      BY <3>1, FS_EmptySet
    <3>2. ASSUME NEW t \in Template, current = {t} PROVE Cardinality(current) <= 1
      BY <3>2, FS_Singleton
    <3> QED
      BY <2>1, <3>1, <3>2 DEF TemplatesInv
  <2>3. \A images \in {left, made, idle, DOMAIN policy} :
            \A t \in Template : t \in current => images \subseteq ImagesOf[t]
    BY <2>1 DEF ImagesInv
  <2>4. current \subseteq Template
    BY <2>1 DEF TemplatesInv
  <2> QED
    BY <2>1, <2>2, <2>3, <2>4 DEF ToolTypeOK, TemplatesInv, ImagesInv
<1> QED
  BY <1>1, ToolInvariant, PTL

(***************************************************************************)
(* The tool: templates are published as a whole, and what is blocked is    *)
(* not.                                                                    *)
(***************************************************************************)

\* Exactly one day of the month before the second Tuesday is a Tuesday.
LEMMA SecondTuesday ==
    ASSUME NEW d \in Days, isSecondTuesday(d)
    PROVE  PatchDay(d)
<1>1. d.day \in 8..14 /\ d.weekday = Tuesday
  BY DaysAssumption DEF isSecondTuesday
<1> DEFINE earlier == {e \in 1..(d.day - 1) : (d.day - e) % 7 = 0}
<1>2. earlier = {d.day - 7}
  <2>1. ASSUME NEW e \in 1..(d.day - 1), (d.day - e) % 7 = 0 PROVE e = d.day - 7
    BY <1>1, <2>1
  <2>2. d.day - 7 \in 1..(d.day - 1) /\ (d.day - (d.day - 7)) % 7 = 0
    BY <1>1
  <2> QED
    BY <2>1, <2>2
<1>3. Cardinality(earlier) = 1
  BY <1>2, FS_Singleton
<1> QED
  BY <1>1, <1>3 DEF PatchDay

\* An image without a reason against it may be published.
LEMMA Undetermined ==
    ASSUME NEW i \in Workflow, NEW d \in Days, publishDetermination(i, d) = {}
    PROVE  MayPublish(i, d)
<1>1. /\ Facts[i].launched = "yes" /\ ~imageIsEOL(i, d) /\ ~cadenceDetermination(i, d)
  BY DEF publishDetermination
<1>2. ~Facts[i].eol /\ Facts[i].ends > d.date
  BY <1>1, FactsAssumption, DaysAssumption DEF imageIsEOL
<1>3. \/ Facts[i].cadence = "unset"
      \/ Facts[i].cadence = "monthly" /\ isSecondTuesday(d)
  BY <1>1, FactsAssumption DEF cadenceDetermination
<1> QED
  BY <1>1, <1>2, <1>3, SecondTuesday DEF MayPublish

\* A template adds all its workflows or none, without an error in between, and
\* none of an image that the determination blocks.
THEOREM TemplatesAreWhole == ToolSpec => WholeTemplates
<1> DEFINE Whole ==
        ws' # ws =>
            \E t \in current :
                /\ t \notin errs'
                /\ \A i \in ws' \ ws : i \in ImagesOf[t] \cap flags.matched
                /\ \A i \in ImagesOf[t] \cap flags.matched : i \in ws' \/ i \in idle
                /\ Determined /\ ~flags.force =>
                    \A i \in ws' \ ws : MayPublish(i, today)
<1>1. ToolInv /\ [ToolNext]_toolVars => [Whole]_toolVars
  <2> SUFFICES ASSUME ToolInv, [ToolNext]_toolVars, ws' # ws PROVE Whole
    OBVIOUS
  <2>1. EndTemplate
    BY DEF ToolNext, PlanStep, CheckFlags, LoadEnds, EndTemplate, PlanEnds, LoadTemplate,
        LoadDirect, BeginTemplate, FilterImage, BlockImage, CreateWorkflow, PopulateWorkflow,
        FailTemplate, RunMain, Rejected, toolVars, vars, Next, MainStep, DryRun, Confirm, Wait,
        CheckError, Start, Interrupt, Terminating, RunStep, RunSucceeds, RunFails, SendRunError,
        Watch, WatchSignal, WatchCancel, SendWatcherError
  <2>2. current # {} /\ left = {} /\ ws' = ws \cup made /\ errs' = errs
    BY <2>1 DEF EndTemplate
  <2>3. TemplatesInv /\ ImagesInv
    BY DEF ToolInv
  <2>4. PICK t \in Template : current = {t}
    BY <2>2, <2>3 DEF TemplatesInv
  <2>5. t \notin errs' /\ today \in Days
    BY <2>2, <2>3, <2>4 DEF TemplatesInv
  <2>6. /\ made \subseteq ImagesOf[t] \cap flags.matched
        /\ ImagesOf[t] \cap flags.matched \subseteq made \cup idle
    BY <2>2, <2>3, <2>4 DEF ImagesInv
  <2>7. Determined /\ ~flags.force => \A i \in made : MayPublish(i, today)
    <3>1. made \subseteq Workflow
      BY <2>3, MadeFact
    <3>2. Determined /\ ~flags.force => \A i \in made : publishDetermination(i, today) = {}
      BY <2>3 DEF ImagesInv
    <3> QED
      BY <2>5, <3>1, <3>2, Undetermined
  <2> QED
    BY <2>2, <2>4, <2>5, <2>6, <2>7
<1> QED
  BY <1>1, ToolInvariant, PTL DEF ToolSpec, WholeTemplates

(***************************************************************************)
(* What a concatenation of sequences holds, and what FlattenSeq makes of a *)
(* sequence of them: FlattenSeq is a recursive function, unfolded here,    *)
(* and an induction on the natural numbers is an argument about the least  *)
(* number for which a fact fails.                                          *)
(***************************************************************************)

\* f holds the concatenations of the first sequences of s.
Unfolds(f, s, n) ==
    f = [i \in 1..n |-> IF i = 1 THEN s[i] ELSE f[i-1] \o s[i]]

LEMMA FlattenIs ==
  ASSUME NEW s, Len(s) # 0
  PROVE FlattenSeq(s) = (CHOOSE f : Unfolds(f, s, Len(s)))[Len(s)]
BY DEF FlattenSeq, Unfolds

\* Smallest counterexample: the form of induction that is used here.
LEMMA LeastOf ==
  ASSUME NEW T \in SUBSET Nat, T # {}
  PROVE  \E x \in T : \A y \in T : x =< y
<1>1. PICK x \in T : \A y \in T : ~(<<y, x>> \in OpToRel(<, Nat))
  BY NatLessThanWellFounded, WFMin
<1>2. ASSUME NEW y \in T PROVE x =< y
  <2>1. x \in Nat /\ y \in Nat /\ <<y, x>> \in Nat \X Nat
    OBVIOUS
  <2>2. y < x => <<y, x>> \in {ss \in Nat \X Nat : ss[1] < ss[2]}
    BY <2>1
  <2>3. y < x => <<y, x>> \in OpToRel(<, Nat)
    BY <2>2 DEF OpToRel
  <2>4. ~(y < x)
    BY <1>1, <2>3
  <2> QED
    BY <2>1, <2>4
<1> QED
  BY <1>2

LEMMA UnfoldsExists ==
  ASSUME NEW s, NEW n \in Nat
  PROVE  \E f : Unfolds(f, s, n)
<1> DEFINE T == {m \in Nat : ~ \E f : Unfolds(f, s, m)}
<1>1. ASSUME T # {} PROVE FALSE
  <2>1. PICK m \in T : \A y \in T : m =< y
    BY <1>1, LeastOf
  <2>2. CASE m = 0
    <3>1. Unfolds([i \in {} |-> 0], s, 0)
      BY DEF Unfolds
    <3> QED
      BY <2>1, <2>2, <3>1
  <2>3. CASE m # 0
    <3>1. m - 1 \in Nat /\ m - 1 \notin T
      BY <2>1, <2>3
    <3>2. PICK g : Unfolds(g, s, m - 1)
      BY <3>1
    <3> DEFINE f == [i \in 1..m |-> IF i = m THEN IF m = 1 THEN s[1] ELSE g[m-1] \o s[m]
                                    ELSE g[i]]
    <3>3. \A i \in 1..m : f[i] = IF i = 1 THEN s[i] ELSE f[i-1] \o s[i]
      <4> TAKE i \in 1..m
      <4>1. \A j \in 1..(m-1) : g[j] = IF j = 1 THEN s[j] ELSE g[j-1] \o s[j]
        BY <3>2 DEF Unfolds
      <4>2. CASE i = m
        BY <2>3, <4>2
      <4>3. CASE i # m
        <5>1. i \in 1..(m-1) /\ (i # 1 => i - 1 \in 1..(m-1) /\ i - 1 \in 1..m /\ i - 1 # m)
          BY <3>1, <4>3
        <5> QED
          BY <4>1, <4>3, <5>1
      <4> QED
        BY <4>2, <4>3
    <3>4. Unfolds(f, s, m)
      <4>1. f = [i \in 1..m |-> f[i]]
        OBVIOUS
      <4>2. [i \in 1..m |-> f[i]] = [i \in 1..m |-> IF i = 1 THEN s[i] ELSE f[i-1] \o s[i]]
        <5> HIDE DEF f
        <5> QED
          BY <3>3
      <4> QED
        BY <4>1, <4>2 DEF Unfolds
    <3> QED
      BY <2>1, <3>4
  <2> QED
    BY <2>2, <2>3
<1> QED
  BY <1>1

LEMMA FlattenUnfolds ==
  ASSUME NEW s, Len(s) \in Nat \ {0}
  PROVE  \E f : Unfolds(f, s, Len(s)) /\ FlattenSeq(s) = f[Len(s)]
BY FlattenIs, UnfoldsExists

\* What a concatenation holds.
LEMMA RangeOfConcat ==
  ASSUME NEW S, NEW a \in Seq(S), NEW b \in Seq(S)
  PROVE  /\ a \o b \in Seq(S)
         /\ Range(a \o b) = Range(a) \cup Range(b)
         /\ IsInjective(a) /\ IsInjective(b) /\ Range(a) \cap Range(b) = {}
              => IsInjective(a \o b)
<1> DEFINE c == a \o b
<1>1. /\ c \in Seq(S) /\ Len(c) = Len(a) + Len(b)
      /\ Len(a) \in Nat /\ Len(b) \in Nat
      /\ DOMAIN a = 1..Len(a) /\ DOMAIN b = 1..Len(b) /\ DOMAIN c = 1..Len(c)
  BY ConcatProperties, LenProperties
<1>2. \A i \in DOMAIN c : c[i] = IF i <= Len(a) THEN a[i] ELSE b[i - Len(a)]
  BY <1>1, ConcatProperties
<1> HIDE DEF c
<1>3. \A i \in DOMAIN c : \/ i \in DOMAIN a /\ c[i] = a[i]
                          \/ i - Len(a) \in DOMAIN b /\ c[i] = b[i - Len(a)]
                             /\ i \notin DOMAIN a
  BY <1>1, <1>2
<1>4. \A i \in DOMAIN a : i \in DOMAIN c /\ c[i] = a[i]
  BY <1>1, <1>2
<1>5. \A i \in DOMAIN b : i + Len(a) \in DOMAIN c /\ c[i + Len(a)] = b[i]
  <2> TAKE i \in DOMAIN b
  <2>1. i + Len(a) \in DOMAIN c /\ ~(i + Len(a) <= Len(a)) /\ i + Len(a) - Len(a) = i
    BY <1>1
  <2> QED
    BY <1>2, <2>1
<1>6. Range(c) = Range(a) \cup Range(b)
  BY <1>3, <1>4, <1>5 DEF Range
<1>7. ASSUME IsInjective(a), IsInjective(b), Range(a) \cap Range(b) = {},
             NEW i \in DOMAIN c, NEW j \in DOMAIN c, c[i] = c[j]
      PROVE  i = j
  <2>1. CASE i \in DOMAIN a /\ j \in DOMAIN a
    BY <1>4, <1>7, <2>1 DEF IsInjective
  <2>2. CASE i \notin DOMAIN a /\ j \notin DOMAIN a
    <3>1. i - Len(a) = j - Len(a)
      BY <1>3, <1>7, <2>2 DEF IsInjective
    <3> QED
      BY <1>1, <3>1
  <2>3. CASE ~(i \in DOMAIN a <=> j \in DOMAIN a)
    BY <1>3, <1>4, <1>7, <2>3 DEF Range
  <2> QED
    BY <2>1, <2>2, <2>3
<1> QED
  BY <1>1, <1>6, <1>7 DEF c, IsInjective

\* The sequences have no element twice and none in common.
Apart(s) ==
    /\ \A i \in DOMAIN s : IsInjective(s[i])
    /\ \A i, j \in DOMAIN s : i # j => Range(s[i]) \cap Range(s[j]) = {}


\* The elements of the i-th sequence have their turn in the i-th place.
InTurns(s, turn) == \A i \in DOMAIN s : \A x \in Range(s[i]) : turn[x] = i
Rises(s, turn) == \A i, j \in DOMAIN s : i < j => turn[s[i]] <= turn[s[j]]

LEMMA ConcatRises ==
    ASSUME NEW a \in Seq(Nat), NEW b \in Seq(Nat), NEW turn, NEW k \in Nat, Rises(a, turn),
           \A x \in Range(a) : turn[x] \in Nat /\ turn[x] < k, \A x \in Range(b) : turn[x] = k
    PROVE  Rises(a \o b, turn)
<1> DEFINE c == a \o b
<1> PICK m \in Nat : m = Len(a)
  BY LenProperties
<1> PICK n \in Nat : n = Len(b)
  BY LenProperties
<1>1. /\ c \in Seq(Nat) /\ Len(c) = m + n
      /\ DOMAIN a = 1..m /\ DOMAIN b = 1..n /\ DOMAIN c = 1..(m + n)
  BY ConcatProperties, LenProperties
<1>2. \A i \in 1..(m + n) : c[i] = IF i <= m THEN a[i] ELSE b[i - m]
  BY ConcatProperties
<1> HIDE DEF c
<1>3. ASSUME NEW i \in 1..(m + n), NEW j \in 1..(m + n), i < j
      PROVE  turn[c[i]] <= turn[c[j]]
  <2>1. CASE j <= m
    <3>1. i \in 1..m /\ j \in 1..m /\ i <= m
      BY <1>3, <2>1
    <3> QED
      BY <1>1, <1>2, <1>3, <2>1, <3>1 DEF Rises
  <2>2. CASE ~(j <= m)
    <3>1. j - m \in 1..n
      BY <2>2
    <3>2. turn[c[j]] = k
      BY <1>1, <1>2, <2>2, <3>1 DEF Range
    <3>3. CASE i <= m
      <4>1. i \in 1..m
        BY <3>3
      <4>2. turn[c[i]] \in Nat /\ turn[c[i]] < k
        BY <1>1, <1>2, <3>3, <4>1 DEF Range
      <4> QED
        BY <3>2, <4>2
    <3>4. CASE ~(i <= m)
      <4>1. i - m \in 1..n
        BY <3>4
      <4>2. turn[c[i]] = k
        BY <1>1, <1>2, <3>4, <4>1 DEF Range
      <4> QED
        BY <3>2, <4>2
    <3> QED
      BY <3>3, <3>4
  <2> QED
    BY <2>1, <2>2
<1> QED
  BY <1>1, <1>3 DEF c, Rises

\* What FlattenSeq returns.
LEMMA FlattenHolds ==
    ASSUME NEW s \in Seq(Seq(Nat)), NEW turn
    PROVE  /\ FlattenSeq(s) \in Seq(Nat)
           /\ Range(FlattenSeq(s)) = UNION {Range(s[i]) : i \in DOMAIN s}
           /\ Apart(s) => IsInjective(FlattenSeq(s))
           /\ InTurns(s, turn) => Rises(FlattenSeq(s), turn)
<1>0. Len(s) \in Nat /\ DOMAIN s = 1..Len(s) /\ \A i \in 1..Len(s) : s[i] \in Seq(Nat)
  BY LenProperties, ElementOfSeq
<1>1. CASE Len(s) = 0
  <2>1. s = <<>> /\ FlattenSeq(s) = s
    BY <1>1, EmptySeq DEF FlattenSeq
  <2>2. DOMAIN s = {} /\ <<>> \in Seq(Nat)
    BY <2>1
  <2>3. /\ Range(FlattenSeq(s)) = {} /\ IsInjective(FlattenSeq(s))
        /\ Rises(FlattenSeq(s), turn)
    BY <2>1, <2>2 DEF Range, IsInjective, Rises
  <2> QED
    BY <2>1, <2>2, <2>3
<1>2. CASE Len(s) # 0
  <2> DEFINE n == Len(s)
             First(m) == UNION {Range(s[i]) : i \in 1..m}
  <2>1. PICK f : Unfolds(f, s, n) /\ FlattenSeq(s) = f[n]
    BY <1>0, <1>2, FlattenUnfolds
  <2>2. \A i \in 1..n : f[i] = IF i = 1 THEN s[i] ELSE f[i - 1] \o s[i]
    BY <2>1 DEF Unfolds
  <2> DEFINE T == {m \in 1..n : ~ (/\ f[m] \in Seq(Nat)
                                   /\ Range(f[m]) = First(m)
                                   /\ Apart(s) => IsInjective(f[m])
                                   /\ InTurns(s, turn) => Rises(f[m], turn))}
  <2>3. ASSUME T # {} PROVE FALSE
    <3>0. T \in SUBSET Nat
      BY <1>0
    <3>1. PICK m \in T : \A k \in T : m =< k
      BY <2>3, <3>0, LeastOf
    <3>a. m \in 1..n /\ n \in Nat
      BY <1>0
    <3>2. CASE m = 1
      <4>1. f[m] = s[1] /\ s[1] \in Seq(Nat) /\ 1 \in DOMAIN s
        BY <1>0, <2>2, <3>a, <3>2
      <4>2. First(1) = Range(s[1])
        OBVIOUS
      <4>3. ASSUME InTurns(s, turn) PROVE Rises(s[1], turn)
        <5>1. \A x \in Range(s[1]) : turn[x] = 1
          BY <4>1, <4>3 DEF InTurns
        <5>2. \A i \in DOMAIN s[1] : turn[s[1][i]] = 1
          BY <5>1 DEF Range
        <5> QED
          BY <5>2 DEF Rises
      <4> QED
        BY <3>2, <4>1, <4>2, <4>3 DEF Apart
    <3>3. CASE m # 1
      <4>1. m - 1 \in 1..n /\ ~(m =< m - 1)
        BY <3>a, <3>3
      <4>2. /\ f[m - 1] \in Seq(Nat)
            /\ Range(f[m - 1]) = First(m - 1)
            /\ Apart(s) => IsInjective(f[m - 1])
            /\ InTurns(s, turn) => Rises(f[m - 1], turn)
        BY <3>1, <4>1
      <4>3. f[m] = f[m - 1] \o s[m] /\ s[m] \in Seq(Nat)
        BY <1>0, <2>2, <3>a, <3>3
      <4>4. First(m) = First(m - 1) \cup Range(s[m])
        <5>1. 1..m = 1..(m - 1) \cup {m}
          BY <3>a
        <5> QED
          BY <5>1
      <4>5. Apart(s) => IsInjective(s[m]) /\ First(m - 1) \cap Range(s[m]) = {}
        <5>1. \A i \in 1..(m - 1) : i \in DOMAIN s /\ i # m
          BY <1>0, <3>a
        <5>2. m \in DOMAIN s
          BY <1>0, <3>a
        <5> QED
          BY <5>1, <5>2 DEF Apart
      <4>a. InTurns(s, turn) => /\ \A x \in Range(s[m]) : turn[x] = m
                                /\ \A x \in First(m - 1) : turn[x] \in Nat /\ turn[x] < m
        <5>1. m \in DOMAIN s /\ \A i \in 1..(m - 1) : i \in DOMAIN s /\ i \in Nat /\ i < m
          BY <1>0, <3>a
        <5> QED
          BY <5>1 DEF InTurns
      <4> HIDE DEF First
      <4>6. /\ f[m] \in Seq(Nat) /\ Range(f[m]) = First(m)
            /\ Apart(s) => IsInjective(f[m])
        BY <4>2, <4>3, <4>4, <4>5, RangeOfConcat
      <4>7. ASSUME InTurns(s, turn) PROVE Rises(f[m], turn)
        <5>1. /\ Rises(f[m - 1], turn) /\ m \in Nat
              /\ \A x \in Range(f[m - 1]) : turn[x] \in Nat /\ turn[x] < m
              /\ \A x \in Range(s[m]) : turn[x] = m
          BY <3>a, <4>2, <4>a, <4>7
        <5>2. Rises(f[m - 1] \o s[m], turn)
          BY <4>2, <4>3, <5>1, ConcatRises
        <5> QED
          BY <4>3, <5>2
      <4> QED
        BY <4>6, <4>7
    <3> QED
      BY <3>2, <3>3
  <2>4. n \in 1..n
    BY <1>0, <1>2
  <2>5. /\ f[n] \in Seq(Nat) /\ Range(f[n]) = First(n)
        /\ Apart(s) => IsInjective(f[n])
        /\ InTurns(s, turn) => Rises(f[n], turn)
    BY <2>3, <2>4
  <2> QED
    BY <1>0, <2>1, <2>5
<1> QED
  BY <1>1, <1>2

\* A sequence of SetToSeqs has each element of the set once.
LEMMA Enumerates ==
    ASSUME NEW S, IsFiniteSet(S), NEW s \in SetToSeqs(S)
    PROVE  /\ Cardinality(S) \in Nat /\ s \in [1..Cardinality(S) -> S]
           /\ s \in Seq(S) /\ Len(s) = Cardinality(S)
           /\ Range(s) = S /\ IsInjective(s)
<1> PICK n \in Nat : n = Cardinality(S)
  BY FS_CardinalityType
<1>1. s \in [1..n -> S] /\ \A i, j \in 1..n : i # j => s[i] # s[j]
  BY DEF SetToSeqs
<1>2. IsInjective(s)
  BY <1>1 DEF IsInjective
<1>3. s \in Injection(1..n, S)
  BY <1>1, <1>2 DEF Injection
<1>4. Cardinality(1..n) = n
  <2>1. 1 \in Int /\ n \in Int /\ (IF 1 > n THEN 0 ELSE n - 1 + 1) = n
    OBVIOUS
  <2>2. Cardinality(1..n) = IF 1 > n THEN 0 ELSE n - 1 + 1
    BY <2>1, FS_Interval
  <2> QED
    BY <2>1, <2>2
<1>5. s \in Surjection(1..n, S)
  BY <1>3, <1>4, FS_Injection
<1>6. Range(s) = S
  BY <1>1, <1>5 DEF Surjection, Range
<1>7. s \in Seq(S) /\ Len(s) = n
  BY <1>1
<1> QED
  BY <1>1, <1>2, <1>6, <1>7

\* A finite set of numbers can be sorted.
LEMMA SortedExists ==
    ASSUME NEW S \in SUBSET Nat, IsFiniteSet(S)
    PROVE  \E s \in SetToSeqs(S) : Ascends(s)
<1> DEFINE UpTo(x) == {y \in S : y <= x}
           rank == [x \in S |-> Cardinality(UpTo(x))]
<1> PICK n \in Nat : n = Cardinality(S)
  BY FS_CardinalityType
<1>1. ASSUME NEW x \in S
      PROVE  /\ IsFiniteSet(UpTo(x)) /\ Cardinality(UpTo(x)) \in 1..n
  <2>1. UpTo(x) \in SUBSET S /\ UpTo(x) # {}
    <3>1. x <= x
      OBVIOUS
    <3> QED
      BY <3>1
  <2>2. IsFiniteSet(UpTo(x)) /\ Cardinality(UpTo(x)) <= n
    BY <2>1, FS_Subset
  <2>3. Cardinality(UpTo(x)) \in Nat /\ Cardinality(UpTo(x)) # 0
    BY <2>1, <2>2, FS_CardinalityType, FS_EmptySet
  <2> HIDE DEF UpTo
  <2> QED
    BY <2>2, <2>3
<1>2. ASSUME NEW x \in S, NEW y \in S, x < y
      PROVE  Cardinality(UpTo(x)) < Cardinality(UpTo(y))
  <2>1. UpTo(x) \in SUBSET UpTo(y) /\ y \in UpTo(y) /\ y \notin UpTo(x)
    <3>1. \A z \in S : z <= x => z <= y
      BY <1>2
    <3>2. y <= y /\ ~(y <= x)
      BY <1>2
    <3> QED
      BY <3>1, <3>2
  <2>2. /\ Cardinality(UpTo(x)) <= Cardinality(UpTo(y))
        /\ Cardinality(UpTo(x)) # Cardinality(UpTo(y))
    BY <1>1, <2>1, FS_Subset
  <2>3. Cardinality(UpTo(x)) \in Nat /\ Cardinality(UpTo(y)) \in Nat
    BY <1>1
  <2> HIDE DEF UpTo
  <2> QED
    BY <2>2, <2>3
<1> HIDE DEF UpTo
<1>3. rank \in Injection(S, 1..n)
  <2>1. rank \in [S -> 1..n]
    BY <1>1
  <2>2. ASSUME NEW x \in S, NEW y \in S, rank[x] = rank[y] PROVE x = y
    <3>1. x \in Nat /\ y \in Nat /\ ~(x < y) /\ ~(y < x)
      <4>1. rank[x] \in Nat /\ rank[y] \in Nat
        BY <2>1
      <4>2. (x < y => rank[x] < rank[y]) /\ (y < x => rank[y] < rank[x])
        BY <1>2
      <4> QED
        BY <2>2, <4>1, <4>2
    <3> QED
      BY <3>1
  <2> QED
    BY <2>1, <2>2 DEF Injection, IsInjective
<1>4. IsFiniteSet(1..n) /\ Cardinality(1..n) = n
  <2>1. 1 \in Int /\ n \in Int /\ (IF 1 > n THEN 0 ELSE n - 1 + 1) = n
    OBVIOUS
  <2>2. IsFiniteSet(1..n) /\ Cardinality(1..n) = IF 1 > n THEN 0 ELSE n - 1 + 1
    BY <2>1, FS_Interval
  <2> QED
    BY <2>1, <2>2
<1>5. rank \in Surjection(S, 1..n)
  BY <1>3, <1>4, FS_Injection
<1> DEFINE s == [k \in 1..n |-> CHOOSE x \in S : rank[x] = k]
<1>6. \A k \in 1..n : s[k] \in S /\ rank[s[k]] = k
  BY <1>5 DEF Surjection
<1>7. s \in SetToSeqs(S)
  <2>1. s \in [1..n -> S] /\ \A i, j \in 1..n : i # j => s[i] # s[j]
    BY <1>6
  <2> HIDE DEF s
  <2> QED
    BY <2>1 DEF SetToSeqs
<1>8. ASSUME NEW i \in 1..n, NEW j \in 1..n, i < j PROVE s[i] < s[j]
  <2>1. s[i] \in S /\ s[j] \in S /\ rank[s[i]] = i /\ rank[s[j]] = j
    BY <1>6
  <2> HIDE DEF s
  <2>2. s[i] # s[j] /\ s[i] \in Nat /\ s[j] \in Nat
    <3>1. i # j
      BY <1>8
    <3> QED
      BY <2>1, <3>1
  <2>3. ~(s[j] < s[i])
    <3>1. s[j] < s[i] => rank[s[j]] < rank[s[i]]
      BY <1>2, <2>1
    <3> QED
      BY <1>8, <2>1, <3>1
  <2> QED
    BY <2>2, <2>3
<1> QED
  BY <1>7, <1>8 DEF Ascends

\* The k-th of the sorted elements has k - 1 before it.
LEMMA SortedBefore ==
    ASSUME NEW S \in SUBSET Nat, IsFiniteSet(S), NEW s \in SetToSeqs(S), Ascends(s),
           NEW k \in DOMAIN s
    PROVE  Cardinality({x \in S : x < s[k]}) = k - 1
<1> PICK n \in Nat : n = Cardinality(S)
  BY FS_CardinalityType
<1>1. s \in [1..n -> S] /\ Range(s) = S /\ IsInjective(s) /\ k \in 1..n
  BY Enumerates
<1> DEFINE less == {x \in S : x < s[k]}
           f == [i \in 1..(k - 1) |-> s[i]]
<1>2. \A i \in 1..n : s[i] < s[k] <=> i < k
  <2> TAKE i \in 1..n
  <2>1. s[i] \in Nat /\ s[k] \in Nat
    BY <1>1
  <2>2. (i < k => s[i] < s[k]) /\ (k < i => s[k] < s[i])
    BY <1>1 DEF Ascends
  <2>3. i = k => ~(s[i] < s[k])
    BY <2>1
  <2> QED
    BY <1>1, <2>1, <2>2, <2>3
<1>3. \A i \in 1..(k - 1) : i \in 1..n /\ i < k
  BY <1>1
<1>4. \A i \in 1..n : i < k => i \in 1..(k - 1)
  BY <1>1
<1>5. f \in Bijection(1..(k - 1), less)
  <2>1. f \in [1..(k - 1) -> less]
    BY <1>1, <1>2, <1>3
  <2>2. \A x \in less : \E i \in 1..(k - 1) : f[i] = x
    <3> TAKE x \in less
    <3>1. PICK i \in 1..n : s[i] = x
      BY <1>1 DEF Range
    <3> QED
      BY <1>2, <1>4, <3>1
  <2>3. IsInjective(f)
    BY <1>1, <1>3 DEF IsInjective
  <2> HIDE DEF f, less
  <2> QED
    BY <2>1, <2>2, <2>3 DEF Bijection, Injection, Surjection
<1>6. IsFiniteSet(1..(k - 1)) /\ Cardinality(1..(k - 1)) = k - 1
  <2>1. 1 \in Int /\ k - 1 \in Int /\ (IF 1 > k - 1 THEN 0 ELSE k - 1 - 1 + 1) = k - 1
    BY <1>1
  <2>2. /\ IsFiniteSet(1..(k - 1))
        /\ Cardinality(1..(k - 1)) = IF 1 > k - 1 THEN 0 ELSE k - 1 - 1 + 1
    BY <2>1, FS_Interval
  <2> QED
    BY <2>1, <2>2
<1> HIDE DEF f, less
<1>7. Cardinality(less) = Cardinality(1..(k - 1))
  BY <1>5, <1>6, FS_Bijection DEF ExistsBijection
<1> QED
  BY <1>6, <1>7 DEF less

(***************************************************************************)
(* The zones of a rollout.                                                 *)
(***************************************************************************)

\* The zones of a region, sorted.
LEMMA InOrderIs ==
    ASSUME NEW r \in Regions
    PROVE  InOrder(r) \in SetToSeqs(Zones[r]) /\ Ascends(InOrder(r))
<1>1. Zones[r] \in SUBSET Nat /\ IsFiniteSet(Zones[r])
  BY ZonesAssumption DEF Regions
<1> QED
  BY <1>1, SortedExists DEF InOrder

\* There are as many rounds as a region has zones, at most.
LEMMA RoundsAre ==
    /\ \E m \in Nat : Rounds = 1..m
    /\ \A r \in Regions : 1..Cardinality(Zones[r]) \subseteq Rounds
<1> DEFINE size == [r \in Regions |-> Cardinality(Zones[r])]
           sizes == {0} \cup {Cardinality(Zones[r]) : r \in Regions}
<1>1. \A r \in Regions : Cardinality(Zones[r]) \in Nat
  BY ZonesAssumption, FS_CardinalityType DEF Regions
<1>2. IsFiniteSet(AllZones)
  <2> DEFINE parts == {Zones[r] : r \in Regions}
             part == [r \in Regions |-> Zones[r]]
  <2>1. part \in Surjection(Regions, parts)
    BY DEF Surjection
  <2>2. IsFiniteSet(Regions) /\ \A p \in parts : IsFiniteSet(p)
    BY ZonesAssumption DEF Regions
  <2> HIDE DEF part, parts
  <2>3. IsFiniteSet(parts)
    BY <2>1, <2>2, FS_Surjection
  <2> QED
    BY <2>2, <2>3, FS_UNION DEF AllZones, parts
<1>3. PICK n \in Nat : n = Cardinality(AllZones)
  BY <1>2, FS_CardinalityType
<1>4. \A r \in Regions : Cardinality(Zones[r]) <= n
  <2> TAKE r \in Regions
  <2>1. Zones[r] \in SUBSET AllZones
    BY DEF AllZones
  <2> QED
    BY <1>2, <1>3, <2>1, FS_Subset
<1> DEFINE bounds == {m \in Nat : \A x \in sizes : x <= m}
<1>5. n \in bounds /\ bounds \in SUBSET Nat
  BY <1>4
<1>6. PICK m \in bounds : \A k \in bounds : m =< k
  BY <1>5, LeastOf
<1>7. sizes \subseteq Nat /\ 0 \in sizes
  BY <1>1
<1>8. m \in Nat /\ \A x \in sizes : x <= m
  OBVIOUS
<1>9. m \in sizes
  <2> SUFFICES ASSUME m \notin sizes PROVE FALSE
    OBVIOUS
  <2>1. m # 0
    BY <1>7
  <2> HIDE DEF sizes
  <2>2. m - 1 \in Nat
    BY <1>8, <2>1
  <2>3. \A x \in sizes : x <= m - 1
    <3> TAKE x \in sizes
    <3>1. x \in Nat /\ x <= m /\ x # m
      BY <1>7, <1>8
    <3> QED
      BY <1>8, <3>1
  <2>4. m =< m - 1
    BY <1>6, <2>2, <2>3
  <2> QED
    BY <1>8, <2>4
<1> HIDE DEF sizes, bounds
<1>10. PICK x \in sizes : x = Max(sizes) /\ \A y \in sizes : x >= y
  <2>1. \A y \in sizes : m >= y
    BY <1>7, <1>8
  <2> QED
    BY <1>9, <2>1 DEF Max
<1>11. Rounds = 1..x
  BY <1>10 DEF Rounds, sizes
<1>12. \A r \in Regions : Cardinality(Zones[r]) \in sizes
  BY DEF sizes
<1>13. \A r \in Regions : 1..Cardinality(Zones[r]) \subseteq 1..x
  <2> TAKE r \in Regions
  <2>1. Cardinality(Zones[r]) \in Nat /\ x \in Nat /\ Cardinality(Zones[r]) <= x
    BY <1>1, <1>7, <1>10, <1>12
  <2> QED
    BY <2>1
<1> QED
  BY <1>7, <1>11, <1>13

\* The region of a zone and the round in which it gets the image.
Home(z) == CHOOSE r \in Regions : z \in Zones[r]
Turn == [z \in AllZones |-> Cardinality({x \in Zones[Home(z)] : x < z}) + 1]

LEMMA HomeIs ==
    ASSUME NEW r \in Regions, NEW z \in Zones[r]
    PROVE  z \in AllZones /\ Home(z) = r /\ Turn[z] = Cardinality({x \in Zones[r] : x < z}) + 1
<1>1. z \in AllZones
  BY DEF AllZones
<1>2. Home(z) \in Regions /\ z \in Zones[Home(z)]
  BY DEF Home
<1>3. Home(z) = r
  BY <1>2, ZonesAssumption DEF Regions
<1> QED
  BY <1>1, <1>3 DEF Turn

\* The k-th zone of a region has its turn in round k.
LEMMA TurnOfZone ==
    ASSUME NEW r \in Regions, NEW k \in 1..Len(InOrder(r))
    PROVE  InOrder(r)[k] \in Zones[r] /\ Turn[InOrder(r)[k]] = k
<1>1. Zones[r] \in SUBSET Nat /\ IsFiniteSet(Zones[r])
  BY ZonesAssumption DEF Regions
<1> PICK s \in SetToSeqs(Zones[r]) : s = InOrder(r) /\ Ascends(s)
  BY InOrderIs
<1>2. s \in Seq(Zones[r]) /\ k \in DOMAIN s /\ s[k] \in Zones[r]
  BY <1>1, Enumerates, LenProperties, ElementOfSeq
<1>3. Cardinality({x \in Zones[r] : x < s[k]}) = k - 1
  BY <1>1, <1>2, SortedBefore
<1>4. k \in Nat /\ k - 1 + 1 = k
  OBVIOUS
<1> QED
  BY <1>2, <1>3, <1>4, HomeIs

\* A round takes, from each region that has one, its k-th zone.
LEMMA RoundIs ==
    ASSUME NEW k \in Rounds, NEW order \in SetToSeqs(Regions)
    PROVE  /\ Round(k, order) \in Seq(Nat) /\ IsInjective(Round(k, order))
           /\ \A z \in Range(Round(k, order)) : z \in AllZones /\ Turn[z] = k
           /\ \A r \in Regions :
                k <= Len(InOrder(r)) => InOrder(r)[k] \in Range(Round(k, order))
<1> DEFINE piece(r) == IF k <= Len(InOrder(r)) THEN <<InOrder(r)[k]>> ELSE <<>>
           pieces == [i \in DOMAIN order |-> piece(order[i])]
<1>1. k \in Nat \ {0}
  BY RoundsAre
<1>2. /\ DOMAIN order = 1..Len(order) /\ Len(order) \in Nat
      /\ \A i \in DOMAIN order : order[i] \in Regions
      /\ Range(order) = Regions /\ IsInjective(order)
  <2>1. IsFiniteSet(Regions)
    BY ZonesAssumption DEF Regions
  <2> QED
    BY <2>1, Enumerates, LenProperties, ElementOfSeq
<1>3. ASSUME NEW r \in Regions
      PROVE  /\ piece(r) \in Seq(Nat) /\ IsInjective(piece(r))
             /\ \A z \in Range(piece(r)) : z \in Zones[r] /\ Turn[z] = k
             /\ k <= Len(InOrder(r)) => InOrder(r)[k] \in Range(piece(r))
  <2>1. CASE k <= Len(InOrder(r))
    <3>1. k \in 1..Len(InOrder(r))
      <4>1. Len(InOrder(r)) \in Nat
        BY InOrderIs, Enumerates, ZonesAssumption DEF Regions
      <4> QED
        BY <1>1, <2>1, <4>1
    <3> PICK z : z = InOrder(r)[k]
      OBVIOUS
    <3>2. z \in Zones[r] /\ Turn[z] = k /\ z \in Nat
      BY <3>1, TurnOfZone, ZonesAssumption DEF Regions
    <3>3. piece(r) = <<z>>
      BY <2>1
    <3>4. <<z>> \in Seq(Nat) /\ IsInjective(<<z>>) /\ Range(<<z>>) = {z}
      BY <3>2 DEF IsInjective, Range
    <3> QED
      BY <3>2, <3>3, <3>4
  <2>2. CASE ~(k <= Len(InOrder(r)))
    <3>1. piece(r) = <<>>
      BY <2>2
    <3>2. <<>> \in Seq(Nat) /\ IsInjective(<<>>) /\ Range(<<>>) = {}
      BY DEF IsInjective, Range
    <3> QED
      BY <2>2, <3>1, <3>2
  <2> QED
    BY <2>1, <2>2
<1>4. Round(k, order) = FlattenSeq(pieces)
  BY DEF Round
<1> HIDE DEF piece
<1>5. /\ pieces \in Seq(Seq(Nat)) /\ DOMAIN pieces = DOMAIN order
      /\ \A i \in DOMAIN order : pieces[i] = piece(order[i])
  <2>1. pieces \in [1..Len(order) -> Seq(Nat)]
    BY <1>2, <1>3
  <2> QED
    BY <1>2, <2>1
<1> HIDE DEF pieces
<1>6. Apart(pieces)
  <2>1. \A i \in DOMAIN pieces : IsInjective(pieces[i])
    BY <1>2, <1>3, <1>5
  <2>2. ASSUME NEW i \in DOMAIN pieces, NEW j \in DOMAIN pieces, i # j
        PROVE  Range(pieces[i]) \cap Range(pieces[j]) = {}
    <3>1. order[i] \in Regions /\ order[j] \in Regions /\ order[i] # order[j]
      BY <1>2, <1>5, <2>2 DEF IsInjective
    <3>2. Zones[order[i]] \cap Zones[order[j]] = {}
      BY <3>1, ZonesAssumption DEF Regions
    <3> QED
      BY <1>3, <1>5, <3>1, <3>2
  <2> QED
    BY <2>1, <2>2 DEF Apart
<1>7. /\ FlattenSeq(pieces) \in Seq(Nat) /\ IsInjective(FlattenSeq(pieces))
      /\ Range(FlattenSeq(pieces)) = UNION {Range(pieces[i]) : i \in DOMAIN pieces}
  BY <1>5, <1>6, FlattenHolds
<1>8. ASSUME NEW z \in Range(FlattenSeq(pieces)) PROVE z \in AllZones /\ Turn[z] = k
  <2>1. PICK i \in DOMAIN order : z \in Range(piece(order[i]))
    BY <1>5, <1>7
  <2> QED
    BY <1>2, <1>3, <2>1 DEF AllZones
<1>9. ASSUME NEW r \in Regions, k <= Len(InOrder(r))
      PROVE  InOrder(r)[k] \in Range(FlattenSeq(pieces))
  <2>1. PICK i \in DOMAIN order : order[i] = r
    BY <1>2 DEF Range
  <2>2. InOrder(r)[k] \in Range(pieces[i])
    BY <1>3, <1>5, <1>9, <2>1
  <2> QED
    BY <1>5, <1>7, <2>1, <2>2
<1> QED
  BY <1>4, <1>7, <1>8, <1>9

\* Whatever the order of the map, the list has each zone once, round by round.
LEMMA ListIs ==
    ASSUME NEW list \in ZoneLists
    PROVE  /\ list \in Seq(Nat) /\ Range(list) = AllZones
           /\ IsInjective(list) /\ Rises(list, Turn)
<1>1. PICK order \in [Rounds -> SetToSeqs(Regions)] :
        list = FlattenSeq([k \in Rounds |-> Round(k, order[k])])
  BY DEF ZoneLists
<1> PICK rounds : rounds = [k \in Rounds |-> Round(k, order[k])]
  OBVIOUS
<1> PICK m \in Nat : Rounds = 1..m
  BY RoundsAre
<1>2. ASSUME NEW k \in Rounds
      PROVE  /\ rounds[k] \in Seq(Nat) /\ IsInjective(rounds[k])
             /\ \A z \in Range(rounds[k]) : z \in AllZones /\ Turn[z] = k
             /\ \A r \in Regions :
                    k <= Len(InOrder(r)) => InOrder(r)[k] \in Range(rounds[k])
  <2>1. rounds[k] = Round(k, order[k]) /\ order[k] \in SetToSeqs(Regions)
    OBVIOUS
  <2> QED
    BY <2>1, RoundIs
<1>3. rounds \in Seq(Seq(Nat)) /\ DOMAIN rounds = Rounds
  <2>1. rounds \in [1..m -> Seq(Nat)]
    BY <1>2
  <2> QED
    BY <2>1
<1>4. Apart(rounds)
  <2>1. \A i \in DOMAIN rounds : IsInjective(rounds[i])
    BY <1>2, <1>3
  <2>2. ASSUME NEW i \in DOMAIN rounds, NEW j \in DOMAIN rounds, i # j,
               NEW z \in Range(rounds[i]) \cap Range(rounds[j])
        PROVE  FALSE
    <3>1. Turn[z] = i /\ Turn[z] = j
      BY <1>2, <1>3
    <3> QED
      BY <2>2, <3>1
  <2> QED
    BY <2>1, <2>2 DEF Apart
<1>5. InTurns(rounds, Turn)
  BY <1>2, <1>3 DEF InTurns
<1>6. /\ list \in Seq(Nat) /\ IsInjective(list) /\ Rises(list, Turn)
      /\ Range(list) = UNION {Range(rounds[k]) : k \in DOMAIN rounds}
  BY <1>1, <1>3, <1>4, <1>5, FlattenHolds
<1>7. Range(list) \subseteq AllZones
  BY <1>2, <1>3, <1>6
<1>8. ASSUME NEW z \in AllZones PROVE z \in Range(list)
  <2>1. PICK r \in Regions : z \in Zones[r]
    BY DEF AllZones
  <2>2. /\ Range(InOrder(r)) = Zones[r] /\ Len(InOrder(r)) = Cardinality(Zones[r])
        /\ Len(InOrder(r)) \in Nat /\ DOMAIN InOrder(r) = 1..Len(InOrder(r))
    BY InOrderIs, Enumerates, LenProperties, ZonesAssumption DEF Regions
  <2>3. PICK k \in 1..Len(InOrder(r)) : InOrder(r)[k] = z
    BY <2>1, <2>2 DEF Range
  <2>4. k \in Rounds /\ k <= Len(InOrder(r))
    BY <2>2, RoundsAre
  <2> QED
    BY <1>2, <1>3, <1>6, <2>3, <2>4
<1> QED
  BY <1>6, <1>7, <1>8

\* Later is not earlier, and with a rate two places have two times.
LEMMA Times ==
    ASSUME NEW rate \in Nat, NEW i \in Nat, NEW j \in Nat
    PROVE  /\ i <= j => rate * i <= rate * j
           /\ rate > 0 /\ rate * i = rate * j => i = j
OBVIOUS

\* A rollout along one of the lists is spread.
LEMMA RollOutSpread ==
    ASSUME flags.rate \in Nat, NEW list \in ZoneLists, NEW i, policy[i] = RollOut(list)
    PROVE  LET at == policy[i].times IN
           /\ DOMAIN at = AllZones
           /\ flags.rate > 0 => IsInjective(at)
           /\ \A r, s \in Regions, y \in AllZones, z \in AllZones :
               /\ y \in Zones[r] /\ z \in Zones[s]
               /\ Cardinality({x \in Zones[r] : x < y}) < Cardinality({x \in Zones[s] : x < z})
               => at[y] <= at[z]
           /\ \A z \in AllZones : at[z] <= policy[i].default
<1> DEFINE at == policy[i].times
           rate == flags.rate
           place(z) == CHOOSE n \in DOMAIN list : list[n] = z
<1>1. /\ list \in Seq(Nat) /\ Range(list) = AllZones
      /\ IsInjective(list) /\ Rises(list, Turn)
  BY ListIs
<1> PICK m \in Nat : m = Len(list)
  BY <1>1, LenProperties
<1>2. DOMAIN list = 1..m
  BY <1>1, LenProperties
<1>3. /\ DOMAIN at = AllZones /\ policy[i].default = rate * (m - 1)
      /\ \A z \in AllZones : at[z] = rate * (place(z) - 1)
  BY <1>1 DEF RollOut
<1>4. \A z \in AllZones : place(z) \in 1..m /\ list[place(z)] = z
  BY <1>1, <1>2 DEF Range
<1> HIDE DEF at, place
<1>5. \A z \in AllZones : place(z) - 1 \in Nat /\ m - 1 \in Nat /\ place(z) - 1 <= m - 1
  BY <1>4
<1>6. ASSUME rate > 0, NEW y \in AllZones, NEW z \in AllZones, at[y] = at[z]
      PROVE  y = z
  <2>1. place(y) - 1 = place(z) - 1
    BY <1>3, <1>5, <1>6, Times
  <2>2. place(y) = place(z)
    BY <1>4, <2>1
  <2> QED
    BY <1>4, <2>2
<1>7. ASSUME NEW r \in Regions, NEW s \in Regions, NEW y \in Zones[r], NEW z \in Zones[s],
             Cardinality({x \in Zones[r] : x < y}) < Cardinality({x \in Zones[s] : x < z})
      PROVE  at[y] <= at[z]
  <2>1. /\ y \in AllZones /\ Turn[y] = Cardinality({x \in Zones[r] : x < y}) + 1
        /\ z \in AllZones /\ Turn[z] = Cardinality({x \in Zones[s] : x < z}) + 1
    BY HomeIs
  <2>2. /\ Cardinality({x \in Zones[r] : x < y}) \in Nat
        /\ Cardinality({x \in Zones[s] : x < z}) \in Nat
    <3>1. /\ {x \in Zones[r] : x < y} \in SUBSET Zones[r] /\ IsFiniteSet(Zones[r])
          /\ {x \in Zones[s] : x < z} \in SUBSET Zones[s] /\ IsFiniteSet(Zones[s])
      BY ZonesAssumption DEF Regions
    <3> QED
      BY <3>1, FS_Subset, FS_CardinalityType
  <2>3. ~(Turn[z] <= Turn[y])
    BY <1>7, <2>1, <2>2
  <2>4. ~(place(z) < place(y))
    BY <1>1, <1>2, <1>4, <2>1, <2>3 DEF Rises
  <2>5. place(y) - 1 <= place(z) - 1
    BY <1>4, <2>1, <2>4
  <2> QED
    BY <1>3, <1>5, <2>1, <2>5, Times
<1>8. ASSUME NEW z \in AllZones PROVE at[z] <= policy[i].default
  BY <1>3, <1>5, Times
<1> QED
  BY <1>3, <1>6, <1>7, <1>8 DEF IsInjective, at

\* A policy, once created, is used or forgotten but not changed, and neither are
\* the flags.
LEMMA RolloutStep == RolloutInv /\ [ToolNext]_toolVars => RolloutInv'
<1> SUFFICES ASSUME RolloutInv, [ToolNext]_toolVars PROVE RolloutInv'
  OBVIOUS
<1>1. UNCHANGED flags
  BY DEF ToolNext, PlanStep, CheckFlags, LoadEnds, EndTemplate, PlanEnds, LoadTemplate,
      LoadDirect, BeginTemplate, FilterImage, BlockImage, CreateWorkflow, PopulateWorkflow,
      FailTemplate, RunMain, Rejected, toolVars, planVars
<1>2. \/ UNCHANGED policy \/ policy' = <<>>
      \/ \E i \in Workflow : \E list \in ZoneLists : policy' = [x \in {i} |-> RollOut(list)]
  BY DEF ToolNext, PlanStep, CheckFlags, LoadEnds, EndTemplate, PlanEnds, LoadTemplate,
      LoadDirect, BeginTemplate, FilterImage, BlockImage, CreateWorkflow, PopulateWorkflow,
      FailTemplate, Forget, RunMain, Rejected, toolVars, planVars, templateVars
<1>3. \A list : RollOut(list)' = RollOut(list)
  BY <1>1 DEF RollOut
<1>4. CASE UNCHANGED policy
  BY <1>1, <1>3, <1>4 DEF RolloutInv
<1>5. CASE policy' = <<>>
  <2>1. DOMAIN policy' = {}
    BY <1>5
  <2> QED
    BY <1>1, <2>1 DEF RolloutInv
<1>6. CASE \E i \in Workflow : \E list \in ZoneLists : policy' = [x \in {i} |-> RollOut(list)]
  BY <1>1, <1>3, <1>6 DEF RolloutInv
<1> QED
  BY <1>2, <1>4, <1>5, <1>6

\* Whatever regions and zones there are and however the map orders them, a rollout
\* policy names every zone once, in the order of the rounds.
THEOREM RolloutIsSpread == ToolSpec => []RolloutSpread
<1>1. ToolInit => RolloutInv
  <2> SUFFICES ASSUME ToolInit PROVE RolloutInv
    OBVIOUS
  <2>1. DOMAIN policy = {}
    BY DEF ToolInit
  <2> QED
    BY <2>1 DEF ToolInit, RolloutInv
<1>2. RolloutInv => RolloutSpread
  <2> SUFFICES ASSUME RolloutInv, NEW i \in DOMAIN policy
               PROVE  LET at == policy[i].times IN
                      /\ DOMAIN at = AllZones
                      /\ flags.rate > 0 => IsInjective(at)
                      /\ \A r, s \in Regions, y \in AllZones, z \in AllZones :
                          /\ y \in Zones[r] /\ z \in Zones[s]
                          /\ Cardinality({x \in Zones[r] : x < y})
                                < Cardinality({x \in Zones[s] : x < z})
                          => at[y] <= at[z]
                      /\ \A z \in AllZones : at[z] <= policy[i].default
    BY DEF RolloutSpread
  <2>1. flags.rate \in Nat
    BY FlagsAssumption DEF RolloutInv
  <2>2. PICK list \in ZoneLists : policy[i] = RollOut(list)
    BY DEF RolloutInv
  <2> QED
    BY <2>1, <2>2, RollOutSpread
<1> QED
  BY <1>1, <1>2, RolloutStep, PTL DEF ToolSpec
=============================================================================
