----------------------------- MODULE PublishTool -----------------------------
(***************************************************************************)
(* gce_image_publish from its flags on: loading the templates, the publish *)
(* determination, the rollout policy and the creation of the workflows     *)
(* (publish.go), and then PublishMain.                                     *)
(*                                                                         *)
(* A template stands for its path and for the error it may lead to, a      *)
(* workflow for the image of a template that it publishes.  What the steps *)
(* of a workflow are is the subject of ImagePublish.                       *)
(***************************************************************************)
EXTENDS PublishMain, Sequences, SequencesExt

Template == LoadError

CONSTANTS
    ImagesOf,  \* the images of each template
    Facts,     \* launched, eol, ends and cadence of each image
    Zones,     \* region -> the names of its zones, numbers
    Days,      \* when the tool is run: day of the month, weekday, date
    FlagSets   \* the command lines

ASSUME ImagesAssumption ==
    /\ ImagesOf \in [Template -> SUBSET Workflow]
    /\ UNION {ImagesOf[t] : t \in Template} = Workflow

\* ends is the earlier of the dates that a template may give; what is neither empty
\* nor disabled is monthly.
ASSUME FactsAssumption ==
    Facts \in [Workflow -> [launched : {"yes", "no", "unknown"}, eol : BOOLEAN, ends : Int,
                            cadence : {"unset", "disabled", "monthly"}]]

\* The name of a zone is a number, in the order of the names; a zone has one region.
ASSUME ZonesAssumption ==
    /\ IsFiniteSet(DOMAIN Zones)
    /\ \A r \in DOMAIN Zones : Zones[r] \subseteq Nat /\ IsFiniteSet(Zones[r])
    /\ \A r, s \in DOMAIN Zones : r # s => Zones[r] \cap Zones[s] = {}

ASSUME DaysAssumption == Days \subseteq [day : 1..31, weekday : 0..6, date : Int]

ASSUME FlagsAssumption ==
    FlagSets \subseteq [determination : BOOLEAN, force : BOOLEAN, rollback : BOOLEAN,
                        direct : BOOLEAN, rate : Nat, matched : SUBSET Workflow]

VARIABLES
    flags,     \* the command line
    phase,     \* flags, load, create, or run: PublishMain
    todo,      \* templates to load, or whose workflows are to be created
    publishes, \* templates loaded
    current,   \* the template whose workflows are being created, if any
    today,     \* its rolloutStartTime
    left,      \* its images still to do
    made,      \* its workflows so far
    idle,      \* its images that need no steps
    policy     \* image -> the rollout policy just created: zone -> minute

templateVars == <<current, today, left, made, idle, policy>>
planVars == <<flags, phase, todo, publishes, templateVars>>
mainVars == <<pc, errors, goroutines, interrupted, outcome>>
toolVars == <<planVars, vars>>

ToolInit ==
    /\ flags \in FlagSets
    /\ phase = "flags"
    /\ \E t \in Template : todo = IF flags.direct THEN {t} ELSE Template
    /\ publishes = {} /\ current = {} /\ today \in Days
    /\ left = {} /\ made = {} /\ idle = {} /\ policy = <<>>
    /\ Init /\ ws = {} /\ errs = {}

(***************************************************************************)
(* Pure functions of publish.go.                                           *)
(***************************************************************************)

Tuesday == 2

isSecondTuesday(d) == d.weekday = Tuesday /\ d.day >= 8 /\ d.day <= 14

\* EOL is set, or the earlier of EOLDate and ObsoleteDate is not after d.
imageIsEOL(i, d) == Facts[i].eol \/ Facts[i].ends <= d.date

\* No cadence is no reason.
cadenceDetermination(i, d) ==
    /\ Facts[i].cadence # "unset"
    /\ Facts[i].cadence = "disabled" \/ ~isSecondTuesday(d)

\* The reasons not to publish an image in prod.
publishDetermination(i, d) ==
    {r \in {"launch", "EOL", "cadence"} :
        \/ r = "launch" /\ Facts[i].launched # "yes"
        \/ r = "EOL" /\ imageIsEOL(i, d)
        \/ r = "cadence" /\ cadenceDetermination(i, d)}

Regions == DOMAIN Zones
AllZones == UNION {Zones[r] : r \in Regions}

\* sort.Strings of the zones of each region.
Ascends(s) == \A i, j \in DOMAIN s : i < j => s[i] < s[j]
InOrder(r) == CHOOSE s \in SetToSeqs(Zones[r]) : Ascends(s)
Rounds == 1..Max({0} \cup {Cardinality(Zones[r]) : r \in Regions})

\* Mutant: the zones of one region after those of another.
ZoneListsByRegion ==
    {FlattenSeq([i \in DOMAIN o |-> InOrder(o[i])]) : o \in SetToSeqs(Regions)}

\* The k-th zone of each region that has one, by regions in this order.
Round(k, order) ==
    FlattenSeq([i \in DOMAIN order |->
        LET z == InOrder(order[i]) IN IF k <= Len(z) THEN <<z[k]>> ELSE <<>>])

\* The first zone of each region, then the second of each, and so on; range over
\* a map takes the regions in another order each time.
ZoneLists ==
    {FlattenSeq([k \in Rounds |-> Round(k, order[k])]) :
     order \in [Rounds -> SetToSeqs(Regions)]}

\* createRollOut: the i-th zone of the list i - 1 times the rate after the start.
RollOut(list) ==
    [times |-> [z \in Range(list) |->
                    flags.rate * ((CHOOSE i \in DOMAIN list : list[i] = z) - 1)],
     default |-> flags.rate * (Len(list) - 1)]

(***************************************************************************)
(* main, before there are workflows.                                       *)
(***************************************************************************)

\* The checks of the flags, each of which is an exit.
CheckFlags ==
    /\ phase = "flags" /\ pc = "planned"
    /\ \/ phase' = "load" /\ UNCHANGED <<pc, outcome>>
       \/ Exit("errors") /\ UNCHANGED phase
    /\ UNCHANGED <<flags, todo, publishes, templateVars, ws, errs, errors, goroutines,
                   interrupted>>

\* createPublish: a template that cannot be read, parsed or completed is an error,
\* and the others are still loaded.
LoadTemplate(t) ==
    /\ phase = "load" /\ ~flags.direct /\ t \in todo
    /\ todo' = todo \ {t}
    /\ \/ publishes' = publishes \cup {t} /\ UNCHANGED errs
       \/ errs' = errs \cup {t} /\ UNCHANGED publishes
    /\ UNCHANGED <<flags, phase, templateVars, ws, mainVars>>

\* CreateDirectPublish checks the parameters of the command line.
LoadDirect(t) ==
    /\ phase = "load" /\ flags.direct /\ t \in todo
    /\ todo' = {}
    /\ \/ publishes' = {t} /\ UNCHANGED errs
       \/ errs' = {t} /\ UNCHANGED publishes
    /\ UNCHANGED <<flags, phase, templateVars, ws, mainVars>>

LoadEnds ==
    /\ phase = "load" /\ todo = {}
    /\ phase' = "create" /\ todo' = publishes
    /\ UNCHANGED <<flags, publishes, templateVars, vars>>

\* PublishCreateWorkflows of the next template, with the time of its call.
BeginTemplate(t) ==
    /\ phase = "create" /\ current = {} /\ t \in todo
    /\ todo' = todo \ {t} /\ current' = {t}
    /\ today' \in Days
    /\ left' = ImagesOf[t] /\ made' = {} /\ idle' = {}
    /\ UNCHANGED <<flags, phase, publishes, policy, vars>>

\* Nothing is remembered of a template that is done.
Forget == current' = {} /\ left' = {} /\ made' = {} /\ idle' = {} /\ policy' = <<>>

\* Mutant: the workflows made so far are kept.
FailTemplateLate ==
    /\ errs' = errs \cup current
    /\ ws' = ws \cup made
    /\ Forget
    /\ UNCHANGED <<flags, phase, todo, publishes, today, mainVars>>

\* An error in one image: no workflow of its template, and the next template.
FailTemplate ==
    /\ errs' = errs \cup current
    /\ Forget
    /\ UNCHANGED <<flags, phase, todo, publishes, today, ws, mainVars>>

At(i) == phase = "create" /\ i \in left /\ policy = <<>>

\* -filter
FilterImage(i) ==
    /\ At(i) /\ i \notin flags.matched
    /\ left' = left \ {i}
    /\ UNCHANGED <<flags, phase, todo, publishes, current, today, made, idle, policy, vars>>

Determined == flags.determination /\ ~flags.rollback

\* The determination blocks an image, unless forced.
BlockImage(i) ==
    /\ At(i) /\ i \in flags.matched
    /\ Determined /\ ~flags.force /\ publishDetermination(i, today) # {}
    /\ FailTemplate

\* createWorkflow, up to the rollout policy: the list of images comes from the
\* project or from imagesCache.
CreateWorkflow(i) ==
    /\ At(i) /\ i \in flags.matched
    /\ Determined /\ ~flags.force => publishDetermination(i, today) = {}
    /\ \/ \E list \in ZoneLists :
            /\ policy' = [x \in {i} |-> RollOut(list)]
            /\ UNCHANGED <<flags, phase, todo, publishes, current, today, left, made, idle, vars>>
       \/ FailTemplate

\* populateWorkflow: an error, or steps, or none.
PopulateWorkflow(i) ==
    /\ phase = "create" /\ i \in DOMAIN policy
    /\ \/ FailTemplate
       \/ /\ left' = left \ {i} /\ policy' = <<>>
          /\ \/ made' = made \cup {i} /\ UNCHANGED idle
             \/ idle' = idle \cup {i} /\ UNCHANGED made
          /\ UNCHANGED <<flags, phase, todo, publishes, current, today, vars>>

\* The workflows of the template join those of the invocation.
EndTemplate ==
    /\ phase = "create" /\ current # {} /\ left = {}
    /\ ws' = ws \cup made
    /\ Forget
    /\ UNCHANGED <<flags, phase, todo, publishes, today, errs, mainVars>>

\* The errors so far are put into the channel.
PlanEnds ==
    /\ phase = "create" /\ current = {} /\ todo = {}
    /\ phase' = "run"
    /\ errors' = {FromLoad(e) : e \in errs}
    /\ UNCHANGED <<flags, todo, publishes, templateVars, ws, errs, pc, goroutines,
                   interrupted, outcome>>

PlanStep ==
    \/ CheckFlags \/ LoadEnds \/ EndTemplate \/ PlanEnds
    \/ \E t \in Template : LoadTemplate(t) \/ LoadDirect(t) \/ BeginTemplate(t)
    \/ \E i \in Workflow : \/ FilterImage(i) \/ BlockImage(i)
                           \/ CreateWorkflow(i) \/ PopulateWorkflow(i)

RunMain == phase = "run" /\ Next /\ UNCHANGED planVars

Rejected == phase = "flags" /\ pc = "exited" /\ UNCHANGED toolVars

ToolNext == PlanStep \/ RunMain \/ Rejected

ToolSpec ==
    /\ ToolInit /\ [][ToolNext]_toolVars
    /\ WF_toolVars(PlanStep)
    /\ WF_toolVars(RunMain /\ MainStep)
    /\ \A w \in Workflow :
        WF_toolVars(RunMain /\ RunStep(w)) /\ WF_toolVars(RunMain /\ Watch(w))

(***************************************************************************)
(* Properties.                                                             *)
(***************************************************************************)

\* Types of the variables, those of PublishMain included.
ToolTypeOK ==
    /\ TypeOK
    /\ flags \in FlagSets /\ today \in Days
    /\ phase \in {"flags", "load", "create", "run"}
    /\ todo \subseteq Template /\ publishes \subseteq Template
    /\ current \subseteq Template /\ Cardinality(current) <= 1
    /\ \A images \in {left, made, idle, DOMAIN policy} :
        \A t \in Template : t \in current => images \subseteq ImagesOf[t]
    /\ current = {} => left \cup made \cup idle \cup DOMAIN policy = {}

\* "The second Tuesday": one day of the month before it is a Tuesday.
PatchDay(d) ==
    d.weekday = Tuesday /\ Cardinality({e \in 1..(d.day - 1) : (d.day - e) % 7 = 0}) = 1

\* What determination means: launched, alive, and on its day if it has a cadence.
MayPublish(i, d) ==
    /\ Facts[i].launched = "yes" /\ ~Facts[i].eol /\ Facts[i].ends > d.date
    /\ \/ Facts[i].cadence = "unset"
       \/ Facts[i].cadence = "monthly" /\ PatchDay(d)

\* Workflows are added for a template as a whole: none if any of its images is
\* in error or blocked, and then with an error that main reports; otherwise one
\* for each image that matches and needs steps.
WholeTemplates ==
    [][ws' # ws =>
        \E t \in current :
            /\ t \notin errs'
            /\ \A i \in ws' \ ws : i \in ImagesOf[t] \cap flags.matched
            /\ \A i \in ImagesOf[t] \cap flags.matched : i \in ws' \/ i \in idle
            /\ Determined /\ ~flags.force =>
                \A i \in ws' \ ws : MayPublish(i, today)]_toolVars

\* Whatever the order of the map: a policy names every zone, no two zones get
\* the image at the same time (with a rate), no region gets it in its next zone
\* before every region has had its turn, and the default comes last.
RolloutSpread ==
    \A i \in DOMAIN policy :
        LET at == policy[i].times IN
        /\ DOMAIN at = AllZones
        /\ flags.rate > 0 => IsInjective(at)
        /\ \A r, s \in Regions, y \in AllZones, z \in AllZones :
            /\ y \in Zones[r] /\ z \in Zones[s]
            /\ Cardinality({x \in Zones[r] : x < y}) < Cardinality({x \in Zones[s] : x < z})
            => at[y] <= at[z]
        /\ \A z \in AllZones : at[z] <= policy[i].default

(***************************************************************************)
(* Inductive invariants.                                                   *)
(***************************************************************************)

\* Before the plan ends, main has not begun to run workflows.
Waiting ==
    /\ \/ pc = "planned" /\ outcome = "none"
       \/ pc = "exited" /\ outcome = "errors" /\ phase = "flags"
    /\ errors = {} /\ failed = {} /\ cancelled = {} /\ interrupted = FALSE
    /\ run = [w \in Workflow |-> "none"] /\ watcher = [w \in Workflow |-> "none"]
    /\ signal = [w \in Workflow |-> "off"]

MainInv == IF phase = "run" THEN TypeOK /\ SentInv /\ RoomInv ELSE Waiting

\* A template is still to do, loaded, current or in error, one at a time.
TemplatesInv ==
    /\ flags \in FlagSets /\ today \in Days
    /\ phase \in {"flags", "load", "create", "run"}
    /\ ws \subseteq Workflow /\ errs \subseteq Template
    /\ todo \subseteq Template /\ publishes \subseteq Template
    /\ current = {} \/ \E t \in Template : current = {t}
    /\ phase # "create" => current = {}
    /\ phase \in {"flags", "load"} => publishes \cap (errs \cup todo) = {}
    /\ (current \cup todo) \cap errs = {} /\ todo \cap current = {}

\* An image of the current template is still to do, has a workflow or is idle,
\* unless it is filtered; one that goes on was not blocked.
ImagesInv ==
    /\ current = {} => left \cup made \cup idle \cup DOMAIN policy = {}
    /\ \A t \in current :
        /\ left \cup made \cup idle \subseteq ImagesOf[t]
        /\ ImagesOf[t] \cap flags.matched \subseteq left \cup made \cup idle
    /\ DOMAIN policy \subseteq left /\ made \cup DOMAIN policy \subseteq flags.matched
    /\ Determined /\ ~flags.force =>
        \A i \in made \cup DOMAIN policy : publishDetermination(i, today) = {}

\* The policy is that of one of the lists of zones.
RolloutInv ==
    /\ flags \in FlagSets
    /\ \A i \in DOMAIN policy : \E list \in ZoneLists : policy[i] = RollOut(list)

ToolInv == MainInv /\ TemplatesInv /\ ImagesInv
=============================================================================
