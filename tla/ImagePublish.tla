---------------------------- MODULE ImagePublish ----------------------------
(***************************************************************************)
(* Publishing the images of one family: gce_image_publish/publish.         *)
(*                                                                         *)
(* An invocation of the tool lists the images of the publish project,      *)
(* plans the operations from that list (publishImage, rollbackImage), may   *)
(* be asked to confirm them, and runs them as a Daisy workflow of up to     *)
(* three steps, create, deprecate and delete.  The list is not read again:  *)
(* other invocations may run in between.  An image is known by its version, *)
(* the prefix and the family are those of the template; the DeprecationStatus *)
(* of an image is nil ("none") or its State.                               *)
(*                                                                         *)
(* Compute Engine and Daisy are external: the operations of a step run in   *)
(* any order, the first failure ends the workflow.  An operation that was   *)
(* carried out and is reported as failed is a success followed by a failure. *)
(***************************************************************************)
EXTENDS Integers, FiniteSets

CONSTANTS
    Tool,          \* invocations that may run at the same time
    MaxVersion,    \* bound on the versions
    AnyVersion,    \* whether an old version may be published again
    Modes,         \* what a publish does with an image that exists
    Dated,         \* whether a template sets ObsoleteDate
    Expiring,      \* whether it may set DeleteAfter
    MaxRuns,       \* bound on the invocations
    MaxRollbacks,  \* bound on the rollbacks among them
    MaxFaults      \* bound on the operations that fail by themselves

ASSUME PublishAssumption ==
    /\ MaxVersion \in Nat /\ MaxRuns \in Nat
    /\ AnyVersion \in BOOLEAN /\ Expiring \in BOOLEAN
    /\ Modes \subseteq {"plain", "skip", "replace"}
    /\ Dated \subseteq BOOLEAN
    /\ MaxRollbacks \in Nat /\ MaxFaults \in Nat

Version == 1..MaxVersion
Nil == "none"
Status == {Nil, "ACTIVE", "DEPRECATED", "OBSOLETE"}

VARIABLES
    image,      \* the project: version -> status, or "absent"
    born,       \* when each image was created, 0 for never
    clock,      \* images created
    pc,         \* where each invocation is
    plan,       \* what it is still going to do
    outcome,    \* how the last one ended
    last,       \* the new version of the last publish that succeeded, if nothing
                \* has run since, and what was served before
    runs,       \* invocations
    rollbacks,  \* rollbacks
    faults      \* operations that failed by themselves

bounds == <<runs, rollbacks, faults>>
vars == <<image, born, clock, pc, plan, outcome, last, bounds>>

Present == {v \in Version : image[v] # "absent"}
Active == {v \in Version : image[v] \in {Nil, "ACTIVE"}}

Newest(s) == {v \in s : \A w \in s : born[w] <= born[v]}

\* The image that the family resolves to, if any: the newest active one.
Served == Newest(Active)

NoChange == [v \in Version |-> "no"]
NoPublish == [version |-> 0, served |-> {}]

Init ==
    /\ image = [v \in Version |-> "absent"]
    /\ born = [v \in Version |-> 0] /\ clock = 0
    /\ pc = [t \in Tool |-> "idle"]
    /\ plan = [t \in Tool |->
                [kind |-> "none", version |-> 0, create |-> "no", status |-> Nil,
                 deprecate |-> NoChange, delete |-> {}, served |-> {}]]
    /\ outcome = [t \in Tool |-> "none"]
    /\ last = NoPublish
    /\ runs = 0 /\ rollbacks = 0 /\ faults = 0

(***************************************************************************)
(* Planning: the list of the images and what is made of it.                *)
(***************************************************************************)

\* Without AnyVersion a version is new, or the last one is published again.
Publishable(v) ==
    AnyVersion \/ born[v] = 0 \/ v \in Newest(Present)

\* The images of s can be those that are older than expiryDate, but for v, which
\* is passed over by its name.  DeleteAfter is longer than an invocation lasts:
\* no image that an invocation is still to create is old.
Old(s, v) ==
    /\ s # {} => Expiring
    /\ \A x \in s, w \in Present \ {v} : born[w] < born[x] => w \in s
    /\ \A x \in s, t \in Tool :
        pc[t] # "idle" /\ plan[t].create # "no" => plan[t].version # x

\* Mutant: only the latest image of the family is deprecated.
PublishPlanLatestOnly(v, mode, dated, old) ==
    LET exists == v \in Present
        others == Present \ ({v} \cup old)
    IN  [kind |-> IF exists THEN "republish" ELSE "publish", version |-> v,
         create |-> IF ~exists THEN "yes"
                    ELSE IF mode = "replace" THEN "overwrite" ELSE "no",
         status |-> IF dated THEN "ACTIVE" ELSE Nil,
         deprecate |-> [w \in Version |->
                         IF w \in Newest(others) /\ image[w] = Nil
                         THEN "DEPRECATED" ELSE "no"],
         delete |-> old \ {v},
         served |-> Served \cap Newest(Present)]

\* publishImage: "# Nil" is Deprecated # nil, whose State is never "" here.
PublishPlan(v, mode, dated, old) ==
    LET exists == v \in Present
        others == Present \ ({v} \cup old)
    IN  [kind |-> IF exists THEN "republish" ELSE "publish", version |-> v,
         create |-> IF ~exists THEN "yes"
                    ELSE IF mode = "replace" THEN "overwrite" ELSE "no",
         status |-> IF dated THEN "ACTIVE" ELSE Nil,
         deprecate |-> [w \in Version |->
                         IF w \in others /\ image[w] = Nil THEN "DEPRECATED" ELSE "no"],
         delete |-> old \ {v},
         served |-> Served \cap Newest(Present)]

HasSteps(p) ==
    p.create # "no" \/ p.deprecate # NoChange \/ p.delete # {}

\* An image that exists is an error, unless it is skipped or replaced.
PlanPublish(t, v, mode) ==
    /\ pc[t] = "idle" /\ Publishable(v) /\ runs < MaxRuns
    /\ runs' = runs + 1
    /\ \/ /\ mode = "plain" /\ v \in Present
          /\ outcome' = [outcome EXCEPT ![t] = "exists"]
          /\ UNCHANGED <<pc, plan>>
       \/ /\ mode = "plain" => v \notin Present
          /\ \E dated \in Dated, old \in SUBSET Present :
                /\ Old(old \ {v}, v)
                /\ plan' = [plan EXCEPT ![t] = PublishPlan(v, mode, dated, old)]
          /\ IF HasSteps(plan'[t])
             THEN /\ pc' = [pc EXCEPT ![t] = "planned"]
                  /\ outcome' = [outcome EXCEPT ![t] = "none"]
             ELSE /\ outcome' = [outcome EXCEPT ![t] = "nothing"]
                  /\ UNCHANGED pc
    /\ UNCHANGED <<image, born, clock, last, rollbacks, faults>>

\* rollbackImage looks for the newest image with a DeprecationStatus.
Deprecated == {w \in Present : image[w] # Nil}

\* Mutant: no image is un-deprecated.
RollbackPlanDeprecateOnly(v, state, candidates) ==
    [kind |-> "rollback", version |-> v, create |-> "no", status |-> Nil,
     deprecate |-> [NoChange EXCEPT ![v] = state],
     delete |-> {}, served |-> Served]

RollbackPlan(v, state, candidates) ==
    [kind |-> "rollback", version |-> v, create |-> "no", status |-> Nil,
     deprecate |-> [w \in Version |-> IF w = v THEN state
                                      ELSE IF w \in candidates THEN "ACTIVE" ELSE "no"],
     delete |-> {}, served |-> Served]

\* An image with a DeprecationStatus, or none, is not rolled back.
PlanRollback(t, v) ==
    /\ pc[t] = "idle" /\ runs < MaxRuns /\ rollbacks < MaxRollbacks
    /\ runs' = runs + 1 /\ rollbacks' = rollbacks + 1
    /\ \/ /\ v \in Present /\ image[v] = Nil
          /\ \E state \in {"DEPRECATED", "OBSOLETE"} :
                plan' = [plan EXCEPT ![t] = RollbackPlan(v, state, Newest(Deprecated))]
          /\ pc' = [pc EXCEPT ![t] = "planned"]
          /\ outcome' = [outcome EXCEPT ![t] = "none"]
       \/ /\ v \notin Present \/ image[v] # Nil
          /\ outcome' = [outcome EXCEPT ![t] = "doesNotExist"]
          /\ plan' = [plan EXCEPT ![t].version = v]
          /\ UNCHANGED pc
    /\ UNCHANGED <<image, born, clock, last, faults>>

\* "Continue with publish?"
Confirm(t) ==
    /\ pc[t] = "planned"
    /\ \/ pc' = [pc EXCEPT ![t] = "running"] /\ UNCHANGED outcome
       \/ /\ pc' = [pc EXCEPT ![t] = "idle"]
          /\ outcome' = [outcome EXCEPT ![t] = "declined"]
    /\ UNCHANGED <<image, born, clock, plan, last, bounds>>

(***************************************************************************)
(* Running: populateSteps makes the deprecations wait for the creation and *)
(* the deletions for both.                                                 *)
(***************************************************************************)

\* The workflow goes on with the plan p.
Continue(t, p) == plan' = [plan EXCEPT ![t] = p] /\ UNCHANGED <<pc, outcome, last>>

\* An overwritten image is deleted before it is created.
DeleteOverwritten(t) ==
    /\ pc[t] = "running" /\ plan[t].create = "overwrite"
    /\ image' = [image EXCEPT ![plan[t].version] = "absent"]
    /\ Continue(t, [plan[t] EXCEPT !.create = "yes"])
    /\ UNCHANGED <<born, clock, bounds>>

\* An image is not created if there is one of that name.
CreateImage(t) ==
    /\ pc[t] = "running" /\ plan[t].create = "yes" /\ plan[t].version \notin Present
    /\ image' = [image EXCEPT ![plan[t].version] = plan[t].status]
    /\ clock' = clock + 1
    /\ born' = [born EXCEPT ![plan[t].version] = clock + 1]
    /\ Continue(t, [plan[t] EXCEPT !.create = "no"])
    /\ UNCHANGED bounds

\* Mutant: the deprecations do not wait.
ReadyAtOnce(t, v) ==
    pc[t] = "running" /\ plan[t].deprecate[v] # "no"

\* Create before deprecate.
Ready(t, v) ==
    pc[t] = "running" /\ plan[t].create = "no" /\ plan[t].deprecate[v] # "no"

DeprecateImage(t, v) ==
    /\ Ready(t, v) /\ v \in Present
    /\ image' = [image EXCEPT ![v] = plan[t].deprecate[v]]
    /\ Continue(t, [plan[t] EXCEPT !.deprecate[v] = "no"])
    /\ UNCHANGED <<born, clock, bounds>>

\* Create and un-deprecate before delete; an image that is gone is no error.
DeleteImage(t, v) ==
    /\ pc[t] = "running" /\ plan[t].create = "no" /\ plan[t].deprecate = NoChange
    /\ v \in plan[t].delete
    /\ image' = [image EXCEPT ![v] = "absent"]
    /\ Continue(t, [plan[t] EXCEPT !.delete = @ \ {v}])
    /\ UNCHANGED <<born, clock, bounds>>

\* The workflow fails, at an operation that cannot succeed or by itself.
WorkflowFails(t) ==
    /\ pc[t] = "running"
    /\ \/ /\ \/ plan[t].create = "yes" /\ plan[t].version \in Present
             \/ \E v \in Version : Ready(t, v) /\ v \notin Present
          /\ UNCHANGED faults
       \/ faults < MaxFaults /\ faults' = faults + 1
    /\ pc' = [pc EXCEPT ![t] = "idle"]
    /\ outcome' = [outcome EXCEPT ![t] = "failed"]
    /\ last' = NoPublish
    /\ UNCHANGED <<image, born, clock, plan, runs, rollbacks>>

\* Every operation is done.
WorkflowEnds(t) ==
    /\ pc[t] = "running" /\ ~HasSteps(plan[t])
    /\ pc' = [pc EXCEPT ![t] = "idle"]
    /\ outcome' = [outcome EXCEPT ![t] =
            IF plan[t].kind = "rollback" THEN "rolledBack" ELSE "published"]
    /\ last' = IF plan[t].kind = "publish"
               THEN [version |-> plan[t].version, served |-> plan[t].served \cap Present]
               ELSE NoPublish
    /\ UNCHANGED <<image, born, clock, plan, bounds>>

(***************************************************************************)

ToolStep(t) ==
    \/ \E v \in Version :
        \/ \E mode \in Modes : PlanPublish(t, v, mode)
        \/ PlanRollback(t, v)
        \/ DeprecateImage(t, v)
        \/ DeleteImage(t, v)
    \/ Confirm(t) \/ DeleteOverwritten(t) \/ CreateImage(t)
    \/ WorkflowFails(t) \/ WorkflowEnds(t)

\* The tool is not invoked any more.
Terminating == runs = MaxRuns /\ (\A t \in Tool : pc[t] = "idle") /\ UNCHANGED vars

Next == (\E t \in Tool : ToolStep(t)) \/ Terminating

Spec == Init /\ [][Next]_vars

(***************************************************************************)
(* Properties.                                                             *)
(***************************************************************************)

Outcome == {"none", "exists", "nothing", "doesNotExist", "declined", "failed",
            "published", "rolledBack"}

Plan == [kind: {"none", "publish", "republish", "rollback"}, version: 0..MaxVersion,
         create: {"no", "yes", "overwrite"}, status: Status,
         deprecate: [Version -> Status \cup {"no"}],
         delete: SUBSET Version, served: SUBSET Version]

\* Types of the variables.
TypeOK ==
    /\ image \in [Version -> Status \cup {"absent"}]
    /\ born \in [Version -> 0..clock] /\ clock \in 0..runs
    /\ pc \in [Tool -> {"idle", "planned", "running"}]
    /\ plan \in [Tool -> Plan]
    /\ outcome \in [Tool -> Outcome]
    /\ last \in [version: 0..MaxVersion, served: SUBSET Version]
    /\ runs \in 0..MaxRuns /\ rollbacks \in 0..MaxRollbacks /\ faults \in 0..MaxFaults

\* The family always resolves to an image, from the first publish on: whatever
\* fails and however the invocations interleave, no deprecation or deletion
\* takes the last active image away.
FamilyServed == Present # {} => Served # {}

\* After a publish that succeeded (one invocation at a time, none of them a
\* rollback) its image is the only active one: "Deprecate all images in the same
\* family", also those that failed workflows left active.  A skipped image that
\* is deprecated stays so.
OnlyNewActive ==
    \A t \in Tool :
        outcome[t] = "published" /\ rollbacks = 0 /\ image[plan[t].version] = Nil
            => Active = {plan[t].version}

\* The first rollback, if it is of the last publish, makes the family resolve to
\* the image it resolved to before, if that was the newest one, also after failed
\* workflows: "Un-deprecate the most recent previous image".
RollbackRestores ==
    [][\A t \in Tool :
        WorkflowEnds(t) /\ plan[t].kind = "rollback" /\ plan[t].version = last.version
            => last.served \in {{}, Served}]_vars
=============================================================================
