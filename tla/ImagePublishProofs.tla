------------------------- MODULE ImagePublishProofs -------------------------
(***************************************************************************)
(* Theorems about ImagePublish, for any number of invocations at the same   *)
(* time, of versions and of failures.  Served is about the newest image:    *)
(* the argument is that no invocation is ever about to deprecate or delete  *)
(* the newest image.                                                        *)
(***************************************************************************)
EXTENDS ImagePublish, TLAPS

\* Images are not replaced, a version is published once (the last one maybe
\* again) and nothing is rolled back.
PublishOnly == "replace" \notin Modes /\ ~AnyVersion /\ MaxRollbacks = 0

Busy == {t \in Tool : pc[t] # "idle"}

\* What an invocation deprecates or deletes.
Targets(t) == {v \in Version : plan[t].deprecate[v] # "no"} \cup plan[t].delete

PlanType ==
    [kind: {"publish", "republish", "none"}, version: 0..MaxVersion,
     create: {"no", "yes"}, status: {Nil, "ACTIVE"},
     deprecate: [Version -> {"no", "DEPRECATED"}],
     delete: SUBSET Version, served: SUBSET Version]

TypeInv ==
    /\ image \in [Version -> Status \cup {"absent"}]
    /\ born \in [Version -> Nat] /\ clock \in Nat
    /\ pc \in [Tool -> {"idle", "planned", "running"}]
    /\ plan \in [Tool -> PlanType]
    /\ \A t \in Busy : plan[t].version \in Version
    /\ rollbacks \in Nat

\* Creations are numbered.
BornInv ==
    /\ \A v \in Version : born[v] <= clock
    /\ \A v \in Present : born[v] > 0
    /\ \A v, w \in Version : born[v] = born[w] => v = w \/ born[v] = 0

\* What an invocation is going to create was never there or is there again.
CreateInv ==
    \A t \in Busy : plan[t].create = "yes" =>
        /\ born[plan[t].version] = 0 \/ plan[t].version \in Present
        /\ \A u \in Busy : plan[t].version \notin plan[u].delete

\* The targets of an invocation were there when it planned, and none of them is
\* the newest image from when the image of the invocation is there.
TargetInv ==
    \A t \in Busy :
        /\ \A v \in Targets(t) : born[v] > 0
        /\ plan[t].create = "no" => Targets(t) \cap Newest(Present) = {}

NewestActive ==
    Present # {} => \E v \in Newest(Present) : image[v] \in {Nil, "ACTIVE"}

FamilyInv == TypeInv /\ BornInv /\ CreateInv /\ TargetInv /\ NewestActive

(***************************************************************************)
(* Planning.                                                               *)
(***************************************************************************)

\* The plan of a publish that is not refused.
LEMMA PublishPlanned ==
    ASSUME FamilyInv, PublishOnly,
           NEW t \in Tool, NEW v \in Version, NEW mode \in Modes,
           NEW dated \in Dated, NEW old \in SUBSET Present,
           Publishable(v), mode = "plain" => v \notin Present, Old(old \ {v}, v)
    PROVE  LET p == PublishPlan(v, mode, dated, old)
           IN  /\ p \in PlanType /\ p.version = v
               /\ p.create = "yes" => born[v] = 0
               /\ \A w \in Version : p.deprecate[w] # "no" \/ w \in p.delete =>
                      born[w] > 0 /\ (p.create = "no" => w \notin Newest(Present))
               /\ v \notin p.delete
               /\ \A u \in Busy : plan[u].create = "yes" => plan[u].version \notin p.delete
<1> DEFINE p == PublishPlan(v, mode, dated, old)
<1> USE DEF FamilyInv
<1>1. mode # "replace"
  BY DEF PublishOnly
<1>2. p.create = IF v \in Present THEN "no" ELSE "yes"
  BY <1>1 DEF PublishPlan
<1>3. p.version = v /\ p.delete = old \ {v}
  BY DEF PublishPlan
<1>4. \A w \in Version : p.deprecate[w] # "no" => w \in Present /\ w # v
  BY DEF PublishPlan
<1>5. p \in PlanType
  BY <1>1 DEF PublishPlan, PlanType, Version, Nil, Newest, Present, Active, Served,
      PublishAssumption
<1>6. v \in Present => v \in Newest(Present)
  BY DEF Publishable, PublishOnly, BornInv
<1>7. v \notin Present => born[v] = 0
  BY DEF Publishable, PublishOnly, Newest
<1>8. ASSUME NEW w \in Present, w # v, v \in Present
      PROVE  w \notin Newest(Present)
  <2>1. born[v] \in Nat /\ born[w] \in Nat /\ v \in Version /\ w \in Version
    BY DEF TypeInv, Present
  <2>2. born[w] <= born[v] /\ born[w] # born[v]
    BY <1>6, <1>8, <2>1 DEF Newest, BornInv
  <2>3. QED
    BY <1>8, <2>1, <2>2 DEF Newest
<1>9. \A u \in Busy : plan[u].create = "yes" => plan[u].version \notin p.delete
  BY <1>3 DEF Old, Busy
<1>10. ASSUME NEW w \in Version, p.deprecate[w] # "no" \/ w \in p.delete
       PROVE  born[w] > 0 /\ (p.create = "no" => w \notin Newest(Present))
  <2>1. w \in Present /\ w # v
    BY <1>10, <1>3, <1>4
  <2>2. QED
    BY <2>1, <1>2, <1>8 DEF BornInv
<1>11. QED
  BY <1>2, <1>3, <1>5, <1>7, <1>9, <1>10

(***************************************************************************)
(* One lemma for each action that changes the project or the plans.        *)
(***************************************************************************)

LEMMA PlanPublishKeeps ==
    ASSUME FamilyInv, PublishOnly,
           NEW t \in Tool, NEW v \in Version, NEW mode \in Modes,
           PlanPublish(t, v, mode)
    PROVE  FamilyInv'
<1> USE DEF FamilyInv
<1>1. CASE plan' = plan /\ pc' = pc
  BY <1>1 DEF PlanPublish, TypeInv, BornInv, CreateInv, TargetInv, NewestActive,
              Busy, Targets, Newest, Present
<1>2. CASE /\ mode = "plain" => v \notin Present
           /\ \E dated \in Dated, old \in SUBSET Present :
                /\ Old(old \ {v}, v)
                /\ plan' = [plan EXCEPT ![t] = PublishPlan(v, mode, dated, old)]
  <2>1. PICK dated \in Dated, old \in SUBSET Present :
            /\ Old(old \ {v}, v)
            /\ plan' = [plan EXCEPT ![t] = PublishPlan(v, mode, dated, old)]
    BY <1>2
  <2> DEFINE p == PublishPlan(v, mode, dated, old)
  <2>2. /\ p \in PlanType /\ p.version = v
        /\ p.create = "yes" => born[v] = 0
        /\ \A w \in Version : p.deprecate[w] # "no" \/ w \in p.delete =>
               born[w] > 0 /\ (p.create = "no" => w \notin Newest(Present))
        /\ v \notin p.delete
        /\ \A u \in Busy : plan[u].create = "yes" => plan[u].version \notin p.delete
    BY <1>2, <2>1, PublishPlanned DEF PlanPublish
  <2> HIDE DEF p
  <2>3. /\ plan' \in [Tool -> PlanType] /\ plan'[t] = p
        /\ \A u \in Tool : u # t => plan'[u] = plan[u]
    BY <2>1, <2>2 DEF TypeInv, p
  <2>4. /\ pc[t] = "idle"
        /\ pc' \in [Tool -> {"idle", "planned", "running"}]
        /\ \A u \in Tool : u # t => pc'[u] = pc[u]
    BY DEF PlanPublish, TypeInv
  <2>5. Busy' \subseteq Busy \cup {t} /\ t \notin Busy /\ Busy \subseteq Tool
    BY <2>4 DEF Busy
  <2>6. UNCHANGED <<image, born, clock, rollbacks>>
    BY DEF PlanPublish
  <2>7. TypeInv'
    BY <2>2, <2>3, <2>4, <2>5, <2>6 DEF TypeInv
  <2>8. BornInv' /\ NewestActive' /\ Present' = Present /\ Newest(Present)' = Newest(Present)
    BY <2>6 DEF BornInv, NewestActive, Present, Newest
  <2>9. CreateInv'
    <3>1. ASSUME NEW u \in Busy', plan'[u].create = "yes"
          PROVE  (born[plan'[u].version] = 0) \/ plan'[u].version \in Present
      BY <3>1, <2>2, <2>3, <2>5 DEF CreateInv
    <3>2. ASSUME NEW u \in Busy', NEW w \in Busy', plan'[u].create = "yes"
          PROVE  plan'[u].version \notin plan'[w].delete
      <4>1. CASE u = t /\ w = t
        BY <4>1, <2>2, <2>3
      <4>2. CASE u = t /\ w # t
        <5>1. \A x \in plan[w].delete : x \in Targets(w)
          BY DEF Targets
        <5>2. \A x \in plan[w].delete : born[x] > 0
          BY <4>2, <5>1, <2>5 DEF TargetInv
        <5>3. born[v] = 0 /\ plan'[u].version = v /\ plan'[w] = plan[w]
          BY <3>2, <4>2, <2>2, <2>3, <2>5
        <5>4. QED
          BY <5>2, <5>3 DEF TypeInv
      <4>3. CASE u # t /\ w = t
        BY <3>2, <4>3, <2>2, <2>3, <2>5
      <4>4. CASE u # t /\ w # t
        BY <3>2, <4>4, <2>3, <2>5 DEF CreateInv
      <4>5. QED
        BY <4>1, <4>2, <4>3, <4>4
    <3>3. QED
      BY <3>1, <3>2, <2>6, <2>8 DEF CreateInv
  <2>10. TargetInv'
    <3>1. ASSUME NEW u \in Busy', NEW w \in Version, w \in Targets(u)'
          PROVE  born[w] > 0 /\ (plan'[u].create = "no" => w \notin Newest(Present))
      <4>1. CASE u = t
        <5>1. p.deprecate[w] # "no" \/ w \in p.delete
          BY <3>1, <4>1, <2>3 DEF Targets
        <5>2. QED
          BY <5>1, <4>1, <2>2, <2>3
      <4>2. CASE u # t
        <5>1. u \in Busy /\ w \in Targets(u) /\ plan'[u] = plan[u]
          BY <3>1, <4>2, <2>3, <2>5 DEF Targets
        <5>2. QED
          BY <5>1 DEF TargetInv
      <4>3. QED
        BY <4>1, <4>2
    <3>2. \A u \in Busy' : Targets(u)' \subseteq Version
      BY <2>7, <2>5 DEF TypeInv, PlanType, Targets, Busy
    <3>3. QED
      BY <3>1, <3>2, <2>6, <2>8 DEF TargetInv
  <2>11. QED
    BY <2>7, <2>8, <2>9, <2>10
<1>3. QED
  BY <1>1, <1>2 DEF PlanPublish

\* The plan of one invocation shrinks, its image is not created.
LEMMA ShrinkKeeps ==
    ASSUME FamilyInv, NEW t \in Busy, NEW p \in PlanType,
           p.version = plan[t].version, p.create = plan[t].create,
           \A v \in Version : p.deprecate[v] # "no" => plan[t].deprecate[v] # "no",
           p.delete \subseteq plan[t].delete,
           plan' = [plan EXCEPT ![t] = p], pc' = pc, born' = born,
           Newest(Present)' = Newest(Present),
           \A u \in Busy : plan[u].create = "yes" /\ plan[u].version \in Present
               => plan[u].version \in Present'
    PROVE  CreateInv' /\ TargetInv'
<1> USE DEF FamilyInv
<1>1. Busy' = Busy /\ Busy \subseteq Tool
  BY DEF Busy
<1>2. \A u \in Busy : /\ plan'[u].version = plan[u].version
                      /\ plan'[u].create = plan[u].create
                      /\ plan'[u].delete \subseteq plan[u].delete
  BY <1>1 DEF TypeInv
<1>3. \A u \in Busy : Targets(u)' \subseteq Targets(u)
  BY <1>1 DEF TypeInv, Targets
<1>4. CreateInv'
  BY <1>1, <1>2 DEF CreateInv
<1>5. TargetInv'
  BY <1>1, <1>2, <1>3 DEF TargetInv
<1>6. QED
  BY <1>4, <1>5

LEMMA CreateImageKeeps ==
    ASSUME FamilyInv, NEW t \in Tool, CreateImage(t)
    PROVE  FamilyInv'
<1> DEFINE v == plan[t].version
           p == [plan[t] EXCEPT !.create = "no"]
<1> USE DEF FamilyInv
<1>1. t \in Busy /\ plan[t].create = "yes" /\ v \in Version /\ image[v] = "absent"
  BY DEF CreateImage, Busy, TypeInv, Present
<1>2. /\ plan[t] \in PlanType
      /\ p \in PlanType /\ p.create = "no" /\ p.version = v
      /\ p.deprecate = plan[t].deprecate /\ p.delete = plan[t].delete
  BY DEF TypeInv, PlanType
<1>3. /\ plan' = [plan EXCEPT ![t] = p] /\ pc' = pc /\ rollbacks' = rollbacks
      /\ image' = [image EXCEPT ![v] = plan[t].status]
      /\ born' = [born EXCEPT ![v] = clock + 1] /\ clock' = clock + 1
  BY DEF CreateImage, Continue, bounds
<1>4. plan[t].status \in {Nil, "ACTIVE"}
  BY <1>2 DEF PlanType
<1>5. Present' = Present \cup {v} /\ v \notin Present
  BY <1>1, <1>3, <1>4 DEF Present, TypeInv, Nil
<1>6. \A w \in Version : w # v => image'[w] = image[w] /\ born'[w] = born[w]
  BY <1>3 DEF TypeInv
<1>7. born'[v] = clock + 1 /\ image'[v] \in {Nil, "ACTIVE"}
  BY <1>1, <1>3, <1>4 DEF TypeInv
<1>8. \A w \in Version : born[w] \in Nat /\ born[w] <= clock /\ clock \in Nat
  BY DEF TypeInv, BornInv
<1> HIDE DEF v, p
<1>9. Newest(Present)' = {v}
  <2>1. Present \subseteq Version
    BY DEF Present
  <2>2. QED
    BY <1>1, <1>5, <1>6, <1>7, <1>8, <2>1 DEF Newest
<1>10. Busy' = Busy /\ Busy \subseteq Tool
  BY <1>3 DEF Busy
<1>11. /\ plan' \in [Tool -> PlanType]
       /\ \A u \in Tool : /\ plan'[u].version = plan[u].version
                          /\ plan'[u].delete = plan[u].delete
                          /\ plan'[u].deprecate = plan[u].deprecate
                          /\ u # t => plan'[u] = plan[u]
       /\ plan'[t].create = "no"
  BY <1>2, <1>3 DEF TypeInv, v
<1>12. TypeInv'
  <2>1. image' \in [Version -> Status \cup {"absent"}]
    BY <1>3, <1>4 DEF TypeInv, Status
  <2>2. clock + 1 \in Nat /\ born \in [Version -> Nat]
    BY DEF TypeInv
  <2>3. born' \in [Version -> Nat] /\ clock' \in Nat
    BY <2>2, <1>3
  <2>4. QED
    BY <2>1, <2>3, <1>3, <1>10, <1>11 DEF TypeInv
<1>13. BornInv'
  <2>1. \A w \in Version : born'[w] <= clock'
    BY <1>3, <1>6, <1>7, <1>8
  <2>2. \A w \in Present' : born'[w] > 0
    <3>1. \A w \in Present : w \in Version /\ born[w] > 0
      BY DEF BornInv, Present
    <3>2. \A w \in Present : born'[w] > 0
      BY <3>1, <1>5, <1>6
    <3>3. born'[v] > 0
      BY <1>1, <1>7, <1>8
    <3>4. QED
      BY <3>2, <3>3, <1>5
  <2>3. ASSUME NEW x \in Version, NEW y \in Version, born'[x] = born'[y]
        PROVE  x = y \/ born'[x] = 0
    <3>1. CASE x = v \/ y = v
      BY <2>3, <3>1, <1>6, <1>7, <1>8
    <3>2. CASE x # v /\ y # v
      BY <2>3, <3>2, <1>6 DEF BornInv
    <3>3. QED
      BY <3>1, <3>2
  <2>4. QED
    BY <2>1, <2>2, <2>3 DEF BornInv
<1>14. born[v] = 0
  BY <1>1, <1>5 DEF CreateInv, v
<1>15. CreateInv'
  <2>1. ASSUME NEW u \in Busy, plan'[u].create = "yes"
        PROVE  born'[plan'[u].version] = 0 \/ plan'[u].version \in Present'
    BY <2>1, <1>5, <1>6, <1>10, <1>11 DEF CreateInv, TypeInv
  <2>2. ASSUME NEW u \in Busy, NEW w \in Busy, plan'[u].create = "yes"
        PROVE  plan'[u].version \notin plan'[w].delete
    BY <2>2, <1>10, <1>11 DEF CreateInv
  <2>3. QED
    BY <2>1, <2>2, <1>10 DEF CreateInv
<1>16. TargetInv'
  <2>1. \A u \in Busy : Targets(u)' = Targets(u) /\ Targets(u) \subseteq Version
    BY <1>10, <1>11 DEF Targets, TypeInv, PlanType
  <2>2. \A u \in Busy : v \notin Targets(u)
    BY <1>14 DEF TargetInv
  <2>3. \A u \in Busy : \A w \in Targets(u) : born'[w] > 0
    BY <2>1, <2>2, <1>6 DEF TargetInv
  <2>4. QED
    BY <2>1, <2>2, <2>3, <1>9, <1>10 DEF TargetInv
<1>17. NewestActive'
  BY <1>7, <1>9 DEF NewestActive
<1>18. QED
  BY <1>12, <1>13, <1>15, <1>16, <1>17

LEMMA DeprecateImageKeeps ==
    ASSUME FamilyInv, NEW t \in Tool, NEW v \in Version, DeprecateImage(t, v)
    PROVE  FamilyInv'
<1> DEFINE p == [plan[t] EXCEPT !.deprecate[v] = "no"]
<1> USE DEF FamilyInv
<1>1. t \in Busy /\ plan[t].create = "no" /\ v \in Targets(t) /\ v \in Present
  BY DEF DeprecateImage, Ready, Busy, Targets
<1>2. plan[t] \in PlanType /\ plan[t].deprecate[v] = "DEPRECATED"
  BY DEF DeprecateImage, Ready, TypeInv, PlanType
<1>3. /\ plan' = [plan EXCEPT ![t] = p] /\ pc' = pc
      /\ born' = born /\ clock' = clock /\ rollbacks' = rollbacks
      /\ image' = [image EXCEPT ![v] = "DEPRECATED"]
  BY <1>2 DEF DeprecateImage, Continue, bounds
<1>4. /\ p \in PlanType /\ p.version = plan[t].version /\ p.create = plan[t].create
      /\ \A w \in Version : p.deprecate[w] # "no" => plan[t].deprecate[w] # "no"
      /\ p.delete \subseteq plan[t].delete
  BY <1>2 DEF PlanType
<1> HIDE DEF p
<1>5. Present' = Present
  BY <1>1, <1>3 DEF Present, TypeInv
<1>6. Newest(Present)' = Newest(Present)
  BY <1>3, <1>5 DEF Newest
<1>7. TypeInv'
  BY <1>3, <1>4 DEF TypeInv, Status, Busy
<1>8. BornInv'
  BY <1>3, <1>5 DEF BornInv
<1>9. CreateInv' /\ TargetInv'
  BY <1>1, <1>3, <1>4, <1>5, <1>6, ShrinkKeeps
<1>10. v \notin Newest(Present)
  BY <1>1 DEF TargetInv
<1>11. NewestActive'
  <2>1. \A w \in Newest(Present) : image'[w] = image[w]
    BY <1>3, <1>10 DEF TypeInv, Newest, Present
  <2>2. QED
    BY <2>1, <1>5, <1>6 DEF NewestActive
<1>12. QED
  BY <1>7, <1>8, <1>9, <1>11

LEMMA DeleteImageKeeps ==
    ASSUME FamilyInv, NEW t \in Tool, NEW v \in Version, DeleteImage(t, v)
    PROVE  FamilyInv'
<1> DEFINE p == [plan[t] EXCEPT !.delete = @ \ {v}]
<1> USE DEF FamilyInv
<1>1. t \in Busy /\ plan[t].create = "no" /\ v \in plan[t].delete /\ v \in Targets(t)
  BY DEF DeleteImage, Busy, Targets
<1>2. plan[t] \in PlanType
  BY DEF TypeInv
<1>3. /\ plan' = [plan EXCEPT ![t] = p] /\ pc' = pc
      /\ born' = born /\ clock' = clock /\ rollbacks' = rollbacks
      /\ image' = [image EXCEPT ![v] = "absent"]
  BY DEF DeleteImage, Continue, bounds
<1>4. /\ p \in PlanType /\ p.version = plan[t].version /\ p.create = plan[t].create
      /\ \A w \in Version : p.deprecate[w] # "no" => plan[t].deprecate[w] # "no"
      /\ p.delete \subseteq plan[t].delete
  BY <1>2 DEF PlanType
<1> HIDE DEF p
<1>5. Present' = Present \ {v} /\ \A w \in Version : w # v => image'[w] = image[w]
  BY <1>3 DEF Present, TypeInv
<1>6. v \notin Newest(Present)
  BY <1>1 DEF TargetInv
<1>7. Newest(Present)' = Newest(Present)
  <2>1. CASE Present = {}
    BY <2>1, <1>3, <1>5 DEF Newest
  <2>2. CASE Present # {}
    <3>1. PICK n \in Newest(Present) : TRUE
      BY <2>2 DEF NewestActive
    <3>2. n \in Present' /\ \A w \in Present : born[w] <= born[n]
      BY <3>1, <1>5, <1>6 DEF Newest
    <3>3. \A w \in Present : born[w] \in Nat
      BY DEF Present, TypeInv
    <3>4. QED
      BY <3>2, <3>3, <1>3, <1>5, <1>6 DEF Newest
  <2>3. QED
    BY <2>1, <2>2
<1>8. TypeInv'
  BY <1>3, <1>4 DEF TypeInv, Busy
<1>9. BornInv'
  BY <1>3, <1>5 DEF BornInv
<1>10. \A u \in Busy : plan[u].create = "yes" => plan[u].version # v
  BY <1>1 DEF CreateInv
<1>11. CreateInv' /\ TargetInv'
  BY <1>1, <1>3, <1>4, <1>5, <1>7, <1>10, ShrinkKeeps
<1>12. NewestActive'
  <2>1. Newest(Present) \subseteq Version
    BY DEF Newest, Present
  <2>2. QED
    BY <2>1, <1>5, <1>6, <1>7 DEF NewestActive
<1>13. QED
  BY <1>8, <1>9, <1>11, <1>12

\* Ends and answers: the project and the plans stay.
LEMMA OthersKeep ==
    ASSUME FamilyInv, UNCHANGED <<image, born, clock, plan, rollbacks>>,
           \A t \in Tool : pc'[t] = "idle" \/ pc[t] # "idle",
           pc' \in [Tool -> {"idle", "planned", "running"}]
    PROVE  FamilyInv'
<1> USE DEF FamilyInv
<1>1. Busy' \subseteq Busy
  BY DEF Busy
<1>2. Present' = Present /\ Newest(Present)' = Newest(Present)
  BY DEF Present, Newest
<1>3. \A t \in Busy : Targets(t)' = Targets(t)
  BY DEF Targets
<1>4. TypeInv'
  BY <1>1 DEF TypeInv
<1>5. BornInv' /\ NewestActive'
  BY <1>2 DEF BornInv, NewestActive
<1>6. CreateInv'
  BY <1>1, <1>2 DEF CreateInv
<1>7. TargetInv'
  BY <1>1, <1>2, <1>3 DEF TargetInv
<1>8. QED
  BY <1>4, <1>5, <1>6, <1>7

(***************************************************************************)
(* The family.                                                             *)
(***************************************************************************)

\* No step breaks the invariant.
LEMMA StepKeeps ==
    ASSUME PublishOnly, FamilyInv, [Next]_vars PROVE FamilyInv'
<1>1. ASSUME NEW t \in Tool, NEW v \in Version, NEW mode \in Modes,
             PlanPublish(t, v, mode)
      PROVE  FamilyInv'
  BY <1>1, PlanPublishKeeps
<1>2. ASSUME NEW t \in Tool, NEW v \in Version, PlanRollback(t, v)
      PROVE  FamilyInv'
  BY <1>2 DEF PlanRollback, PublishOnly, FamilyInv, TypeInv
<1>3. ASSUME NEW t \in Tool, NEW v \in Version, DeprecateImage(t, v)
      PROVE  FamilyInv'
  BY <1>3, DeprecateImageKeeps
<1>4. ASSUME NEW t \in Tool, NEW v \in Version, DeleteImage(t, v)
      PROVE  FamilyInv'
  BY <1>4, DeleteImageKeeps
<1>5. ASSUME NEW t \in Tool, Confirm(t)
      PROVE  FamilyInv'
  BY <1>5, OthersKeep DEF Confirm, bounds, FamilyInv, TypeInv
<1>6. ASSUME NEW t \in Tool, DeleteOverwritten(t)
      PROVE  FamilyInv'
  BY <1>6 DEF DeleteOverwritten, FamilyInv, TypeInv, PlanType
<1>7. ASSUME NEW t \in Tool, CreateImage(t)
      PROVE  FamilyInv'
  BY <1>7, CreateImageKeeps
<1>8. ASSUME NEW t \in Tool, WorkflowFails(t)
      PROVE  FamilyInv'
  BY <1>8, OthersKeep DEF WorkflowFails, FamilyInv, TypeInv
<1>9. ASSUME NEW t \in Tool, WorkflowEnds(t)
      PROVE  FamilyInv'
  BY <1>9, OthersKeep DEF WorkflowEnds, bounds, FamilyInv, TypeInv
<1>10. CASE UNCHANGED vars
  BY <1>10, OthersKeep DEF vars, bounds, FamilyInv, TypeInv
<1>11. QED
  BY <1>1, <1>2, <1>3, <1>4, <1>5, <1>6, <1>7, <1>8, <1>9, <1>10
     DEF Next, ToolStep, Terminating

\* As long as no image is replaced, no old version published again and nothing
\* rolled back, the family resolves to an image from the first publish on,
\* whatever number of invocations interleave and of operations fail.
THEOREM FamilyAlwaysServed ==
    ASSUME PublishOnly PROVE Spec => []FamilyServed
<1>1. Init => FamilyInv
  <2> SUFFICES ASSUME Init PROVE FamilyInv
    OBVIOUS
  <2>1. Busy = {} /\ Present = {}
    BY DEF Init, Busy, Present
  <2>2. TypeInv
    <3>1. plan \in [Tool -> PlanType]
      BY PublishAssumption DEF Init, PlanType, NoChange, Nil
    <3>2. QED
      BY <2>1, <3>1 DEF Init, TypeInv, Status
  <2>3. BornInv
    BY <2>1 DEF Init, BornInv
  <2>4. QED
    BY <2>1, <2>2, <2>3 DEF FamilyInv, CreateInv, TargetInv, NewestActive
<1>2. FamilyInv /\ [Next]_vars => FamilyInv'
  BY StepKeeps
<1>3. FamilyInv => FamilyServed
  <2> SUFFICES ASSUME FamilyInv, Present # {} PROVE Served # {}
    BY DEF FamilyServed
  <2>1. PICK v \in Newest(Present) : image[v] \in {Nil, "ACTIVE"}
    BY DEF FamilyInv, NewestActive
  <2>2. Active \subseteq Present /\ v \in Active
    BY <2>1 DEF Active, Present, Newest, Nil
  <2>3. v \in Served
    BY <2>1, <2>2 DEF Served, Newest
  <2>4. QED
    BY <2>3
<1>4. QED
  BY <1>1, <1>2, <1>3, PTL DEF Spec

(***************************************************************************)
(* One invocation at a time, images of any version, replaced or not.       *)
(***************************************************************************)

\* Invocations follow each other, and no template marks its image "ACTIVE".
OneAtATime == (\A s, t \in Tool : s = t) /\ Dated \subseteq {FALSE}

OneTypes ==
    /\ image \in [Version -> Status \cup {"absent"}]
    /\ born \in [Version -> Nat] /\ clock \in Nat
    /\ pc \in [Tool -> {"idle", "planned", "running"}]
    /\ plan \in [Tool -> Plan]
    /\ outcome \in [Tool -> Outcome]
    /\ last \in [version: 0..MaxVersion, served: SUBSET Version]
    /\ rollbacks \in 0..MaxRollbacks
    /\ \A t \in Busy : plan[t].version \in Version

\* Whatever is active is the image that is published or is going to be
\* deprecated or deleted - as long as nothing was rolled back.
SoleInv ==
    rollbacks = 0 =>
        /\ \A v \in Version : image[v] \in {"absent", Nil, "DEPRECATED"}
        /\ \A t \in Tool :
            /\ outcome[t] = "published" =>
                /\ pc[t] = "idle" /\ plan[t].version \in Version
                /\ Active \subseteq {plan[t].version}
            /\ pc[t] # "idle" =>
                /\ plan[t].kind # "rollback" /\ plan[t].status = Nil
                /\ \A v \in Version : plan[t].deprecate[v] \in {"no", "DEPRECATED"}
                /\ Active \subseteq {plan[t].version} \cup Targets(t)

\* v is not s, and s is as new as any image but v.
Before(s, v) == s # v /\ \A w \in Present \ {v} : born[w] <= born[s]

\* What was served before a publish is the newest image but the new one.
PublishInv ==
    \A t \in Tool : pc[t] # "idle" /\ plan[t].kind = "publish" =>
        \A s \in plan[t].served : Before(s, plan[t].version)

\* So it is when the publish has succeeded, and its image alone is active.
LastInv ==
    \A t \in Tool : rollbacks = 0 /\ pc[t] # "running" /\ last.version # 0 =>
        /\ Active \subseteq {last.version}
        /\ \A s \in last.served : s \in Present /\ Before(s, last.version)

\* The first rollback takes the new image away and brings the other one back,
\* in either order, and touches nothing else.
RestoreInv ==
    \A t \in Tool : pc[t] # "idle" /\ plan[t].kind = "rollback" =>
        /\ plan[t].create = "no" /\ plan[t].delete = {}
        /\ rollbacks <= 1 /\ plan[t].version = last.version =>
            \A s \in last.served :
                /\ last.served = {s} /\ s # last.version
                /\ \/ plan[t].deprecate[s] = "ACTIVE"
                   \/ plan[t].deprecate[s] = "no" /\ image[s] = "ACTIVE"
                /\ \A w \in Version : w # s => plan[t].deprecate[w] # "ACTIVE"
                                               /\ plan[t].deprecate[w] # Nil
                /\ \A w \in Active \ {s} :
                       w = last.version /\ plan[t].deprecate[w] # "no"

OneInv == OneTypes /\ BornInv /\ SoleInv /\ PublishInv /\ LastInv /\ RestoreInv

LEMMA PlannedType ==
    ASSUME OneTypes, NEW t \in Tool, NEW v \in Version, NEW p \in Plan,
           p.version = v, pc' = [pc EXCEPT ![t] = "planned"] \/ pc' = pc,
           plan' = [plan EXCEPT ![t] = p],
           outcome' \in [Tool -> Outcome], rollbacks' \in 0..MaxRollbacks,
           UNCHANGED <<image, born, clock, last>>
    PROVE  OneTypes'
<1>1. pc' \in [Tool -> {"idle", "planned", "running"}] /\ plan' \in [Tool -> Plan]
  BY DEF OneTypes
<1>2. \A u \in Busy' : plan'[u].version \in Version
  <2> TAKE u \in Busy'
  <2>1. CASE u = t
    BY <2>1 DEF OneTypes
  <2>2. CASE u # t
    BY <2>2 DEF OneTypes, Busy
  <2> QED
    BY <2>1, <2>2
<1> QED
  BY <1>1, <1>2 DEF OneTypes

LEMMA PublishKeepsOne ==
    ASSUME OneAtATime, OneInv, NEW t \in Tool, NEW v \in Version, NEW mode \in Modes,
           PlanPublish(t, v, mode)
    PROVE  OneInv'
<1> USE DEF OneInv
<1>0. \A u \in Tool : u = t
  BY DEF OneAtATime
<1>1. UNCHANGED <<image, born, clock, last, rollbacks>> /\ pc[t] = "idle"
  BY DEF PlanPublish
<1>2. BornInv' /\ Present' = Present /\ Active' = Active
      /\ \A s, w : Before(s, w)' = Before(s, w)
  BY <1>1 DEF BornInv, Present, Active, Before
<1>3. CASE /\ outcome' = [outcome EXCEPT ![t] = "exists"]
           /\ plan' = plan /\ pc' = pc
  <2>1. outcome' = [outcome EXCEPT ![t] = "exists"]
    BY <1>3
  <2>2. OneTypes'
    BY <1>1, <1>3, <2>1 DEF OneTypes, Outcome, Busy
  <2>3. SoleInv'
    BY <1>0, <1>1, <1>2, <1>3, <2>1 DEF SoleInv, OneTypes
  <2>4. PublishInv' /\ LastInv' /\ RestoreInv'
    BY <1>0, <1>1, <1>2, <1>3 DEF PublishInv, LastInv, RestoreInv
  <2> QED
    BY <1>2, <2>2, <2>3, <2>4
<1>4. CASE /\ mode = "plain" => v \notin Present
           /\ \E dated \in Dated, old \in SUBSET Present :
                /\ Old(old \ {v}, v)
                /\ plan' = [plan EXCEPT ![t] = PublishPlan(v, mode, dated, old)]
           /\ \/ /\ pc' = [pc EXCEPT ![t] = "planned"]
                 /\ outcome' = [outcome EXCEPT ![t] = "none"]
              \/ /\ outcome' = [outcome EXCEPT ![t] = "nothing"]
                 /\ UNCHANGED pc
  <2>1. PICK dated \in Dated, old \in SUBSET Present :
             plan' = [plan EXCEPT ![t] = PublishPlan(v, mode, dated, old)]
    BY <1>4
  <2> DEFINE p == PublishPlan(v, mode, dated, old)
  <2>2. dated = FALSE
    BY DEF OneAtATime
  <2>3. p.version = v /\ p.status = Nil /\ p.kind \in {"publish", "republish"}
    BY <2>2 DEF PublishPlan
  <2>4. p.deprecate \in [Version -> {"no", "DEPRECATED"}]
    BY DEF PublishPlan
  <2>5. p.delete = old \ {v} /\ p.served = Served \cap Newest(Present)
    BY DEF PublishPlan
  <2>6. p \in Plan
    <3>1. p.create \in {"no", "yes", "overwrite"}
      BY DEF PublishPlan
    <3>2. p.delete \subseteq Version /\ p.served \subseteq Version
      BY <2>5 DEF Present, Newest
    <3>3. p.version \in 0..MaxVersion
      BY <2>3, PublishAssumption DEF Version
    <3>4. p.deprecate \in [Version -> Status \cup {"no"}] /\ p.status \in Status
      BY <2>3, <2>4 DEF Status
    <3>5. p = [kind |-> p.kind, version |-> p.version, create |-> p.create,
               status |-> p.status, deprecate |-> p.deprecate,
               delete |-> p.delete, served |-> p.served]
      BY DEF PublishPlan
    <3> HIDE DEF p
    <3> QED
      BY <2>3, <3>1, <3>2, <3>3, <3>4, <3>5 DEF Plan
  <2>7. rollbacks = 0 => Active \subseteq {v} \cup p.delete
                           \cup {w \in Version : p.deprecate[w] # "no"}
    BY DEF PublishPlan, SoleInv, Active, Present, Nil
  <2>8. p.kind = "publish" => v \notin Present
    BY DEF PublishPlan
  <2> HIDE DEF p
  <2>9. plan'[t] = p
    BY <2>1 DEF OneTypes, p
  <2>10. outcome' \in [Tool -> Outcome] /\ outcome'[t] # "published"
         /\ pc' \in [Tool -> {"idle", "planned", "running"}]
         /\ pc'[t] # "running" /\ rollbacks \in 0..MaxRollbacks
    BY <1>1, <1>4 DEF OneTypes, Outcome
  <2>11. OneTypes'
    BY <1>1, <1>4, <2>1, <2>3, <2>6, <2>10, PlannedType DEF p
  <2>12. SoleInv'
    <3>1. rollbacks' = 0 => \A w \in Version : image'[w] \in {"absent", Nil, "DEPRECATED"}
      BY <1>1 DEF SoleInv
    <3>2. Targets(t)' = {w \in Version : p.deprecate[w] # "no"} \cup p.delete
      BY <2>9 DEF Targets
    <3> QED
      BY <1>0, <1>1, <1>2, <2>3, <2>4, <2>7, <2>9, <2>10, <3>1, <3>2 DEF SoleInv
  <2>13. PublishInv'
    <3>1. ASSUME p.kind = "publish", NEW s \in p.served PROVE Before(s, v)
      BY <2>5, <2>8, <3>1 DEF Before, Newest
    <3> QED
      BY <1>0, <1>2, <2>3, <2>9, <3>1 DEF PublishInv
  <2>14. LastInv' /\ RestoreInv'
    BY <1>0, <1>1, <1>2, <2>3, <2>9 DEF LastInv, RestoreInv
  <2> QED
    BY <1>2, <2>11, <2>12, <2>13, <2>14
<1> QED
  BY <1>3, <1>4 DEF PlanPublish

LEMMA RollbackKeepsOne ==
    ASSUME OneAtATime, OneInv, NEW t \in Tool, NEW v \in Version, PlanRollback(t, v)
    PROVE  OneInv'
<1> USE DEF OneInv
<1>0. \A u \in Tool : u = t
  BY DEF OneAtATime
<1>1. /\ UNCHANGED <<image, born, clock, last>> /\ pc[t] = "idle"
      /\ rollbacks' = rollbacks + 1 /\ rollbacks \in Nat
      /\ rollbacks' \in 0..MaxRollbacks /\ rollbacks' # 0
  BY PublishAssumption DEF PlanRollback, OneTypes
<1>2. BornInv' /\ Present' = Present /\ Active' = Active
      /\ \A s, w : Before(s, w)' = Before(s, w)
  BY <1>1 DEF BornInv, Present, Active, Before
<1>3. SoleInv' /\ LastInv'
  BY <1>1 DEF SoleInv, LastInv
<1>4. CASE /\ outcome' = [outcome EXCEPT ![t] = "doesNotExist"]
           /\ plan' = [plan EXCEPT ![t].version = v] /\ pc' = pc
  <2>1. OneTypes'
    <3>1. [plan[t] EXCEPT !.version = v] \in Plan
      <4>1. v \in 0..MaxVersion /\ plan[t] \in Plan
        BY PublishAssumption DEF OneTypes, Version
      <4> QED
        BY <4>1 DEF Plan
    <3>2. outcome' \in [Tool -> Outcome]
      BY <1>4 DEF OneTypes, Outcome
    <3>3. plan' = [plan EXCEPT ![t] = [plan[t] EXCEPT !.version = v]]
      BY <1>4
    <3>4. [plan[t] EXCEPT !.version = v].version = v
      BY DEF OneTypes, Plan
    <3> QED
      BY <1>1, <1>4, <3>1, <3>2, <3>3, <3>4, PlannedType
  <2>2. PublishInv' /\ RestoreInv'
    BY <1>0, <1>1, <1>4 DEF PublishInv, RestoreInv
  <2> QED
    BY <1>2, <1>3, <2>1, <2>2
<1>5. CASE /\ v \in Present /\ image[v] = Nil
           /\ \E state \in {"DEPRECATED", "OBSOLETE"} :
                 plan' = [plan EXCEPT ![t] = RollbackPlan(v, state, Newest(Deprecated))]
           /\ pc' = [pc EXCEPT ![t] = "planned"]
           /\ outcome' = [outcome EXCEPT ![t] = "none"]
  <2>1. PICK state \in {"DEPRECATED", "OBSOLETE"} :
             plan' = [plan EXCEPT ![t] = RollbackPlan(v, state, Newest(Deprecated))]
    BY <1>5
  <2> DEFINE p == RollbackPlan(v, state, Newest(Deprecated))
  <2>2. /\ p.version = v /\ p.kind = "rollback" /\ p.create = "no" /\ p.delete = {}
        /\ p.status = Nil /\ p.served = Served
    BY DEF RollbackPlan
  <2>3. p.deprecate = [w \in Version |-> IF w = v THEN state
                          ELSE IF w \in Newest(Deprecated) THEN "ACTIVE" ELSE "no"]
    BY DEF RollbackPlan
  <2>4. p \in Plan
    <3>1. p.served \subseteq Version
      BY <2>2 DEF Served, Newest, Active
    <3>2. p.version \in 0..MaxVersion
      BY <2>2, PublishAssumption DEF Version
    <3>3. p.deprecate \in [Version -> Status \cup {"no"}]
      BY <2>3 DEF Status
    <3>4. p = [kind |-> p.kind, version |-> p.version, create |-> p.create,
               status |-> p.status, deprecate |-> p.deprecate,
               delete |-> p.delete, served |-> p.served]
      BY DEF RollbackPlan
    <3> HIDE DEF p
    <3> QED
      BY <2>2, <3>1, <3>2, <3>3, <3>4 DEF Plan, Status
  <2> HIDE DEF p
  <2>5. plan'[t] = p
    BY <2>1 DEF OneTypes, p
  <2>6. OneTypes'
    <3>1. outcome' \in [Tool -> Outcome]
      BY <1>5 DEF OneTypes, Outcome
    <3> QED
      BY <1>1, <1>5, <2>1, <2>2, <2>4, <3>1, PlannedType DEF p
  <2>7. PublishInv'
    BY <1>0, <2>2, <2>5 DEF PublishInv
  <2>8. ASSUME rollbacks = 0, v = last.version, NEW s \in last.served
        PROVE  /\ last.served = {s} /\ s # v
               /\ p.deprecate[s] = "ACTIVE"
               /\ \A w \in Version : w # s => p.deprecate[w] # "ACTIVE"
                                              /\ p.deprecate[w] # Nil
               /\ \A w \in Active \ {s} : w = v /\ p.deprecate[w] # "no"
    <3>1. v # 0
      BY PublishAssumption DEF Version
    <3>2. Active \subseteq {v} /\ \A x \in last.served : x \in Present /\ Before(x, v)
      BY <1>0, <1>1, <2>8, <3>1 DEF LastInv
    <3>3. \A x, y \in Present \ {v} : Before(x, v) /\ Before(y, v) => x = y
      BY DEF Before, Present, BornInv, OneTypes
    <3>4. last.served = {s} /\ s # v /\ s \in Present
      BY <3>2, <3>3 DEF Before
    <3>5. Deprecated = Present \ {v}
      <4>1. \A w \in Present \ {v} : image[w] # Nil
        BY <3>2 DEF Active, Present
      <4> QED
        BY <1>5, <4>1 DEF Deprecated
    <3>6. Newest(Deprecated) = {s}
      <4>1. \A w \in Newest(Deprecated) : Before(w, v)
        BY <3>5 DEF Newest, Before
      <4>2. s \in Newest(Deprecated)
        BY <3>2, <3>4, <3>5 DEF Newest, Before
      <4>3. Newest(Deprecated) \subseteq Present \ {v}
        BY <3>5 DEF Newest
      <4> QED
        BY <3>2, <3>3, <3>4, <4>1, <4>2, <4>3
    <3>7. \A w \in Version : p.deprecate[w] = IF w = v THEN state
                                              ELSE IF w = s THEN "ACTIVE" ELSE "no"
      BY <2>3, <3>6
    <3>8. s \in Version /\ Active \subseteq Version
      BY <3>4 DEF Present, Active
    <3> QED
      BY <3>2, <3>4, <3>7, <3>8 DEF Nil
  <2>9. RestoreInv'
    <3>1. rollbacks' <= 1 => rollbacks = 0
      BY <1>1
    <3> QED
      BY <1>0, <1>1, <1>2, <2>2, <2>5, <2>8, <3>1 DEF RestoreInv
  <2> QED
    BY <1>2, <1>3, <2>6, <2>7, <2>9
<1> QED
  BY <1>4, <1>5 DEF PlanRollback

\* A step of the workflow: what is not in its plan any more is done.
LEMMA RunningTypes ==
    ASSUME OneTypes, NEW t \in Tool, pc[t] = "running", NEW p \in Plan,
           p.version = plan[t].version, plan' = [plan EXCEPT ![t] = p],
           image' \in [Version -> Status \cup {"absent"}],
           born' \in [Version -> Nat], clock' \in Nat,
           UNCHANGED <<pc, outcome, last, rollbacks>>
    PROVE  OneTypes' /\ plan'[t] = p /\ t \in Busy
<1>1. Busy' = Busy /\ t \in Busy
  BY DEF Busy
<1>2. plan' \in [Tool -> Plan] /\ plan'[t] = p
  BY DEF OneTypes
<1>3. \A u \in Busy : plan'[u].version \in Version
  <2> TAKE u \in Busy
  <2>1. CASE u = t
    BY <1>1, <1>2, <2>1 DEF OneTypes
  <2>2. CASE u # t
    BY <2>2 DEF OneTypes, Busy
  <2> QED
    BY <2>1, <2>2
<1> QED
  BY <1>1, <1>2, <1>3 DEF OneTypes

LEMMA OverwriteKeepsOne ==
    ASSUME OneAtATime, OneInv, NEW t \in Tool, DeleteOverwritten(t)
    PROVE  OneInv'
<1> DEFINE v == plan[t].version
           p == [plan[t] EXCEPT !.create = "yes"]
<1> USE DEF OneInv
<1>0. \A u \in Tool : u = t
  BY DEF OneAtATime
<1>1. /\ pc[t] = "running" /\ plan[t].create = "overwrite"
      /\ image' = [image EXCEPT ![v] = "absent"]
      /\ plan' = [plan EXCEPT ![t] = p]
      /\ UNCHANGED <<pc, outcome, last, born, clock, rollbacks>>
  BY DEF DeleteOverwritten, Continue, bounds
<1>2. plan[t] \in Plan /\ v \in Version
  BY <1>1 DEF OneTypes, Busy
<1>3. /\ p \in Plan /\ p.version = v /\ p.kind = plan[t].kind
      /\ p.status = plan[t].status /\ p.deprecate = plan[t].deprecate
      /\ p.delete = plan[t].delete /\ p.served = plan[t].served
  BY <1>2 DEF Plan
<1> HIDE DEF v, p
<1>4. image' \in [Version -> Status \cup {"absent"}]
      /\ \A w \in Version : image'[w] = IF w = v THEN "absent" ELSE image[w]
  BY <1>1 DEF OneTypes
<1>5. OneTypes' /\ plan'[t] = p
  BY <1>1, <1>3, <1>4, RunningTypes DEF OneTypes, v
<1>6. Present' \subseteq Present /\ Active' \subseteq Active
  BY <1>4 DEF Present, Active, Nil
<1>7. BornInv'
  BY <1>1, <1>6 DEF BornInv
<1>8. SoleInv'
  <2>1. Targets(t)' = Targets(t)
    BY <1>3, <1>5 DEF Targets
  <2> QED
    BY <1>0, <1>1, <1>3, <1>4, <1>5, <1>6, <2>1 DEF SoleInv, v
<1>9. PublishInv'
  BY <1>0, <1>1, <1>3, <1>5, <1>6 DEF PublishInv, Before, v
<1>10. LastInv' /\ RestoreInv'
  BY <1>0, <1>1, <1>3, <1>5 DEF LastInv, RestoreInv
<1> QED
  BY <1>5, <1>7, <1>8, <1>9, <1>10

LEMMA CreateKeepsOne ==
    ASSUME OneAtATime, OneInv, NEW t \in Tool, CreateImage(t)
    PROVE  OneInv'
<1> DEFINE v == plan[t].version
           p == [plan[t] EXCEPT !.create = "no"]
<1> USE DEF OneInv
<1>0. \A u \in Tool : u = t
  BY DEF OneAtATime
<1>1. /\ pc[t] = "running" /\ plan[t].create = "yes"
      /\ image' = [image EXCEPT ![v] = plan[t].status]
      /\ born' = [born EXCEPT ![v] = clock + 1] /\ clock' = clock + 1
      /\ plan' = [plan EXCEPT ![t] = p]
      /\ UNCHANGED <<pc, outcome, last, rollbacks>>
  BY DEF CreateImage, Continue, bounds
<1>2. plan[t] \in Plan /\ v \in Version
  BY <1>1 DEF OneTypes, Busy
<1>3. /\ p \in Plan /\ p.version = v /\ p.kind = plan[t].kind
      /\ p.status = plan[t].status /\ p.deprecate = plan[t].deprecate
      /\ p.delete = plan[t].delete /\ p.served = plan[t].served
      /\ plan[t].status \in Status
  BY <1>2 DEF Plan
<1> HIDE DEF v, p
<1>4. /\ image' \in [Version -> Status \cup {"absent"}]
      /\ born' \in [Version -> Nat] /\ clock' \in Nat
      /\ \A w \in Version : image'[w] = IF w = v THEN plan[t].status ELSE image[w]
      /\ \A w \in Version : born'[w] = IF w = v THEN clock + 1 ELSE born[w]
  BY <1>1, <1>2, <1>3 DEF OneTypes
<1>5. OneTypes' /\ plan'[t] = p
  BY <1>1, <1>3, <1>4, RunningTypes DEF v
<1>6. Present' \subseteq Present \cup {v} /\ Active' \subseteq Active \cup {v}
  BY <1>4 DEF Present, Active
<1>7. BornInv'
  <2>1. \A w \in Version : born[w] \in Nat /\ born[w] <= clock /\ clock \in Nat
    BY DEF OneTypes, BornInv
  <2>2. \A w \in Version : born'[w] <= clock'
    BY <1>1, <1>4, <2>1
  <2>3. \A w \in Present' : born'[w] > 0
    <3>1. \A w \in Present' : w \in Version /\ (w # v => w \in Present)
      BY <1>6 DEF Present
    <3> QED
      BY <1>4, <2>1, <3>1 DEF BornInv
  <2>4. ASSUME NEW x \in Version, NEW y \in Version, born'[x] = born'[y]
        PROVE  x = y \/ born'[x] = 0
    <3>1. CASE x = v \/ y = v
      BY <1>4, <2>1, <2>4, <3>1
    <3>2. CASE x # v /\ y # v
      BY <1>4, <2>4, <3>2 DEF BornInv
    <3> QED
      BY <3>1, <3>2
  <2> QED
    BY <2>2, <2>3, <2>4 DEF BornInv
<1>8. SoleInv'
  <2>1. Targets(t)' = Targets(t)
    BY <1>3, <1>5 DEF Targets
  <2> QED
    BY <1>0, <1>1, <1>3, <1>4, <1>5, <1>6, <2>1 DEF SoleInv, v
<1>9. PublishInv'
  <2>1. ASSUME plan[t].kind = "publish", NEW s \in plan[t].served
        PROVE  s # v /\ \A w \in Present' \ {v} : born'[w] <= born'[s]
    <3>1. Before(s, v) /\ s \in Version
      BY <1>1, <1>2, <2>1 DEF PublishInv, v, Plan
    <3>2. born'[s] = born[s]
      BY <1>4, <3>1 DEF Before
    <3>3. \A w \in Present' \ {v} : w \in Present \ {v} /\ born'[w] = born[w]
      BY <1>4, <1>6 DEF Present
    <3> QED
      BY <3>1, <3>2, <3>3 DEF Before
  <2> QED
    BY <1>0, <1>3, <1>5, <2>1 DEF PublishInv, Before
<1>10. LastInv' /\ RestoreInv'
  BY <1>0, <1>1, <1>3, <1>5 DEF LastInv, RestoreInv
<1> QED
  BY <1>5, <1>7, <1>8, <1>9, <1>10

LEMMA DeprecateKeepsOne ==
    ASSUME OneAtATime, OneInv, NEW t \in Tool, NEW v \in Version, DeprecateImage(t, v)
    PROVE  OneInv'
<1> DEFINE p == [plan[t] EXCEPT !.deprecate[v] = "no"]
<1> USE DEF OneInv
<1>0. \A u \in Tool : u = t
  BY DEF OneAtATime
<1>1. /\ pc[t] = "running" /\ plan[t].deprecate[v] # "no" /\ v \in Present
      /\ image' = [image EXCEPT ![v] = plan[t].deprecate[v]]
      /\ plan' = [plan EXCEPT ![t] = p]
      /\ UNCHANGED <<pc, outcome, last, born, clock, rollbacks>>
  BY DEF DeprecateImage, Ready, Continue, bounds
<1>2. plan[t] \in Plan /\ plan[t].deprecate[v] \in Status
  BY <1>1 DEF OneTypes, Plan
<1>3. /\ p \in Plan /\ p.version = plan[t].version /\ p.kind = plan[t].kind
      /\ p.status = plan[t].status /\ p.create = plan[t].create
      /\ p.delete = plan[t].delete /\ p.served = plan[t].served
      /\ \A w \in Version :
            p.deprecate[w] = IF w = v THEN "no" ELSE plan[t].deprecate[w]
  BY <1>2 DEF Plan
<1> HIDE DEF p
<1>4. /\ image' \in [Version -> Status \cup {"absent"}]
      /\ \A w \in Version :
            image'[w] = IF w = v THEN plan[t].deprecate[v] ELSE image[w]
  BY <1>1, <1>2 DEF OneTypes
<1>5. OneTypes' /\ plan'[t] = p
  BY <1>1, <1>3, <1>4, RunningTypes DEF OneTypes
<1>6. Present' \subseteq Present
  BY <1>1, <1>4 DEF Present
<1>7. BornInv'
  BY <1>1, <1>6 DEF BornInv
<1>8. SoleInv'
  <2>1. SUFFICES ASSUME rollbacks = 0 PROVE SoleInv'
    BY <1>1 DEF SoleInv
  <2>2. /\ plan[t].deprecate[v] = "DEPRECATED" /\ plan[t].kind # "rollback"
        /\ plan[t].status = Nil
        /\ \A w \in Version : plan[t].deprecate[w] \in {"no", "DEPRECATED"}
        /\ Active \subseteq {plan[t].version} \cup Targets(t)
        /\ outcome[t] # "published"
    BY <1>1, <2>1 DEF SoleInv
  <2>3. Active' = Active \ {v}
    BY <1>4, <2>2 DEF Active, Nil
  <2>4. Targets(t) \subseteq Targets(t)' \cup {v}
    BY <1>3, <1>5 DEF Targets
  <2>5. \A w \in Version : image'[w] \in {"absent", Nil, "DEPRECATED"}
    BY <1>4, <2>1, <2>2 DEF SoleInv
  <2> QED
    BY <1>0, <1>1, <1>3, <1>5, <2>2, <2>3, <2>4, <2>5 DEF SoleInv
<1>9. PublishInv'
  BY <1>0, <1>1, <1>3, <1>5, <1>6 DEF PublishInv, Before
<1>10. LastInv'
  BY <1>0, <1>1 DEF LastInv
<1>11. RestoreInv'
  <2>1. ASSUME plan[t].kind = "rollback"
        PROVE  p.create = "no" /\ p.delete = {}
    BY <1>1, <1>3, <2>1 DEF RestoreInv
  <2>2. ASSUME plan[t].kind = "rollback", rollbacks <= 1,
               plan[t].version = last.version, NEW s \in last.served
        PROVE  /\ last.served = {s} /\ s # last.version
               /\ \/ p.deprecate[s] = "ACTIVE"
                  \/ p.deprecate[s] = "no" /\ image'[s] = "ACTIVE"
               /\ \A w \in Version : w # s => p.deprecate[w] # "ACTIVE"
                                              /\ p.deprecate[w] # Nil
               /\ \A w \in Active' \ {s} : w = last.version /\ p.deprecate[w] # "no"
    <3>1. /\ last.served = {s} /\ s # last.version
          /\ \/ plan[t].deprecate[s] = "ACTIVE"
             \/ plan[t].deprecate[s] = "no" /\ image[s] = "ACTIVE"
          /\ \A w \in Version : w # s => plan[t].deprecate[w] # "ACTIVE"
                                         /\ plan[t].deprecate[w] # Nil
          /\ \A w \in Active \ {s} :
                w = last.version /\ plan[t].deprecate[w] # "no"
      BY <1>1, <2>2 DEF RestoreInv
    <3>2. s \in Version
      BY <2>2 DEF OneTypes
    <3>3. \/ p.deprecate[s] = "ACTIVE"
          \/ p.deprecate[s] = "no" /\ image'[s] = "ACTIVE"
      BY <1>1, <1>3, <1>4, <3>1, <3>2
    <3>4. \A w \in Version : w # s => p.deprecate[w] # "ACTIVE"
                                      /\ p.deprecate[w] # Nil
      BY <1>3, <3>1 DEF Nil
    <3>5. ASSUME NEW w \in Active', w # s
          PROVE  w = last.version /\ p.deprecate[w] # "no"
      <4>1. w \in Version /\ w # v
        BY <1>4, <3>1, <3>5 DEF Active, Nil
      <4>2. w \in Active
        BY <1>4, <3>5, <4>1 DEF Active
      <4> QED
        BY <1>3, <3>1, <3>5, <4>1, <4>2
    <3> QED
      BY <3>1, <3>3, <3>4, <3>5
  <2> QED
    BY <1>0, <1>1, <1>3, <1>5, <2>1, <2>2 DEF RestoreInv
<1> QED
  BY <1>5, <1>7, <1>8, <1>9, <1>10, <1>11

LEMMA DeleteKeepsOne ==
    ASSUME OneAtATime, OneInv, NEW t \in Tool, NEW v \in Version, DeleteImage(t, v)
    PROVE  OneInv'
<1> DEFINE p == [plan[t] EXCEPT !.delete = @ \ {v}]
<1> USE DEF OneInv
<1>0. \A u \in Tool : u = t
  BY DEF OneAtATime
<1>1. /\ pc[t] = "running" /\ v \in plan[t].delete
      /\ image' = [image EXCEPT ![v] = "absent"]
      /\ plan' = [plan EXCEPT ![t] = p]
      /\ UNCHANGED <<pc, outcome, last, born, clock, rollbacks>>
  BY DEF DeleteImage, Continue, bounds
<1>2. plan[t] \in Plan
  BY DEF OneTypes
<1>3. /\ p \in Plan /\ p.version = plan[t].version /\ p.kind = plan[t].kind
      /\ p.status = plan[t].status /\ p.deprecate = plan[t].deprecate
      /\ p.delete = plan[t].delete \ {v} /\ p.served = plan[t].served
  BY <1>2 DEF Plan
<1> HIDE DEF p
<1>4. image' \in [Version -> Status \cup {"absent"}]
      /\ \A w \in Version : image'[w] = IF w = v THEN "absent" ELSE image[w]
  BY <1>1 DEF OneTypes
<1>5. OneTypes' /\ plan'[t] = p
  BY <1>1, <1>3, <1>4, RunningTypes DEF OneTypes
<1>6. Present' \subseteq Present /\ Active' = Active \ {v}
  BY <1>4 DEF Present, Active, Nil
<1>7. BornInv'
  BY <1>1, <1>6 DEF BornInv
<1>8. SoleInv'
  <2>1. Targets(t) \subseteq Targets(t)' \cup {v}
    BY <1>3, <1>5 DEF Targets
  <2> QED
    BY <1>0, <1>1, <1>3, <1>4, <1>5, <1>6, <2>1 DEF SoleInv
<1>9. PublishInv'
  BY <1>0, <1>1, <1>3, <1>5, <1>6 DEF PublishInv, Before
<1>10. LastInv'
  BY <1>0, <1>1 DEF LastInv
<1>11. RestoreInv'
  BY <1>0, <1>1, <1>3, <1>5 DEF RestoreInv
<1> QED
  BY <1>5, <1>7, <1>8, <1>9, <1>10, <1>11

\* The question and the two ends: the project and the plans stay.
LEMMA AnswerKeepsOne ==
    ASSUME OneAtATime, OneInv, NEW t \in Tool, Confirm(t)
    PROVE  OneInv'
<1> USE DEF OneInv
<1>0. \A u \in Tool : u = t
  BY DEF OneAtATime
<1>1. /\ UNCHANGED <<image, born, clock, plan, last, rollbacks>> /\ pc[t] = "planned"
      /\ pc' \in [Tool -> {"idle", "planned", "running"}]
      /\ outcome' \in [Tool -> Outcome]
      /\ outcome'[t] \in {outcome[t], "declined"}
      /\ outcome'[t] # outcome[t] => pc'[t] = "idle"
  BY DEF Confirm, bounds, OneTypes, Outcome
<1>2. BornInv' /\ Present' = Present /\ Active' = Active /\ Targets(t)' = Targets(t)
  BY <1>1 DEF BornInv, Present, Active, Targets
<1>3. OneTypes'
  <2>1. Busy' \subseteq Busy
    BY <1>0, <1>1 DEF Busy
  <2> QED
    BY <1>1, <2>1 DEF OneTypes
<1>4. SoleInv'
  BY <1>0, <1>1, <1>2 DEF SoleInv
<1>5. PublishInv' /\ LastInv' /\ RestoreInv'
  BY <1>0, <1>1, <1>2 DEF PublishInv, LastInv, RestoreInv, Before
<1> QED
  BY <1>2, <1>3, <1>4, <1>5

LEMMA FailKeepsOne ==
    ASSUME OneAtATime, OneInv, NEW t \in Tool, WorkflowFails(t)
    PROVE  OneInv'
<1> USE DEF OneInv
<1>0. \A u \in Tool : u = t
  BY DEF OneAtATime
<1>1. /\ UNCHANGED <<image, born, clock, plan, rollbacks>>
      /\ pc' = [pc EXCEPT ![t] = "idle"]
      /\ outcome' = [outcome EXCEPT ![t] = "failed"]
      /\ last' = NoPublish
  BY DEF WorkflowFails
<1>2. /\ pc' \in [Tool -> {"idle", "planned", "running"}] /\ pc'[t] = "idle"
      /\ outcome' \in [Tool -> Outcome] /\ outcome'[t] = "failed"
      /\ last' \in [version: 0..MaxVersion, served: SUBSET Version]
      /\ last'.version = 0
  BY <1>1, PublishAssumption DEF OneTypes, Outcome, NoPublish
<1>3. BornInv' /\ Present' = Present
  BY <1>1 DEF BornInv, Present
<1>4. OneTypes'
  <2>1. Busy' \subseteq Busy
    BY <1>0, <1>2 DEF Busy
  <2> QED
    BY <1>1, <1>2, <2>1 DEF OneTypes
<1>5. SoleInv'
  BY <1>0, <1>1, <1>2 DEF SoleInv
<1>6. PublishInv' /\ LastInv' /\ RestoreInv'
  BY <1>0, <1>2 DEF PublishInv, LastInv, RestoreInv
<1> QED
  BY <1>3, <1>4, <1>5, <1>6

LEMMA EndKeepsOne ==
    ASSUME OneAtATime, OneInv, NEW t \in Tool, WorkflowEnds(t)
    PROVE  OneInv'
<1> DEFINE v == plan[t].version
<1> USE DEF OneInv
<1>0. \A u \in Tool : u = t
  BY DEF OneAtATime
<1>1. /\ UNCHANGED <<image, born, clock, plan, rollbacks>> /\ pc[t] = "running"
      /\ pc' = [pc EXCEPT ![t] = "idle"]
      /\ outcome' = [outcome EXCEPT ![t] =
              IF plan[t].kind = "rollback" THEN "rolledBack" ELSE "published"]
      /\ last' = IF plan[t].kind = "publish"
                 THEN [version |-> v, served |-> plan[t].served \cap Present]
                 ELSE NoPublish
  BY DEF WorkflowEnds, bounds
<1>2. /\ pc' \in [Tool -> {"idle", "planned", "running"}] /\ pc'[t] = "idle"
      /\ outcome' \in [Tool -> Outcome]
  BY <1>1 DEF OneTypes, Outcome
<1>3. Targets(t) = {} /\ v \in Version /\ v # 0
  BY <1>1, PublishAssumption DEF WorkflowEnds, HasSteps, NoChange, Targets, OneTypes, Busy, Version
<1>4. /\ last' \in [version: 0..MaxVersion, served: SUBSET Version]
      /\ last'.version # 0 =>
            plan[t].kind = "publish" /\ last'.version = v
            /\ last'.served = plan[t].served \cap Present
  <2>1. plan[t].served \subseteq Version /\ v \in 0..MaxVersion
    BY DEF OneTypes, Plan
  <2> QED
    BY <1>1, <2>1, PublishAssumption DEF NoPublish
<1>5. BornInv' /\ Present' = Present /\ Active' = Active
      /\ \A s, w : Before(s, w)' = Before(s, w)
  BY <1>1 DEF BornInv, Present, Active, Before
<1>6. OneTypes'
  <2>1. Busy' \subseteq Busy
    BY <1>0, <1>2 DEF Busy
  <2> QED
    BY <1>1, <1>2, <1>4, <2>1 DEF OneTypes
<1>7. rollbacks = 0 => Active \subseteq {v}
  BY <1>1, <1>3 DEF SoleInv
<1> HIDE DEF v
<1>8. SoleInv'
  <2>1. /\ Active' \subseteq {plan'[t].version} \/ rollbacks # 0
        /\ plan'[t].version \in Version
    BY <1>1, <1>3, <1>5, <1>7 DEF v
  <2> QED
    BY <1>0, <1>1, <1>2, <2>1 DEF SoleInv
<1>9. LastInv'
  <2>1. ASSUME plan[t].kind = "publish", NEW s \in plan[t].served \cap Present
        PROVE  s \in Present /\ Before(s, v)
    BY <1>1, <2>1 DEF PublishInv, v
  <2>2. \A s \in Present : \A w : last'.version = w => (Before(s, last.version)' <=> Before(s, w))
    BY <1>1, <1>5 DEF Before
  <2> QED
    BY <1>0, <1>1, <1>4, <1>5, <1>7, <2>1, <2>2 DEF LastInv
<1>10. PublishInv' /\ RestoreInv'
  BY <1>0, <1>2 DEF PublishInv, RestoreInv
<1> QED
  BY <1>5, <1>6, <1>8, <1>9, <1>10

LEMMA StepKeepsOne ==
    ASSUME OneAtATime, OneInv, [Next]_vars PROVE OneInv'
<1>1. ASSUME NEW t \in Tool, ToolStep(t) PROVE OneInv'
  BY <1>1, PublishKeepsOne, RollbackKeepsOne, DeprecateKeepsOne, DeleteKeepsOne,
     AnswerKeepsOne, OverwriteKeepsOne, CreateKeepsOne, FailKeepsOne, EndKeepsOne
     DEF ToolStep
<1>2. CASE UNCHANGED vars
  BY <1>2 DEF vars, bounds, OneInv, OneTypes, BornInv, SoleInv, PublishInv, LastInv,
     RestoreInv, Before, Busy, Present, Active, Targets
<1> QED
  BY <1>1, <1>2 DEF Next, Terminating

LEMMA OneAtATimeInvariant ==
    ASSUME OneAtATime PROVE Spec => []OneInv
<1>1. Init => OneInv
  <2> SUFFICES ASSUME Init PROVE OneInv
    OBVIOUS
  <2>1. Busy = {} /\ Present = {} /\ Active = {}
    BY DEF Init, Busy, Present, Active, Nil
  <2>2. OneTypes
    <3>1. plan \in [Tool -> Plan]
      BY PublishAssumption DEF Init, Plan, NoChange, Status
    <3>2. last \in [version: 0..MaxVersion, served: SUBSET Version]
      BY PublishAssumption DEF Init, NoPublish
    <3>3. image \in [Version -> Status \cup {"absent"}] /\ born \in [Version -> Nat]
      BY DEF Init
    <3>4. outcome \in [Tool -> Outcome] /\ rollbacks \in 0..MaxRollbacks
      BY PublishAssumption DEF Init, Outcome
    <3> QED
      BY <2>1, <3>1, <3>2, <3>3, <3>4 DEF Init, OneTypes
  <2>3. last.version = 0
    BY DEF Init, NoPublish
  <2> QED
    BY <2>1, <2>2, <2>3 DEF Init, OneInv, BornInv, SoleInv, PublishInv, LastInv,
       RestoreInv
<1> QED
  BY <1>1, StepKeepsOne, PTL DEF Spec

\* As long as nothing is rolled back, the image of a publish that succeeded is
\* the only active one, whatever earlier workflows left behind: images of any
\* version, replaced, skipped and published again, any number of failures.
THEOREM OnlyTheNewImage ==
    ASSUME OneAtATime PROVE Spec => []OnlyNewActive
<1>1. OneInv => OnlyNewActive
  <2> SUFFICES ASSUME OneInv, NEW t \in Tool, outcome[t] = "published",
                      rollbacks = 0, image[plan[t].version] = Nil
               PROVE  Active = {plan[t].version}
    BY DEF OnlyNewActive
  <2>1. Active \subseteq {plan[t].version}
    BY DEF OneInv, SoleInv
  <2>2. plan[t].version \in Version
    BY DEF OneInv, SoleInv
  <2> QED
    BY <2>1, <2>2 DEF Active
<1> QED
  BY <1>1, OneAtATimeInvariant, PTL

\* The first rollback, if it is of the last publish, makes the family resolve to
\* the image it resolved to before - unless that was not the newest one, or the
\* publish has deleted it.
THEOREM RollbackBringsBack ==
    ASSUME OneAtATime, MaxRollbacks <= 1 PROVE Spec => RollbackRestores
<1>1. ASSUME OneInv, NEW t \in Tool, WorkflowEnds(t),
             plan[t].kind = "rollback", plan[t].version = last.version
      PROVE  last.served \in {{}, Served}
  <2>1. pc[t] # "idle" /\ ~HasSteps(plan[t])
    BY <1>1 DEF WorkflowEnds
  <2>2. rollbacks <= 1
    BY <1>1, PublishAssumption DEF OneInv, OneTypes
  <2>3. \A w \in Version : plan[t].deprecate[w] = "no"
    BY <2>1 DEF HasSteps, NoChange
  <2>4. ASSUME NEW s \in last.served PROVE last.served = Served
    <3>1. /\ last.served = {s}
          /\ \/ plan[t].deprecate[s] = "ACTIVE"
             \/ plan[t].deprecate[s] = "no" /\ image[s] = "ACTIVE"
          /\ \A w \in Active \ {s} :
                w = last.version /\ plan[t].deprecate[w] # "no"
      BY <1>1, <2>1, <2>2 DEF OneInv, RestoreInv
    <3>2. s \in Version /\ born[s] \in Nat
      BY <1>1 DEF OneInv, OneTypes
    <3>3. Active = {s}
      <4>1. s \in Active
        BY <2>3, <3>1, <3>2 DEF Active
      <4>2. Active \ {s} = {}
        BY <2>3, <3>1 DEF Active
      <4> QED
        BY <4>1, <4>2
    <3>4. Served = {s}
      BY <3>2, <3>3 DEF Served, Newest
    <3> QED
      BY <3>1, <3>4
  <2> QED
    BY <2>4
<1>2. OneInv /\ [Next]_vars =>
        [\A t \in Tool :
           WorkflowEnds(t) /\ plan[t].kind = "rollback" /\ plan[t].version = last.version
             => last.served \in {{}, Served}]_vars
  BY <1>1
<1> QED
  BY <1>2, OneAtATimeInvariant, PTL DEF Spec, RollbackRestores
=============================================================================
