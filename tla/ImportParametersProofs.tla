---------------------- MODULE ImportParametersProofs ----------------------
(***************************************************************************)
(* ImportParameters for any zones, regions, multi-regions and networks:    *)
(* its types, when a file is deleted, and that the parameters fit together *)
(* - the scratch bucket among them, whoever created it.                    *)
(***************************************************************************)
EXTENDS ImportParameters, WellFoundedInduction, TLAPS

\* A set of natural numbers that is not empty contains its minimum.
LEMMA MinIsMember ==
  ASSUME NEW S \in SUBSET Nat, S # {}
  PROVE  Min(S) \in S
<1>1. PICK x \in S : \A y \in S : ~(<<y, x>> \in OpToRel(<, Nat))
  BY NatLessThanWellFounded, WFMin
<1>2. \A y \in S : y < x => <<y, x>> \in OpToRel(<, Nat)
  <2> TAKE y \in S
  <2>1. <<y, x>> \in Nat \X Nat
    OBVIOUS
  <2>2. y < x => <<y, x>> \in {ss \in Nat \X Nat : ss[1] < ss[2]}
    BY <2>1
  <2> QED
    BY <2>2 DEF OpToRel
<1>3. \A y \in S : x =< y
  <2> TAKE y \in S
  <2>1. ~(y < x)
    BY <1>1, <1>2
  <2>2. x \in Nat /\ y \in Nat
    OBVIOUS
  <2> QED
    BY <2>1, <2>2
<1> QED
  BY <1>3 DEF Min

LEMMA MinIsLeast ==
  ASSUME NEW S \in SUBSET Nat, S # {}, NEW x \in S
  PROVE  Min(S) =< x
<1>1. Min(S) \in S
  BY MinIsMember
<1>2. \E y \in S : \A z \in S : y =< z
  <2>1. PICK y \in S : \A z \in S : ~(<<z, y>> \in OpToRel(<, Nat))
    BY NatLessThanWellFounded, WFMin
  <2>2. ASSUME NEW z \in S PROVE y =< z
    <3>1. z \in Nat /\ y \in Nat /\ <<z, y>> \in Nat \X Nat
      OBVIOUS
    <3>2. ~(z < y)
      BY <2>1, <3>1 DEF OpToRel
    <3> QED
      BY <3>1, <3>2
  <2> QED
    BY <2>2
<1> QED
  BY <1>2 DEF Min

\* The zone that is found for a location is one of the project.
LEMMA ZoneFromLocationType ==
  ASSUME NEW place \in Location, NEW zones \in SUBSET Zone
  PROVE  ZoneFromLocation(place, zones) \in Zone \cup {None}
<1>1. ASSUME NEW r PROVE ZoneForRegion(r, zones) \in Zone \cup {None}
  <2>1. UpIn(r, zones) \in SUBSET Nat /\ UpIn(r, zones) \subseteq DOMAIN ZoneList
    BY PlacesAssumption DEF UpIn
  <2>2. CASE UpIn(r, zones) = {}
    BY <2>2 DEF ZoneForRegion
  <2>3. CASE UpIn(r, zones) # {}
    <3>1. Min(UpIn(r, zones)) \in DOMAIN ZoneList
      BY <2>1, <2>3, MinIsMember
    <3> QED
      BY <3>1, <2>3 DEF ZoneForRegion, Zone
  <2> QED
    BY <2>2, <2>3
<1> QED
  BY <1>1 DEF ZoneFromLocation, BestZone

\* The locations that GetLargestStorageLocation may return contain the place.
LEMMA LargestContains ==
  ASSUME NEW place \in Location \cup {None}, NEW l \in LargestLocations(place)
  PROVE  l \in Location \cup {None} /\ Contains(l, place)
BY DEF LargestLocations, Contains, Location

\* TypeOK and what the next steps rely on: which values are known when.
TypeInv ==
    /\ TypeOK
    /\ pc \in {"list", "create"} => want # None
    /\ pc \in {"owned", "region", "reject"} => in.scratch # None
    /\ pc \in {"region", "reject"} => in.scratch # Bad
    /\ pc \in {"network", "done"} => out.zone # Bad
    /\ DOMAIN out = {"scratch", "near", "location", "zone", "region"}

USE DEF None, Bad, Mine, Other, GetRegion

LEMMA TypeInit == Init => TypeInv
<1> SUFFICES ASSUME Init PROVE TypeInv
  OBVIOUS
<1>1. bucket \in [Bucket -> Buckets]
  <2>1. PICK src \in {Absent} \cup [owner : {Other}, loc : Location],
             scr \in {Absent} \cup [owner : {Mine, Other}, loc : {RegionOf[MetaZone]}],
             shared \in SharedBuckets :
               bucket = [b \in Bucket |-> CASE b = "src" -> src
                                            [] b = "scr" -> scr
                                            [] OTHER -> shared[b]]
    BY DEF Init
  <2>2. RegionOf[MetaZone] \in Location /\ DefaultRegion \in Location
    BY PlacesAssumption DEF Location, Region
  <2>3. src \in Buckets /\ scr \in Buckets
    BY <2>1, <2>2 DEF Buckets
  <2>4. \A l \in Location : shared[l] \in Buckets
    BY <2>1, <2>2 DEF SharedBuckets, Buckets
  <2> QED
    BY <2>1, <2>3, <2>4 DEF Bucket
<1>2. /\ pc = "project" /\ in \in Inputs /\ want = None /\ up = {}
      /\ out = [scratch |-> None, near |-> None, location |-> None,
                zone |-> None, region |-> None]
      /\ failed = {} /\ deleted = FALSE
  BY DEF Init
<1> QED
  BY <1>1, <1>2 DEF TypeInv, TypeOK

\* Every step keeps the types.
LEMMA TypeStep ==
  ASSUME TypeInv, [Next]_vars
  PROVE  TypeInv'
<1> USE DEF TypeInv, TypeOK, Fail, Lost, Call
<1>1. CASE PopulateProject
  BY <1>1 DEF PopulateProject
<1>2. CASE WantNearFile
  <2>1. in.file \in Bucket /\ bucket[in.file].loc \in Location
    BY <1>2 DEF WantNearFile, FileFound, Inputs, Bucket, Buckets
  <2>2. None \notin Location
    BY PlacesAssumption
  <2> QED
    BY <1>2, <2>1, <2>2 DEF WantNearFile
<1>3. CASE WantNearZone
  <2>1. None \notin Location /\ DefaultRegion \in Location
        /\ \A z \in Zone : RegionOf[z] \in Location
    BY PlacesAssumption DEF Location, Region
  <2>2. MetaZone \in Zone /\ in.zone \in Zone \cup {None, Bad}
    BY PlacesAssumption DEF Inputs
  <2> QED
    BY <1>3, <2>1, <2>2 DEF WantNearZone, FallbackZone
<1>4. CASE LookForScratch
  <2>1. CASE InProject(want)
    <3>1. want \in Bucket /\ bucket[want].loc \in Location
      BY <1>4, <2>1 DEF LookForScratch, Bucket, Buckets, InProject, Absent
    <3> QED
      BY <1>4, <3>1 DEF LookForScratch, UseScratch
  <2> QED
    BY <1>4, <2>1 DEF LookForScratch
<1>5. CASE CreateScratch
  <2>1. want \in Location /\ want \in Bucket
    BY <1>5 DEF CreateScratch, Bucket
  <2> QED
    <3>1. [owner |-> Mine, loc |-> want] \in Buckets
      BY <2>1 DEF Buckets
    <3>2. bucket' \in [Bucket -> Buckets]
      BY <1>5, <2>1, <3>1 DEF CreateScratch
    <3>3. /\ out' = out \/ out' = [out EXCEPT !.scratch = want, !.near = want]
          /\ pc' \in {"location", "failed"}
          /\ UNCHANGED <<in, want, up, net, failed, deleted>>
      BY <1>5 DEF CreateScratch, UseScratch
    <3> QED
      BY <2>1, <3>2, <3>3
<1>6. CASE OtherToolCreates
  <2>1. want \in Location /\ want \in Bucket
    BY <1>6 DEF OtherToolCreates, Bucket
  <2> QED
    BY <1>6, <2>1 DEF OtherToolCreates, Buckets
<1>7. CASE CheckScratch
  BY <1>7 DEF CheckScratch
<1>8. CASE RejectScratch
  BY <1>8 DEF RejectScratch
<1>9. CASE ReadScratchRegion
  <2>1. in.scratch \in Bucket /\ bucket[in.scratch].loc \in Location \cup {None}
    BY <1>9 DEF ReadScratchRegion, Inputs, Bucket, Buckets, Absent
  <2> QED
    BY <1>9, <2>1 DEF ReadScratchRegion, UseScratch
<1>10. CASE PopulateLocation
  BY <1>10, LargestContains DEF PopulateLocation
<1>11. CASE PopulateZone
  <2>1. CASE in.zone # None
    BY <1>11, <2>1 DEF PopulateZone, Inputs
  <2>2. CASE in.zone = None
    <3>1. PICK zones \in SUBSET Zone, listed \in BOOLEAN, metaRead \in BOOLEAN :
            LET found == IF listed /\ out.near # None
                         THEN ZoneFromLocation(out.near, zones) ELSE None
                own   == IF in.onGCE /\ metaRead THEN MetaZone ELSE None
                zone  == IF found # None THEN found ELSE own
            IN  /\ out' = [out EXCEPT !.zone = zone]
                /\ pc' = IF zone = None THEN "failed" ELSE "zoned"
                /\ up' = zones
                /\ failed' = failed \cup (IF listed THEN {} ELSE {"zones"})
                                    \cup (IF metaRead THEN {} ELSE {"meta"})
      BY <1>11, <2>2 DEF PopulateZone
    <3>2. out.near # None => ZoneFromLocation(out.near, zones) \in Zone \cup {None}
      BY ZoneFromLocationType
    <3>3. MetaZone \in Zone /\ None \notin Zone /\ Bad \notin Zone
      BY PlacesAssumption
    <3>4. UNCHANGED <<in, bucket, want, net, deleted>>
      BY <1>11 DEF PopulateZone
    <3> QED
      BY <3>1, <3>2, <3>3, <3>4
  <2> QED
    BY <2>1, <2>2
<1>12. CASE PopulateRegion
  <2>1. out.zone # Bad => RegionOf[out.zone] \in Region
    BY <1>12 DEF PopulateRegion, Region
  <2> QED
    BY <1>12, <2>1 DEF PopulateRegion
<1>13. CASE ResolveNetwork
  BY <1>13 DEF ResolveNetwork
<1>14. CASE UNCHANGED vars
  BY <1>14 DEF vars
<1> QED
  BY <1>1, <1>2, <1>3, <1>4, <1>5, <1>6, <1>7, <1>8, <1>9, <1>10, <1>11, <1>12,
     <1>13, <1>14 DEF Next, Tool, Ended

\* Types of ImportParameters.
THEOREM TypeCorrect == Spec => []TypeOK
<1>1. TypeInv => TypeOK
  BY DEF TypeInv
<1> QED
  BY <1>1, TypeInit, TypeStep, PTL DEF Spec

LEMMA TypeInvariant == Spec => []TypeInv
BY TypeInit, TypeStep, PTL DEF Spec

\* A bucket of the project stays one, where it is.
Kept == \A b \in Bucket : InProject(b) => InProject(b)' /\ UNCHANGED bucket[b]

LEMMA BucketsKept ==
  ASSUME TypeInv, [Next]_vars
  PROVE  Kept
<1>1. CASE CreateScratch \/ OtherToolCreates
  <2>1. CASE bucket' = bucket
    BY <2>1 DEF Kept, InProject
  <2>2. CASE bucket[want] = Absent
             /\ bucket' = [bucket EXCEPT ![want] = [owner |-> Mine, loc |-> want]]
    <3>1. ~InProject(want)
      BY <2>2 DEF InProject, Absent
    <3>2. \A b \in Bucket : b # want => bucket'[b] = bucket[b]
      BY <2>2 DEF TypeInv, TypeOK
    <3> QED
      BY <3>1, <3>2 DEF Kept, InProject
  <2> QED
    BY <1>1, <2>1, <2>2 DEF CreateScratch, OtherToolCreates
<1>2. CASE UNCHANGED bucket
  BY <1>2 DEF Kept, InProject
<1> QED
  BY <1>1, <1>2 DEF Next, Tool, Ended, vars, PopulateProject, WantNearFile,
     WantNearZone, LookForScratch, CheckScratch, RejectScratch, ReadScratchRegion,
     PopulateLocation, PopulateZone, PopulateRegion, ResolveNetwork

\* Before its region is read the scratch bucket has been found in the project.
ScratchInv == ScratchIsOurs /\ (pc = "region" => InProject(in.scratch))

LEMMA ScratchStep ==
  ASSUME TypeInv, TypeInv', ScratchInv, [Next]_vars
  PROVE  ScratchInv'
<1> USE DEF ScratchInv, Fail, Lost
<1>1. Kept
  BY BucketsKept
<1>2. CASE UNCHANGED <<out, in>> /\ (pc' = "region" => pc = "region" \/ InProject(in.scratch))
  <2>1. out.scratch # None => out.scratch \in Bucket
    BY DEF TypeInv, TypeOK
  <2>2. pc' = "region" => in.scratch \in Bucket /\ InProject(in.scratch)
    BY <1>2 DEF TypeInv, TypeOK, Inputs, Bucket
  <2> QED
    BY <1>1, <1>2, <2>1, <2>2 DEF Kept, ScratchIsOurs, InProject
<1>3. CASE LookForScratch
  BY <1>3, <1>2 DEF LookForScratch, UseScratch, ScratchIsOurs, InProject, TypeInv, TypeOK
<1>4. CASE CreateScratch
  <2>1. CASE out' = out
    BY <1>2, <1>4, <2>1 DEF CreateScratch
  <2>2. CASE out' # out
    <3>1. want \in Bucket
      BY <1>4 DEF CreateScratch, Bucket, TypeInv, TypeOK
    <3>2. bucket' = [bucket EXCEPT ![want] = [owner |-> Mine, loc |-> want]]
          /\ out' = [out EXCEPT !.scratch = want, !.near = want]
          /\ pc' = "location"
      BY <1>4, <2>2 DEF CreateScratch, UseScratch
    <3>3. bucket'[want] = [owner |-> Mine, loc |-> want]
      BY <3>1, <3>2 DEF TypeInv, TypeOK
    <3>4. out'.scratch = want /\ out'.near = want
      BY <3>2 DEF TypeInv
    <3> QED
      BY <3>2, <3>3, <3>4 DEF ScratchIsOurs, InProject
  <2> QED
    BY <2>1, <2>2
<1>5. CASE ReadScratchRegion
  BY <1>5 DEF ReadScratchRegion, UseScratch, ScratchIsOurs, InProject, TypeInv, TypeOK
<1>6. CASE CheckScratch
  BY <1>2, <1>6 DEF CheckScratch
<1>7. CASE PopulateLocation \/ PopulateZone \/ PopulateRegion
  <2>1. /\ out'.scratch = out.scratch /\ out'.near = out.near
        /\ UNCHANGED bucket /\ pc' # "region"
    BY <1>7 DEF PopulateLocation, PopulateZone, PopulateRegion, TypeInv, TypeOK
  <2> QED
    BY <2>1 DEF ScratchIsOurs, InProject
<1>8. CASE PopulateProject \/ WantNearFile \/ WantNearZone \/ RejectScratch
           \/ ResolveNetwork \/ OtherToolCreates \/ UNCHANGED vars
  BY <1>2, <1>8 DEF PopulateProject, WantNearFile, WantNearZone, RejectScratch,
     ResolveNetwork, OtherToolCreates, vars
<1> QED
  BY <1>3, <1>4, <1>5, <1>6, <1>7, <1>8 DEF Next, Tool, Ended

\* The tool rejects a bucket of the project only after a failed listing.
DeletionInv ==
    /\ OnlyForeignUploadDeleted
    /\ pc = "reject" => (InProject(in.scratch) => "list" \in failed)
    /\ pc = "create" => in.scratch = None
    /\ pc \in {"attrs", "list"} => in.scratch = None
    /\ pc = "failed" => deleted \in BOOLEAN

LEMMA DeletionStep ==
  ASSUME TypeInv, DeletionInv, [Next]_vars
  PROVE  DeletionInv'
<1> USE DEF DeletionInv, OnlyForeignUploadDeleted, TypeInv, TypeOK, Fail, Lost
<1>1. CASE PopulateProject
  BY <1>1 DEF PopulateProject, InProject
<1>2. CASE WantNearFile
  BY <1>2 DEF WantNearFile, InProject
<1>3. CASE WantNearZone
  BY <1>3 DEF WantNearZone, InProject
<1>4. CASE LookForScratch
  BY <1>4 DEF LookForScratch, InProject
<1>5. CASE CreateScratch
  BY <1>5 DEF CreateScratch
<1>6. CASE OtherToolCreates
  BY <1>6 DEF OtherToolCreates
<1>7. CASE CheckScratch
  BY <1>7 DEF CheckScratch, InProject
<1>8. CASE RejectScratch
  BY <1>8 DEF RejectScratch, InProject
<1>9. CASE ReadScratchRegion
  BY <1>9 DEF ReadScratchRegion, InProject
<1>10. CASE PopulateLocation
  BY <1>10 DEF PopulateLocation, InProject
<1>11. CASE PopulateZone
  BY <1>11 DEF PopulateZone, InProject
<1>12. CASE PopulateRegion
  BY <1>12 DEF PopulateRegion, InProject
<1>13. CASE ResolveNetwork
  BY <1>13 DEF ResolveNetwork, InProject
<1>14. CASE UNCHANGED vars
  BY <1>14 DEF vars, InProject
<1> QED
  BY <1>1, <1>2, <1>3, <1>4, <1>5, <1>6, <1>7, <1>8, <1>9, <1>10, <1>11, <1>12,
     <1>13, <1>14 DEF Next, Tool, Ended

\* The file of the user is deleted only out of a scratch bucket that is not of
\* his project, or when that could not be found out.
THEOREM DeletesOnlyForeignUpload == Spec => []OnlyForeignUploadDeleted
<1>1. Init => DeletionInv
  BY DEF Init, DeletionInv, OnlyForeignUploadDeleted
<1>2. DeletionInv => OnlyForeignUploadDeleted
  BY DEF DeletionInv
<1> QED
  BY <1>1, <1>2, TypeInvariant, DeletionStep, PTL DEF Spec

\* ParametersFit, and the parts of it that hold before the tool is done.
FitInv ==
    /\ ScratchInv
    /\ ParametersFit
    /\ pc \in {"network", "done"} => out.region = GetRegion(out.zone)
    /\ out.location # None => Contains(out.location, out.near)
    /\ pc \in {"project", "attrs", "list", "create", "owned", "region", "reject"}
         => out.location = None

LEMMA FitStep ==
  ASSUME TypeInv, TypeInv', FitInv, [Next]_vars
  PROVE  FitInv'
<1> ScratchInv'
  BY ScratchStep DEF FitInv
<1> USE DEF FitInv, ParametersFit, TypeInv, TypeOK, Fail, ScratchInv, GetRegion
<1>1. CASE LookForScratch \/ CreateScratch \/ ReadScratchRegion
  BY <1>1 DEF LookForScratch, CreateScratch, ReadScratchRegion, UseScratch
<1>2. CASE PopulateLocation
  <2>1. CASE out' = out
    BY <1>2, <2>1 DEF PopulateLocation
  <2>2. ASSUME NEW l \in LargestLocations(out.near), out' = [out EXCEPT !.location = l]
        PROVE  FitInv'
    <3>1. Contains(l, out.near)
      BY LargestContains
    <3>2. out'.location = l /\ out'.near = out.near
      BY <2>2
    <3> QED
      BY <1>2, <3>1, <3>2 DEF PopulateLocation, Contains
  <2> QED
    BY <1>2, <2>1, <2>2 DEF PopulateLocation
<1>3. CASE PopulateZone
  BY <1>3 DEF PopulateZone
<1>4. CASE PopulateRegion
  BY <1>4 DEF PopulateRegion
<1>5. CASE ResolveNetwork
  <2>1. PICK n \in NetworkInputs, s \in SubnetInputs :
          LET network == NetworkNamed(n, s)
              subnet  == SubnetNamed(s, out.region)
          IN  /\ net' = [given |-> <<n, s>>, network |-> network, subnet |-> subnet]
              /\ \/ /\ NetworkParses(n) /\ SubnetParses(s)
                    /\ subnet # Nothing => subnet \in DOMAIN Subnets
                    /\ network # Nothing => network \in Networks
                    /\ subnet # Nothing /\ network # Nothing => Subnets[subnet] = network
                    /\ pc' = "done"
                 \/ Fail
    BY <1>5 DEF ResolveNetwork
  <2>2. NetworkNamed(n, s) # Nothing => n # Nothing \/ s = Nothing
    BY DEF NetworkNamed
  <2> QED
    BY <1>5, <2>1, <2>2 DEF ResolveNetwork
<1>6. CASE UNCHANGED <<out, net>> /\ pc' \notin {"project", "network", "done"}
           /\ (pc' \in {"attrs", "list", "create", "owned", "region", "reject"}
               => pc \in {"project", "attrs", "list", "create", "owned", "region"})
  BY <1>6
<1>7. CASE PopulateProject \/ WantNearFile \/ WantNearZone \/ OtherToolCreates
           \/ CheckScratch \/ RejectScratch
  BY <1>6, <1>7 DEF PopulateProject, WantNearFile, WantNearZone, OtherToolCreates,
     CheckScratch, RejectScratch
<1>8. CASE UNCHANGED vars
  BY <1>8 DEF vars
<1> QED
  BY <1>1, <1>2, <1>3, <1>4, <1>5, <1>7, <1>8 DEF Next, Tool, Ended

\* What the tool returns fits together, in any geography and with any networks.
THEOREM ReturnsWhatFits == Spec => []ParametersFit
<1>1. Init => FitInv
  BY DEF Init, FitInv, ParametersFit, ScratchInv, ScratchIsOurs
<1>2. FitInv => ParametersFit
  BY DEF FitInv
<1> QED
  BY <1>1, <1>2, TypeInvariant, FitStep, PTL DEF Spec

\* A zone of the region that is looked for.
LEMMA ZoneForRegionFits ==
  ASSUME NEW r, NEW zones \in SUBSET Zone, UpIn(r, zones) # {}
  PROVE  /\ ZoneForRegion(r, zones) \in zones
         /\ RegionOf[ZoneForRegion(r, zones)] = r
         /\ r \in Region
<1>1. UpIn(r, zones) \in SUBSET Nat
  BY PlacesAssumption DEF UpIn
<1>2. Min(UpIn(r, zones)) \in UpIn(r, zones)
  BY <1>1, MinIsMember
<1> DEFINE z == ZoneList[Min(UpIn(r, zones))]
<1>3. z \in zones /\ RegionOf[z] = r
  BY <1>2 DEF UpIn
<1>4. ZoneForRegion(r, zones) = z
  BY DEF ZoneForRegion
<1> HIDE DEF z
<1> QED
  BY <1>3, <1>4 DEF Region

\* The regions of a location that have a zone among these.
Open(at, zones) == {r \in Region : Contains(at, r) /\ UpIn(r, zones) # {}}

\* The zone is one of them, in an open region of the location, and none that is
\* listed before that region is open.
Cheapest(at, zone, zones) ==
    /\ zone \in zones
    /\ RegionOf[zone] \in Open(at, zones)
    /\ at \in DOMAIN MultiRegion => LET rs == MultiRegion[at].regions IN
         \E i \in DOMAIN rs : /\ rs[i] = RegionOf[zone]
                              /\ \A j \in 1..(i - 1) : rs[j] \notin Open(at, zones)

\* What getZoneFromStorageLocation finds, if there is something to be found.
LEMMA ZoneFromLocationFits ==
  ASSUME NEW at \in Location, NEW zones \in SUBSET Zone, Open(at, zones) # {}
  PROVE  Cheapest(at, ZoneFromLocation(at, zones), zones)
<1>1. CASE at \notin DOMAIN MultiRegion
  <2>1. UpIn(at, zones) # {}
    BY <1>1 DEF Open, Contains
  <2>2. ZoneFromLocation(at, zones) = ZoneForRegion(at, zones)
    BY <1>1 DEF ZoneFromLocation
  <2> QED
    BY <1>1, <2>1, <2>2, ZoneForRegionFits DEF Cheapest, Open, Contains
<1>2. CASE at \in DOMAIN MultiRegion
  <2> DEFINE rs       == MultiRegion[at].regions
             possible == {i \in DOMAIN rs : UpIn(rs[i], zones) # {}}
             m        == Min(possible)
             zone     == ZoneForRegion(rs[m], zones)
  <2>1. rs \in Seq(STRING) /\ at \notin Region
    BY <1>2, PlacesAssumption
  <2>2. possible \in SUBSET Nat
    BY <2>1
  <2>3. possible # {}
    <3>1. PICK r \in Region : Contains(at, r) /\ UpIn(r, zones) # {}
      BY DEF Open
    <3>2. PICK i \in DOMAIN rs : rs[i] = r
      BY <2>1, <3>1 DEF Contains
    <3> QED
      BY <3>1, <3>2
  <2>4. m \in possible /\ \A i \in possible : m =< i
    BY <2>2, <2>3, MinIsMember, MinIsLeast
  <2>5. ZoneFromLocation(at, zones) = zone
    BY <1>2, <2>3 DEF ZoneFromLocation, BestZone
  <2>6. m \in DOMAIN rs /\ UpIn(rs[m], zones) # {} /\ m \in 1..Len(rs)
    <3>1. ASSUME NEW i \in possible PROVE i \in DOMAIN rs /\ UpIn(rs[i], zones) # {}
      OBVIOUS
    <3>2. DOMAIN rs = 1..Len(rs)
      BY <2>1
    <3> QED
      BY <2>4, <3>1, <3>2
  <2>7. \A j \in 1..(m - 1) : rs[j] \notin Open(at, zones)
    <3> TAKE j \in 1..(m - 1)
    <3>1. j \in DOMAIN rs /\ j < m
      BY <2>1, <2>6
    <3>2. j \notin possible
      <4> HIDE DEF m, possible
      <4> QED
        BY <2>2, <2>4, <3>1
    <3> QED
      BY <3>1, <3>2 DEF Open
  <2> HIDE DEF m
  <2>8. zone \in zones /\ RegionOf[zone] = rs[m] /\ rs[m] \in Region
    BY <2>6, ZoneForRegionFits
  <2>9. Contains(at, rs[m])
    BY <1>2, <2>6 DEF Contains
  <2> HIDE DEF zone
  <2> QED
    BY <2>5, <2>6, <2>7, <2>8, <2>9 DEF Cheapest, Open
<1> QED
  BY <1>1, <1>2

\* The user left zone and scratch bucket to the tool, named a file that is
\* there, and nothing has failed.
Asked == failed = {} /\ in.zone = None /\ in.scratch = None /\ FileFound

\* The way of the file's location to the zone: the name of the scratch bucket,
\* the bucket's own location, the zone.
PlaceInv ==
    Asked =>
      /\ pc \notin {"owned", "region", "reject"}
      /\ pc \in {"list", "create"} => want = bucket[in.file].loc
      /\ pc \in {"location", "zone"} =>
           out.scratch # None /\ out.near = bucket[out.scratch].loc
      /\ (pc \in {"zoned", "network", "done"}
          /\ bucket[out.scratch].loc = bucket[in.file].loc
          /\ Open(bucket[in.file].loc, up) # {}) =>
           Cheapest(bucket[in.file].loc, out.zone, up)

\* Nothing is asked for that was not before; the user's bucket stays.
LEMMA AskedBefore ==
  ASSUME TypeInv, [Next]_vars, Asked'
  PROVE  Asked /\ bucket'[in.file] = bucket[in.file] /\ in' = in
<1> USE DEF Fail, Lost
<1>1. in' = in
  BY DEF Next, Tool, Ended, vars, PopulateProject, WantNearFile, WantNearZone,
     LookForScratch, CreateScratch, OtherToolCreates, CheckScratch, RejectScratch,
     ReadScratchRegion, PopulateLocation, PopulateZone, PopulateRegion, ResolveNetwork
<1>2. failed \subseteq failed'
  <2>1. CASE PopulateZone
    BY <2>1 DEF PopulateZone
  <2>2. CASE WantNearZone
    BY <2>2 DEF WantNearZone
  <2> QED
    BY <2>1, <2>2 DEF Next, Tool, Ended, vars, PopulateProject, WantNearFile,
       LookForScratch, CreateScratch, OtherToolCreates, CheckScratch, RejectScratch,
       ReadScratchRegion, PopulateLocation, PopulateRegion, ResolveNetwork
<1>3. bucket'[in.file] = bucket[in.file]
  <2>1. CASE CreateScratch \/ OtherToolCreates
    <3>1. want \in Location /\ in.file \in {"src", "scr"}
      BY <1>1, <2>1 DEF CreateScratch, OtherToolCreates, TypeInv, TypeOK, Asked,
         FileFound, Inputs
    <3>2. want # in.file /\ in.file \in Bucket
      BY <3>1, PlacesAssumption DEF Bucket
    <3> QED
      BY <2>1, <3>2 DEF CreateScratch, OtherToolCreates, TypeInv, TypeOK
  <2> QED
    BY <2>1 DEF Next, Tool, Ended, vars, PopulateProject, WantNearFile, WantNearZone,
       LookForScratch, CheckScratch, RejectScratch, ReadScratchRegion,
       PopulateLocation, PopulateZone, PopulateRegion, ResolveNetwork
<1> QED
  BY <1>1, <1>2, <1>3 DEF Asked, FileFound

LEMMA PlaceStep ==
  ASSUME TypeInv, TypeInv', ScratchInv, ScratchInv', PlaceInv, [Next]_vars
  PROVE  PlaceInv'
<1> SUFFICES ASSUME Asked' PROVE PlaceInv'
  BY DEF PlaceInv
<1>0. Asked /\ bucket'[in.file] = bucket[in.file] /\ in' = in
  BY AskedBefore
<1> USE <1>0 DEF Fail, Lost, TypeInv, TypeOK
<1>a. out.scratch # None => bucket'[out.scratch] = bucket[out.scratch]
  BY BucketsKept DEF Kept, ScratchInv, ScratchIsOurs, InProject
<1>1. CASE PopulateProject
  BY <1>1 DEF PopulateProject, PlaceInv, Asked
<1>2. CASE WantNearFile
  BY <1>2 DEF WantNearFile, PlaceInv
<1>3. CASE WantNearZone
  <2>1. failed' # {}
    BY <1>3 DEF WantNearZone, Asked
  <2> QED
    BY <2>1 DEF Asked
<1>4. CASE LookForScratch
  BY <1>4 DEF LookForScratch, UseScratch, PlaceInv
<1>5. CASE CreateScratch
  <2>1. CASE pc' = "failed"
    BY <2>1 DEF PlaceInv
  <2>2. CASE pc' # "failed"
    <3>1. /\ bucket' = [bucket EXCEPT ![want] = [owner |-> Mine, loc |-> want]]
          /\ out' = [out EXCEPT !.scratch = want, !.near = want]
          /\ pc' = "location" /\ want # None
      BY <1>5, <2>2 DEF CreateScratch, UseScratch
    <3>2. want \in Bucket
      BY <3>1 DEF Bucket
    <3> QED
      BY <3>1, <3>2 DEF PlaceInv
  <2> QED
    BY <2>1, <2>2
<1>6. CASE OtherToolCreates
  BY <1>6 DEF OtherToolCreates, PlaceInv
<1>7. CASE CheckScratch \/ RejectScratch \/ ReadScratchRegion
  BY <1>7 DEF CheckScratch, RejectScratch, ReadScratchRegion, PlaceInv
<1>8. CASE PopulateLocation
  BY <1>8 DEF PopulateLocation, PlaceInv
<1>9. CASE PopulateZone
  <2>1. PICK zones \in SUBSET Zone, listed \in BOOLEAN, metaRead \in BOOLEAN :
          LET found == IF listed /\ out.near # None
                       THEN ZoneFromLocation(out.near, zones) ELSE None
              own   == IF in.onGCE /\ metaRead THEN MetaZone ELSE None
              zone  == IF found # None THEN found ELSE own
          IN  /\ out' = [out EXCEPT !.zone = zone]
              /\ pc' = IF zone = None THEN "failed" ELSE "zoned"
              /\ up' = zones
              /\ failed' = failed \cup (IF listed THEN {} ELSE {"zones"})
                                  \cup (IF metaRead THEN {} ELSE {"meta"})
    BY <1>9 DEF PopulateZone, Asked
  <2>2. listed
    BY <2>1 DEF Asked
  <2>3. bucket' = bucket /\ out'.scratch = out.scratch /\ pc' \in {"failed", "zoned"}
    BY <1>9, <2>1 DEF PopulateZone
  <2>4. ASSUME bucket[out.scratch].loc = bucket[in.file].loc,
               Open(bucket[in.file].loc, zones) # {}
        PROVE  Cheapest(bucket[in.file].loc, out'.zone, zones)
    <3>1. out.near = bucket[in.file].loc
      BY <1>9, <2>4 DEF PopulateZone, PlaceInv
    <3>2. out.near \in Location
      <4>1. in.file \in Bucket /\ bucket[in.file] # Absent
        BY DEF Asked, FileFound, Inputs, Bucket
      <4> QED
        BY <3>1, <4>1 DEF Buckets
    <3>3. Cheapest(out.near, ZoneFromLocation(out.near, zones), zones)
      BY <2>4, <3>1, <3>2, ZoneFromLocationFits
    <3>4. None \notin Location /\ None \notin zones
      BY PlacesAssumption
    <3>5. ZoneFromLocation(out.near, zones) # None
      BY <3>3, <3>4 DEF Cheapest
    <3>6. out'.zone = ZoneFromLocation(out.near, zones)
      BY <2>1, <2>2, <3>2, <3>4, <3>5
    <3> QED
      BY <3>1, <3>3, <3>6
  <2> QED
    BY <2>1, <2>3, <2>4 DEF PlaceInv
<1>10. CASE PopulateRegion
  <2>1. UNCHANGED <<bucket, up>> /\ out'.zone = out.zone /\ out'.scratch = out.scratch
        /\ pc = "zoned" /\ pc' \in {"failed", "network"}
    BY <1>10 DEF PopulateRegion
  <2> QED
    BY <2>1 DEF PlaceInv
<1>11. CASE ResolveNetwork
  BY <1>11 DEF ResolveNetwork, PlaceInv
<1>12. CASE UNCHANGED vars
  BY <1>12 DEF vars, PlaceInv
<1> QED
  BY <1>1, <1>2, <1>3, <1>4, <1>5, <1>6, <1>7, <1>8, <1>9, <1>10, <1>11, <1>12
     DEF Next, Tool, Ended

\* In any geography and with any list of zones, an import that is left to the
\* tool and meets no failure runs where its file is, if the shared bucket is
\* there too: in the file's region or the cheapest open one of its multi-region.
THEOREM ImportsWhereDataIs == Spec => []RunsWhereDataIs
<1>1. Init => PlaceInv /\ FitInv
  BY DEF Init, PlaceInv, FitInv, ParametersFit, ScratchInv, ScratchIsOurs
<1>2. TypeInv /\ TypeInv' /\ FitInv /\ FitInv' /\ PlaceInv /\ [Next]_vars => PlaceInv'
  BY PlaceStep DEF FitInv
<1>3. FitInv /\ PlaceInv => RunsWhereDataIs
  <2> SUFFICES ASSUME FitInv, PlaceInv, pc = "done", Asked,
                      bucket[out.scratch].loc = bucket[in.file].loc,
                      Open(bucket[in.file].loc, up) # {}
               PROVE  /\ out.region \in Open(bucket[in.file].loc, up)
                      /\ out.zone \in up
                      /\ bucket[in.file].loc \in DOMAIN MultiRegion =>
                           LET rs == MultiRegion[bucket[in.file].loc].regions IN
                           \E i \in DOMAIN rs :
                              /\ rs[i] = out.region
                              /\ \A j \in 1..(i - 1) :
                                    rs[j] \notin Open(bucket[in.file].loc, up)
    BY DEF RunsWhereDataIs, Asked, Open
  <2>1. Cheapest(bucket[in.file].loc, out.zone, up)
    BY DEF PlaceInv
  <2>2. out.region = RegionOf[out.zone]
    BY DEF FitInv
  <2> QED
    BY <2>1, <2>2 DEF Cheapest
<1> QED
  BY <1>1, <1>2, <1>3, TypeInvariant, FitStep, PTL DEF Spec
===========================================================================
