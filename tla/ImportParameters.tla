------------------------- MODULE ImportParameters -------------------------
(***************************************************************************)
(* How an import or export tool completes the parameters its user left out *)
(* (cli_tools/common/utils/param with storage and paramhelper): project,   *)
(* scratch bucket, storage location, zone, region, network and subnet, in  *)
(* that order, each from those before it.  One tool runs; other tools of   *)
(* the same project may create the scratch bucket they all share.  Every   *)
(* request to Compute Engine, Cloud Storage or the metadata server may     *)
(* fail, and the code survives many of these failures with a fallback.     *)
(*                                                                         *)
(* Names are compared as the code compares them: without regard to case.   *)
(* A bucket is named "src" (where the user's file may be), "scr" (the      *)
(* scratch bucket he may give) or after the location that the name of a    *)
(* shared scratch bucket ends with.                                        *)
(***************************************************************************)
EXTENDS Naturals, Sequences, FiniteSetsExt

CONSTANTS ZoneList,      \* zones of the project, in the order of ListZones
          RegionOf,      \* the region in a zone's name; Bad has none
          MultiRegion,   \* multi-region -> [regions by cost, allowed]
          DefaultRegion, \* where a shared bucket is made when nothing is known
          MetaZone,      \* zone of the instance the tool may run on
          Networks,      \* existing networks, as <<project, name>>
          Subnets,       \* <<project, region, name>> -> <<project, network>>
          NetworkInputs, \* what the user may write for -network
          SubnetInputs   \* what he may write for -subnet

None  == "none"
Bad   == "bad"
Mine  == "mine"
Other == "other"

Zone     == {ZoneList[i] : i \in DOMAIN ZoneList}
Region   == {RegionOf[z] : z \in Zone}
Location == Region \cup DOMAIN MultiRegion
Bucket   == {"src", "scr"} \cup Location
Call     == {"list", "attrs", "zones", "meta"}

ASSUME PlacesAssumption ==
    /\ Location \cap {None, Bad, "src", "scr"} = {}
    /\ ZoneList \in Seq(STRING)
    /\ Zone \cap {None, Bad} = {}
    /\ DefaultRegion \in DOMAIN MultiRegion
    /\ MetaZone \in Zone
    /\ Zone \subseteq DOMAIN RegionOf
    /\ Region \cap DOMAIN MultiRegion = {}
    /\ \A m \in DOMAIN MultiRegion : MultiRegion[m].regions \in Seq(STRING)

VARIABLES pc,      \* next step of PopulateMissingParameters
          in,      \* what the user gave: zone, file, scratch; on GCE or not
          bucket,  \* owner and location of each bucket, or Absent
          want,    \* location of the scratch bucket to be created
          up,      \* zones that ListZones reported as UP
          out,     \* what has been populated
          net,     \* network and subnet: as given and as resolved
          failed,  \* requests that failed (history)
          deleted  \* the user's file was deleted

vars == <<pc, in, bucket, want, up, out, net, failed, deleted>>

Nothing == [name |-> None] \* no network or no subnet

Inputs == [zone : Zone \cup {None, Bad}, file : {None, "src", "scr"},
           scratch : {None, "scr", Bad}, onGCE : BOOLEAN]
Absent  == [owner |-> None, loc |-> None]
Buckets == {Absent} \cup [owner : {Mine, Other}, loc : Location]

\* Each of the shared scratch buckets may be there, and elsewhere than its
\* name says, or belong to somebody else.
SharedBuckets ==
    {[l \in Location |-> Absent]}
    \cup {[l \in Location |-> [owner |-> o, loc |-> l]] : o \in {Mine, Other}}
    \cup {[l \in Location |-> [owner |-> Mine, loc |-> DefaultRegion]]}

Init ==
    /\ pc = "project"
    /\ in \in Inputs
    /\ \E src \in {Absent} \cup [owner : {Other}, loc : Location],
          scr \in {Absent} \cup [owner : {Mine, Other}, loc : {RegionOf[MetaZone]}],
          shared \in SharedBuckets :
         bucket = [b \in Bucket |-> CASE b = "src" -> src
                                      [] b = "scr" -> scr
                                      [] OTHER -> shared[b]]
    /\ want = None
    /\ up = {}
    /\ out = [scratch |-> None, near |-> None, location |-> None,
              zone |-> None, region |-> None]
    /\ net = [given |-> <<Nothing, Nothing>>, network |-> Nothing, subnet |-> Nothing]
    /\ failed = {}
    /\ deleted = FALSE

Fail == pc' = "failed"
Lost(call) == failed' = failed \cup {call}

---------------------------------------------------------------------------
\* GetRegion: the region is part of the zone's name.
GetRegion(zone) == RegionOf[zone]

\* GetProjectID: the project is given, or comes from the metadata server.
PopulateProject ==
    /\ pc = "project"
    /\ \/ pc' = (IF in.scratch = None THEN "attrs" ELSE "owned")
          /\ UNCHANGED failed
       \/ ~in.onGCE /\ Fail /\ UNCHANGED failed
       \/ in.onGCE /\ Fail /\ Lost("meta")
    /\ UNCHANGED <<in, bucket, want, up, out, net, deleted>>

FileFound == in.file # None /\ bucket[in.file] # Absent

\* getBucketAttrsFromInputFile: the shared bucket of the file's location.
WantNearFile ==
    /\ pc = "attrs"
    /\ FileFound
    /\ want' = bucket[in.file].loc
    /\ pc' = "list"
    /\ UNCHANGED <<in, bucket, up, out, net, failed, deleted>>

\* The zone that is given, else the one of this instance if it can be read.
FallbackZone(zoneRead) ==
    CASE in.zone # None -> in.zone
      [] in.zone = None /\ in.onGCE /\ zoneRead -> MetaZone
      [] OTHER -> None

\* getBucketAttrsOnFallbackZone: without a file, or if its bucket cannot be
\* read, the region of the fallback zone.
WantNearZone ==
    /\ pc = "attrs"
    /\ \E zoneRead \in BOOLEAN, attrsRead \in BOOLEAN :
         LET fallback == FallbackZone(zoneRead) IN
             /\ IF attrsRead THEN ~FileFound ELSE in.file # None
             /\ zoneRead \/ (in.zone = None /\ in.onGCE)
             /\ IF fallback = Bad
                THEN Fail /\ UNCHANGED want
                ELSE /\ want' = IF fallback = None THEN DefaultRegion
                                                   ELSE GetRegion(fallback)
                     /\ pc' = "list"
             /\ failed' = failed \cup (IF attrsRead THEN {} ELSE {"attrs"})
                                 \cup (IF zoneRead THEN {} ELSE {"meta"})
    /\ UNCHANGED <<in, bucket, up, out, net, deleted>>

InProject(b) == bucket[b].owner = Mine

UseScratch(b, loc) == out' = [out EXCEPT !.scratch = b, !.near = loc]

\* getBucketAttrsIfInProject called by createBucketIfNotExisting: here an
\* error of the listing ends the tool.
LookForScratch ==
    /\ pc = "list"
    /\ \/ InProject(want) /\ UseScratch(want, bucket[want].loc)
          /\ pc' = "location" /\ UNCHANGED failed
       \/ ~InProject(want) /\ pc' = "create" /\ UNCHANGED <<out, failed>>
       \/ Fail /\ Lost("list") /\ UNCHANGED out
    /\ UNCHANGED <<in, bucket, want, up, net, deleted>>

\* Mutant: a name that is taken is taken for our bucket.
CreateScratchAnyway ==
    /\ pc = "create"
    /\ bucket' = [bucket EXCEPT ![want] = IF @ = Absent THEN [owner |-> Mine, loc |-> want]
                                                       ELSE @]
    /\ UseScratch(want, want)
    /\ pc' = "location"
    /\ UNCHANGED <<in, want, up, net, failed, deleted>>

\* CreateBucket: fails if somebody has the name, and may fail in any case,
\* with or without effect.
CreateScratch ==
    /\ pc = "create"
    /\ \/ /\ bucket[want] = Absent
          /\ bucket' = [bucket EXCEPT ![want] = [owner |-> Mine, loc |-> want]]
          /\ \/ UseScratch(want, want) /\ pc' = "location"
             \/ Fail /\ UNCHANGED out
       \/ Fail /\ UNCHANGED <<bucket, out>>
    /\ UNCHANGED <<in, want, up, net, failed, deleted>>

\* Another tool of the project creates the bucket after this one looked.
OtherToolCreates ==
    /\ pc = "create"
    /\ bucket[want] = Absent
    /\ bucket' = [bucket EXCEPT ![want] = [owner |-> Mine, loc |-> want]]
    /\ UNCHANGED <<pc, in, want, up, out, net, failed, deleted>>

\* IsBucketInProject: an error of the listing reads as "not in the project".
CheckScratch ==
    /\ pc = "owned"
    /\ \/ in.scratch = Bad /\ Fail /\ UNCHANGED failed
       \/ /\ in.scratch # Bad
          /\ \/ InProject(in.scratch) /\ pc' = "region" /\ UNCHANGED failed
             \/ ~InProject(in.scratch) /\ pc' = "reject" /\ UNCHANGED failed
             \/ pc' = "reject" /\ Lost("list")
    /\ UNCHANGED <<in, bucket, want, up, out, net, deleted>>

\* Mutant: the file is deleted wherever it is.
RejectScratchAndFile ==
    /\ pc = "reject"
    /\ \E gcloud \in BOOLEAN : deleted' = (gcloud /\ in.file # None)
    /\ Fail
    /\ UNCHANGED <<in, bucket, want, up, out, net, failed>>

\* The tool ends; one started by gcloud first deletes the file, which gcloud
\* has uploaded there.
RejectScratch ==
    /\ pc = "reject"
    /\ \E gcloud \in BOOLEAN, done \in BOOLEAN :
         deleted' = (gcloud /\ in.file = in.scratch /\ done)
    /\ Fail
    /\ UNCHANGED <<in, bucket, want, up, out, net, failed>>

\* GetBucketAttrs of the scratch bucket that was given: without an answer its
\* region stays unknown.
ReadScratchRegion ==
    /\ pc = "region"
    /\ \/ UseScratch(in.scratch, bucket[in.scratch].loc) /\ UNCHANGED failed
       \/ UseScratch(in.scratch, None) /\ Lost("attrs")
    /\ pc' = "location"
    /\ UNCHANGED <<in, bucket, want, up, net, deleted>>

---------------------------------------------------------------------------
Contains(l, place) == \* place lies in location l, as far as the table knows
    \/ l = place
    \/ /\ l \in DOMAIN MultiRegion
       /\ \E i \in DOMAIN MultiRegion[l].regions : MultiRegion[l].regions[i] = place

\* getMultiRegionForRegion goes through a Go map: any of the multi-regions.
LargestLocations(place) ==
    LET larger == {m \in DOMAIN MultiRegion :
                      MultiRegion[m].allowed /\ Contains(m, place)}
    IN  IF place \in DOMAIN MultiRegion \/ larger = {} THEN {place} ELSE larger

\* GetLargestStorageLocation, unless the location is given or not asked for.
PopulateLocation ==
    /\ pc = "location"
    /\ \/ \E l \in LargestLocations(out.near) : out' = [out EXCEPT !.location = l]
       \/ UNCHANGED out
    /\ pc' = "zone"
    /\ UNCHANGED <<in, bucket, want, up, net, failed, deleted>>

UpIn(region, zones) ==
    {i \in DOMAIN ZoneList : ZoneList[i] \in zones /\ RegionOf[ZoneList[i]] = region}

\* getZoneForRegion
ZoneForRegion(region, zones) ==
    IF UpIn(region, zones) = {} THEN None ELSE ZoneList[Min(UpIn(region, zones))]

\* Mutant: the first zone that is listed, whatever its region costs.
ListedZone(multi, zones) ==
    LET possible == {i \in DOMAIN ZoneList : /\ ZoneList[i] \in zones
                                            /\ Contains(multi, RegionOf[ZoneList[i]])}
    IN  IF possible = {} THEN None ELSE ZoneList[Min(possible)]

\* getBestZoneForMultiRegion: the cheapest region that has a zone.  Its lookup
\* minds the case; Cloud Storage reports locations in the case of the table.
BestZone(multi, zones) ==
    LET regions  == MultiRegion[multi].regions
        possible == {i \in DOMAIN regions : UpIn(regions[i], zones) # {}}
    IN  IF possible = {} THEN None ELSE ZoneForRegion(regions[Min(possible)], zones)

\* getZoneFromStorageLocation, once ListZones has answered.
ZoneFromLocation(place, zones) ==
    IF place \in DOMAIN MultiRegion THEN BestZone(place, zones)
                                    ELSE ZoneForRegion(place, zones)

\* Mutant: an empty zone is not refused.
PopulateZoneUnchecked ==
    /\ pc = "zone"
    /\ \E zones \in SUBSET Zone :
          /\ out' = [out EXCEPT !.zone = IF in.zone # None THEN in.zone
                                         ELSE IF out.near = None THEN None
                                         ELSE ZoneFromLocation(out.near, zones)]
          /\ up' = zones
    /\ pc' = "zoned"
    /\ UNCHANGED <<in, bucket, want, net, failed, deleted>>

\* GetZone: the zone of this instance if none is found near the scratch bucket.
PopulateZone ==
    /\ pc = "zone"
    /\ IF in.zone # None
       THEN /\ out' = [out EXCEPT !.zone = in.zone]
            /\ pc' = "zoned"
            /\ UNCHANGED <<up, failed>>
       ELSE \E zones \in SUBSET Zone, listed \in BOOLEAN, metaRead \in BOOLEAN :
              LET found == IF listed /\ out.near # None
                           THEN ZoneFromLocation(out.near, zones) ELSE None
                  own   == IF in.onGCE /\ metaRead THEN MetaZone ELSE None
                  zone  == IF found # None THEN found ELSE own
              IN  /\ listed \/ out.near # None
                  /\ metaRead \/ (found = None /\ in.onGCE)
                  /\ out' = [out EXCEPT !.zone = zone]
                  /\ pc' = IF zone = None THEN "failed" ELSE "zoned"
                  /\ up' = zones
                  /\ failed' = failed \cup (IF listed THEN {} ELSE {"zones"})
                                      \cup (IF metaRead THEN {} ELSE {"meta"})
    /\ UNCHANGED <<in, bucket, want, net, deleted>>

\* PopulateRegion: whatever the user wrote for the region is replaced.
PopulateRegion ==
    /\ pc = "zoned"
    /\ IF out.zone = Bad
       THEN Fail /\ UNCHANGED out
       ELSE /\ out' = [out EXCEPT !.region = GetRegion(out.zone)]
            /\ pc' = "network"
    /\ UNCHANGED <<in, bucket, want, up, net, failed, deleted>>

---------------------------------------------------------------------------
\* SplitNetworkResource and SplitSubnetResource: a project may stand before a
\* subnet only if a region does too.
NetworkParses(n) == n # Nothing => n.name # Bad
SubnetParses(s) == s # Nothing => s.name # Bad /\ (s.project # None => s.region # None)

Backfill(given, default) == IF given = None THEN default ELSE given

\* parseNetworkAndSubnet: what each resource identifier names, Nothing if
\* left out.  The project of the tool is Mine.
NetworkNamed(n, s) ==
    CASE n # Nothing -> [project |-> Backfill(n.project, Mine), name |-> n.name]
      [] n = Nothing /\ s = Nothing -> [project |-> Mine, name |-> "default"]
      [] OTHER -> Nothing
SubnetNamed(s, region) ==
    IF s = Nothing THEN Nothing
    ELSE [project |-> Backfill(s.project, Mine),
          region |-> Backfill(s.region, region), name |-> s.name]

\* Resolve: both must be well-formed, exist and belong together; a request may
\* fail.
ResolveNetwork ==
    /\ pc = "network"
    /\ \E n \in NetworkInputs, s \in SubnetInputs :
         LET network == NetworkNamed(n, s)
             subnet  == SubnetNamed(s, out.region)
         IN  /\ net' = [given |-> <<n, s>>, network |-> network, subnet |-> subnet]
             /\ \/ /\ NetworkParses(n) /\ SubnetParses(s)
                   /\ subnet # Nothing => subnet \in DOMAIN Subnets
                   /\ network # Nothing => network \in Networks
                   /\ subnet # Nothing /\ network # Nothing => Subnets[subnet] = network
                   /\ pc' = "done"
                \/ Fail
    /\ UNCHANGED <<in, bucket, want, up, out, failed, deleted>>

Ended == pc \in {"done", "failed"} /\ UNCHANGED vars

\* PopulateMissingParameters
Tool == \/ PopulateProject \/ WantNearFile \/ WantNearZone \/ LookForScratch
        \/ CreateScratch \/ CheckScratch \/ RejectScratch \/ ReadScratchRegion
        \/ PopulateLocation \/ PopulateZone \/ PopulateRegion \/ ResolveNetwork

Next == Tool \/ OtherToolCreates \/ Ended

Spec == Init /\ [][Next]_vars

---------------------------------------------------------------------------
\* Every variable has a value of its kind, and there is a zone when the
\* region is taken from it.
TypeOK ==
    /\ pc \in {"project", "attrs", "list", "create", "owned", "reject", "region",
               "location", "zone", "zoned", "network", "done", "failed"}
    /\ in \in Inputs
    /\ bucket \in [Bucket -> Buckets]
    /\ want \in Location \cup {None}
    /\ up \subseteq Zone
    /\ out.scratch \in Bucket \cup {None}
    /\ out.near \in Location \cup {None}
    /\ out.location \in Location \cup {None}
    /\ out.zone \in Zone \cup {None, Bad}
    /\ pc \in {"zoned", "network", "done"} => out.zone # None
    /\ out.region \in Region \cup {None}
    /\ failed \subseteq Call
    /\ deleted \in BOOLEAN

\* A file is deleted only after the tool has found that it lies in a scratch
\* bucket of another project - or could not list the buckets of its own: then
\* the file was in the user's bucket (RejectScratch).
OnlyForeignUploadDeleted ==
    deleted => /\ pc = "failed"
               /\ in.file = in.scratch
               /\ InProject(in.file) => "list" \in failed

\* If nothing fails, and the user left it to the tool, an import of a file
\* runs where the file is: in its region, or in the cheapest region of its
\* multi-region that has a zone up, however many steps are in between (file's
\* bucket, shared scratch bucket, zone).  Not when the shared bucket was in
\* another place than its name says.
RunsWhereDataIs ==
    (/\ pc = "done" /\ failed = {} /\ in.zone = None /\ in.scratch = None
     /\ FileFound) =>
        LET at   == bucket[in.file].loc
            open == {r \in Region : Contains(at, r) /\ UpIn(r, up) # {}}
        IN  (bucket[out.scratch].loc = at /\ open # {}) =>
              /\ out.region \in open
              /\ out.zone \in up
              /\ at \in DOMAIN MultiRegion => LET rs == MultiRegion[at].regions IN
                   \E i \in DOMAIN rs : /\ rs[i] = out.region
                                        /\ \A j \in 1..(i - 1) : rs[j] \notin open

\* The scratch bucket, as far as the tool knows it.
ScratchIsOurs ==
    out.scratch # None =>
        /\ InProject(out.scratch)
        /\ out.near \in {None, bucket[out.scratch].loc}

\* What the tool returns fits together.  Whoever created the scratch bucket and
\* whatever failed, it is in the user's project, and it is where the tool takes
\* it to be, if it knows; the region is the zone's; a storage location that was
\* chosen holds the scratch bucket; the subnet is one of the network; and the
\* default network is used only if the user named neither.
ParametersFit ==
    pc = "done" =>
        /\ ScratchIsOurs
        /\ out.zone # Bad /\ out.region = GetRegion(out.zone)
        /\ out.location # None => Contains(out.location, out.near)
        /\ net.network # Nothing => net.network \in Networks
        /\ net.subnet # Nothing => net.subnet \in DOMAIN Subnets
        /\ net.network # Nothing /\ net.subnet # Nothing => Subnets[net.subnet] = net.network
        /\ net.network # Nothing /\ net.network.name = "default" =>
             net.given[1] # Nothing \/ net.given[2] = Nothing
===========================================================================
