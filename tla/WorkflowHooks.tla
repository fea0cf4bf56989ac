---------------------------- MODULE WorkflowHooks ----------------------------
(***************************************************************************)
(* The hooks that a Daisy worker applies to every workflow before it runs  *)
(* (workflow_hook_*.go of cli_tools/common/utils/daisyutils), as operators *)
(* on the workflow: a record of its vars, its settings, its name, the logs *)
(* that are off, and the resources that its steps create.                  *)
(*                                                                         *)
(* A resource has labels, a storage location, a disk type (its own, or of  *)
(* the disks that an instance is created with) and external addresses.     *)
(***************************************************************************)
EXTENDS TLC

Kinds == {"disk", "instance", "instanceBeta", "image", "imageBeta"}
Settings == {"Project", "Zone", "GCSPath", "OAuthPath", "DefaultTimeout", "ComputeEndpoint"}

\* What top has, and what else f has: @@ of TLC, which the provers do not know.
Overlay(top, f) ==
    [k \in DOMAIN top \cup DOMAIN f |-> IF k \in DOMAIN top THEN top[k] ELSE f[k]]

\* The fields of a workflow, and of the resources of each kind.
IsWorkflow(wf) ==
    /\ wf = [vars |-> wf.vars, settings |-> wf.settings, name |-> wf.name,
             disabled |-> wf.disabled, resources |-> wf.resources]
    /\ wf.resources = [k \in Kinds |->
            LET r == wf.resources[k]
            IN  [labels |-> r.labels, location |-> r.location,
                 diskType |-> r.diskType, addresses |-> r.addresses]]

(***************************************************************************)
(* ApplyAndValidateVars changes the vars of its caller, which the next     *)
(* attempt gets again.                                                     *)
(***************************************************************************)

NetworkVars == {"network", "import_network"}
SubnetVars == {"subnet", "import_subnet"}
AccountVars == {"compute_service_account"}

\* One declared var that matches and that the caller left empty gets the value:
\* the first in the order of the map.
BackfillVar(given, wf, pattern, val) ==
    LET missing == {k \in DOMAIN wf.vars \cap pattern : k \in DOMAIN given => given[k] = ""}
    IN  IF missing = {} THEN {given} ELSE {Overlay([x \in {k} |-> val], given) : k \in missing}

\* A subnet alone sets the network to "", which keeps the "default" network out.
Backfilled(env, given, wf) ==
    LET subnetted == IF env.subnet = "" THEN {given}
                     ELSE BackfillVar(given, wf, SubnetVars, env.subnet)
        networked == IF env.network = "" /\ env.subnet = "" THEN subnetted
                     ELSE UNION {BackfillVar(g, wf, NetworkVars, env.network) : g \in subnetted}
    IN  IF env.account = "" THEN networked
        ELSE UNION {BackfillVar(g, wf, AccountVars, env.account) : g \in networked}

\* A var that the workflow does not declare is an error.
VarsKnown(given, wf) == DOMAIN given \subseteq DOMAIN wf.vars
ApplyVars(given, wf) == [wf EXCEPT !.vars = Overlay(given, @)]

(***************************************************************************)
(* The other hooks.                                                        *)
(***************************************************************************)

\* changed: what becomes of some of the resources.
WithResources(wf, changed) == [wf EXCEPT !.resources = Overlay(changed, @)]

\* The user's labels come last; only images of the v1 API get the location, and
\* those of the beta API no labels.
LabelResources(env, wf) ==
    LET labels == Overlay(env.labels, "tool-tmp" :> "true" @@ "tool-build-id" :> env.id)
        location(k) == IF k = "image" /\ env.location # "" THEN env.location
                                                          ELSE wf.resources[k].location
        labelled(r) == [r EXCEPT !.labels = Overlay(labels, @)]
    IN  WithResources(wf, [k \in Kinds \ {"imageBeta"} |->
            [labelled(wf.resources[k]) EXCEPT !.location = location(k)]])

\* What the user left empty stays as the workflow has it.
ApplyEnvToWorkflow(env, wf) ==
    [wf EXCEPT !.settings =
        [s \in Settings |-> IF env.settings[s] = "" THEN @[s] ELSE env.settings[s]]]

ConfigureDaisyLogging(env, wf) ==
    [wf EXCEPT !.name = IF env.prefix = "" THEN @ ELSE env.prefix,
               !.disabled = @ \cup env.disabled]

\* Instances of the beta API keep their disks.
UseStandardDisks(wf) ==
    WithResources(wf, [k \in {"disk", "instance"} |->
        [wf.resources[k] EXCEPT !.diskType = "pd-standard"]])

RemoveExternalIP(wf) ==
    WithResources(wf, [k \in {"instance", "instanceBeta"} |->
        [wf.resources[k] EXCEPT !.addresses = {}]])

\* Mutant: the fallback replaces the hook that removes the addresses.
HookedFallbackAlone(env, fallback, wf) ==
    LET configured == ConfigureDaisyLogging(env, ApplyEnvToWorkflow(env, LabelResources(env, wf)))
    IN  CASE fallback -> UseStandardDisks(configured)
          [] ~fallback /\ env.noExternalIP -> RemoveExternalIP(configured)
          [] OTHER -> configured

\* The hooks of NewDaisyWorker, in its order.
Hooked(env, fallback, wf) ==
    LET configured == ConfigureDaisyLogging(env, ApplyEnvToWorkflow(env, LabelResources(env, wf)))
        fallen == IF fallback THEN UseStandardDisks(configured) ELSE configured
    IN  IF env.noExternalIP THEN RemoveExternalIP(fallen) ELSE fallen
=============================================================================
