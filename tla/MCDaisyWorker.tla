---------------------------- MODULE MCDaisyWorker ----------------------------
(* DiskInspection for TLC: a workflow may fail with either kind of error, is   *)
(* written in three ways, and finds the systems that differ in how they are    *)
(* read.                                                                       *)
EXTENDS DiskInspection

AnyError == {"quota", "other"}

Resource == [labels |-> "own" :> "1", location |-> "", diskType |-> "pd-ssd",
             addresses |-> {"ephemeral"}]

File(declared) ==
    [vars |-> [v \in declared |-> IF v \in NetworkVars THEN "default" ELSE ""],
     settings |-> [s \in Settings |-> IF s = "Zone" THEN "as written" ELSE ""],
     name |-> "boot-inspect", disabled |-> {},
     resources |-> [k \in Kinds |-> Resource]]

Plain == [subnet |-> "", network |-> "", account |-> "", noExternalIP |-> FALSE,
          labels |-> <<>>, id |-> "b1", location |-> "", prefix |-> "",
          disabled |-> {}, settings |-> [s \in Settings |-> ""]]

\* A subnet alone, with everything else asked for; a network; a workflow that does
\* not take the disk.
AnyCase ==
    {[file |-> File({"pd_uri", "import_network", "import_subnet", "compute_service_account"}),
      env |-> [Plain EXCEPT !.subnet = "s", !.account = "a", !.noExternalIP = TRUE,
                            !.labels = "tool-tmp" :> "mine" @@ "own" :> "2",
                            !.location = "eu", !.prefix = "disk-1", !.disabled = {"gcs"},
                            !.settings = [s \in Settings |-> "asked"]]],
     [file |-> File({"pd_uri", "network", "subnet"}), env |-> [Plain EXCEPT !.network = "n"]],
     [file |-> File({"network"}), env |-> Plain]}

System(distro, major, minor, arch) ==
    [distroId |-> distro, major |-> major, minor |-> minor, architecture |-> arch,
     formatted |-> FALSE]

Found(os) == [osCount |-> 1, errorWhen |-> "NO_ERROR", os |-> os, cli |-> <<>>]

AnyResponse ==
    {Found(os) : os \in {System("windows", 2012, R2, "x64"), System("windows", 8, 1, "x86"),
                         System("ubuntu", 18, 4, "x64"), System("ubuntu", 8, 4, "x86"),
                         System("sles-sap", 15, 1, "x64"), System("kali", 1, 0, "x64"),
                         System("debian", Missing, 0, "x64"), NoOS}}
    \cup {[Found(NoOS) EXCEPT !.osCount = 2],
          [Found(System("rhel", 8, 2, "x64")) EXCEPT !.errorWhen = "INSPECTING_OS"]}

SomeResponse == {Found(System("ubuntu", 18, 4, "x64"))}
=============================================================================
