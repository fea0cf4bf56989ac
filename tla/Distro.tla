-------------------------------- MODULE Distro --------------------------------
(***************************************************************************)
(* The operating systems of the import (cli_tools/common/distro): releases *)
(* made of the components an inspection finds, or read from the --os flag  *)
(* of gcloud, and printed as that flag.                                    *)
(*                                                                         *)
(* A version is a number, -1 if its text is none; the minor version is 0   *)
(* when it is missing.  A flag is a record of its parts: the number, R2 or *)
(* 0, the architecture.  Names are in lower case; an empty one is "none".  *)
(***************************************************************************)
EXTENDS Integers, SequencesExt

R2 == -2  \* the minor version "r2" of Windows

NoRelease == [distro |-> "error", major |-> 0, minor |-> 0, arch |-> "none"]

\* The architectures and their synonyms, as the table has them.
standardArchitectures == {<<"x86", {"amd64", "x86_64"}>>,
                          <<"x64", {"i386", "i686", "x86_32"}>>}

standardizeArchitecture(architecture) ==
    LET fits == {s \in standardArchitectures : architecture \in {s[1]} \cup s[2]} IN
    CASE architecture = "none" -> "none"
      [] architecture # "none" /\ fits = {} -> "error"
      [] OTHER -> (CHOOSE s \in fits : TRUE)[1]

\* strings.Contains, for the names of the protocol.
ContainsName(distro, known) == distro = known \/ (distro = "sles-sap" /\ known = "sles")

\* The first known name that the name contains.
standardizeDistro(distro) ==
    LET known == <<"centos", "debian", "opensuse", "rhel", "rocky", "sles-sap",
                   "sles", "ubuntu", "windows">>
        first == SelectInSeq(known, LAMBDA k : ContainsName(distro, k))
    IN  IF first = 0 THEN "error" ELSE known[first]

\* Ubuntu is released in April and October.
newLinuxRelease(distro, major, minor) ==
    IF major < 1 \/ minor < 0 \/ (distro = "ubuntu" /\ minor \notin {4, 10})
    THEN NoRelease
    ELSE [distro |-> distro, major |-> major, minor |-> minor, arch |-> "none"]

newWindowsRelease(major, minor, arch) ==
    IF major < 0 THEN NoRelease
    ELSE [distro |-> "windows", major |-> major, minor |-> minor, arch |-> arch]

FromComponents(distro, major, minor, architecture) ==
    LET arch == standardizeArchitecture(architecture)
        name == standardizeDistro(distro)
    IN  CASE "error" \in {arch, name} -> NoRelease
          [] "error" \notin {arch, name} /\ name = "windows" -> newWindowsRelease(major, minor, arch)
          [] OTHER -> newLinuxRelease(name, major, minor)

\* Ubuntu has its major and minor version in four digits.  The legacy flags,
\* which AsGcloudArg never prints, are left out.
FromGcloudOSArgument(flag) ==
    CASE flag.distro # "ubuntu" ->
            FromComponents(flag.distro, flag.version,
                           IF flag.distro = "windows" THEN flag.minor ELSE 0, flag.arch)
      [] flag.distro = "ubuntu" /\ flag.version \in 1000..9999 ->
            FromComponents("ubuntu", flag.version \div 100, flag.version % 100, flag.arch)
      [] OTHER -> NoRelease

Server(release) == release.distro = "windows" /\ release.major > 99

\* The architecture is printed for desktops only.
AsGcloudArg(release) ==
    [distro |-> release.distro,
     version |-> IF release.distro = "ubuntu" THEN 100 * release.major + release.minor
                                              ELSE release.major,
     minor |-> IF release.distro = "windows" /\ release.minor = R2 THEN R2 ELSE 0,
     arch |-> IF Server(release) THEN "none" ELSE release.arch]

\* Only Ubuntu tells its minor versions apart, and Windows R2.
ImportCompatible(release, other) ==
    /\ release.distro = other.distro /\ release.major = other.major
    /\ release.distro = "ubuntu" => release.minor = other.minor
    /\ release.distro = "windows" =>
        /\ release.arch = other.arch
        /\ R2 \in {release.minor, other.minor} => release.minor = other.minor
=============================================================================
