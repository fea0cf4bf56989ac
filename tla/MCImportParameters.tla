------------------------ MODULE MCImportParameters ------------------------
(* Constants for TLC: three regions, two of them in a multi-region, two networks
   of the project and one it shares with another project. *)
EXTENDS ImportParameters

Regions3 == [z \in {"c-a", "e-a", "m-a"} |->
                CASE z = "c-a" -> "c" [] z = "e-a" -> "e" [] OTHER -> "m"]
Zones3 == <<"m-a", "e-a", "c-a">>
Multi2 == [m \in {"US", "NAM4"} |->
              [regions |-> IF m = "US" THEN <<"c", "e">> ELSE <<"e", "c">>,
               allowed |-> m = "US"]]

Of(p, n) == [project |-> p, name |-> n]
Subnet(p, r, n) == [project |-> p, region |-> r, name |-> n]
ThreeNetworks == {Of(Mine, "default"), Of(Mine, "vpc"), Of(Other, "shared")}
ThreeSubnets ==
    [s \in {Subnet(Mine, "c", "default"), Subnet(Mine, "e", "sub"),
            Subnet(Other, "c", "shared")} |->
        CASE s.name = "sub" -> Of(Mine, "vpc")
          [] s.name = "shared" -> Of(Other, "shared")
          [] OTHER -> Of(Mine, "default")]
SomeNetworks == {Nothing, Of(None, "default"), Of(None, "vpc"), Of(Other, "shared")}
SomeSubnets == {Nothing, Subnet(None, None, "default"), Subnet(None, None, "sub"),
                Subnet(None, "e", "sub"), Subnet(Other, "c", "shared"),
                Subnet(Other, None, "shared")}
===========================================================================
