---------------------------- MODULE MCPublishMain ----------------------------
(* Small instances of PublishTool and PublishMain for TLC. *)
EXTENDS PublishTool

CONSTANTS a, b, c, t1, t2

TwoTemplates == {t1, t2}
ThreeWorkflows == {a, b, c}
SomeImages == [t \in TwoTemplates |-> IF t = t1 THEN {a, b} ELSE {c}]

\* a is published every month, b reaches its end, c has never been launched.
SomeFacts ==
    [i \in ThreeWorkflows |->
        [launched |-> IF i = c THEN "unknown" ELSE "yes", eol |-> FALSE,
         ends |-> IF i = b THEN 100 ELSE 200,
         cadence |-> IF i = a THEN "monthly" ELSE "unset"]]

\* Three regions with one to three zones.
SomeZones == [r \in {"r1", "r2", "r3"} |->
    IF r = "r1" THEN {1, 2} ELSE IF r = "r2" THEN {3, 4, 5} ELSE {6}]

\* Tuesdays in and around the second week, a Wednesday, and the end of b.
SomeDays ==
    [day : {7, 8, 14, 15}, weekday : {2}, date : {99}]
        \cup [day : {9}, weekday : {3}, date : {99}]
        \cup [day : {8}, weekday : {2}, date : {100}]

SomeFlags ==
    {[determination |-> TRUE, force |-> FALSE, rollback |-> FALSE, direct |-> FALSE,
      rate |-> 2, matched |-> ThreeWorkflows],
     [determination |-> TRUE, force |-> TRUE, rollback |-> FALSE, direct |-> FALSE,
      rate |-> 0, matched |-> {b, c}],
     [determination |-> TRUE, force |-> FALSE, rollback |-> TRUE, direct |-> TRUE,
      rate |-> 1, matched |-> {a, b}]}
=============================================================================
