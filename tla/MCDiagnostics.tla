--------------------------- MODULE MCDiagnostics ---------------------------
(* Diagnostics for TLC: sets of gatherers in which each kind of step occurs, *)
(* beside those that quit.                                                   *)
EXTENDS Diagnostics

SomeRunFuncs == {{"disk", "rdp"}, {"event", "docker"}, {"kubernetes", "rdp"},
                 {"rdp", "docker", "trace"}}
=============================================================================
