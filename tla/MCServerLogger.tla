--------------------------- MODULE MCServerLogger ---------------------------
(* ToolLogger and ServerLogger for TLC: no wait, and one above the cap; a   *)
(* tool and a goroutine of a workflow that log.                             *)
EXTENDS ToolLogger

SomeWaits == {0, 3}
ImageImport == Param
TwoThreads == {"tool", "workflow"}
SomeCalls == [t \in TwoThreads |->
    IF t = "tool" THEN <<"User", "Metric">> ELSE <<"Debug", "Trace">>]
=============================================================================
