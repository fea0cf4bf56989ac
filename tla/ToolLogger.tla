----------------------------- MODULE ToolLogger -----------------------------
(***************************************************************************)
(* The logger of the tools (cli_tools/common/utils/logging) under the      *)
(* usage log of ServerLogger: the function that Run runs logs from several *)
(* goroutines, and returns what ReadOutputInfo collected.                  *)
(*                                                                         *)
(* User and Debug print a line and keep it, Trace and Metric only keep     *)
(* theirs, all with mutationLock held.  ReadOutputInfo empties the buffers *)
(* into an OutputInfo, whose serial outputs a failure logs.                *)
(***************************************************************************)
EXTENDS ServerLogger, FiniteSets, SequencesExt

CONSTANTS
    Thread,  \* the goroutines of the function that log
    Tool,    \* the one that reads the output info and returns
    Calls    \* the levels of the calls of each goroutine, in their order

ASSUME ThreadAssumption == Tool \in Thread /\ "nobody" \notin Thread
ASSUME CallsAssumption ==
    Calls \in [Thread -> Seq({"User", "Debug", "Trace", "Metric"})]

VARIABLES
    mutationLock, \* who has it
    tpc,          \* where each goroutine is
    next,         \* its next call
    stdout,       \* lines printed
    userAndDebugBuffer,
    trace,
    outputInfo,   \* metrics merged
    ret,          \* the output info under construction, then read
    loggable      \* what the function returned: none, info or panic

bufferVars == <<userAndDebugBuffer, trace, outputInfo>>
toolVars == <<mutationLock, tpc, next, stdout, bufferVars, ret, loggable>>

Empty == [lines |-> <<>>, traces |-> <<>>, metrics |-> <<>>]

ToolInit ==
    /\ Init
    /\ mutationLock = "nobody"
    /\ tpc = [t \in Thread |-> "idle"] /\ next = [t \in Thread |-> 1]
    /\ stdout = <<>>
    /\ userAndDebugBuffer = <<>> /\ trace = <<>> /\ outputInfo = <<>>
    /\ ret = Empty /\ loggable = "none"

Message(t) == <<t, next[t]>>
Level(t) == Calls[t][next[t]]

\* The goroutines other than the tool's own go on until the process ends.
Runs(t) == IF t = Tool THEN pc = "function" ELSE pc # "returned"

\* A call takes mutationLock, once its line is formatted.
LockCall(t) ==
    /\ Runs(t) /\ tpc[t] = "idle" /\ next[t] <= Len(Calls[t])
    /\ mutationLock = "nobody"
    /\ mutationLock' = t
    /\ tpc' = [tpc EXCEPT ![t] = "call"]
    /\ UNCHANGED <<next, stdout, bufferVars, ret, loggable, vars>>

\* The deferred mutationLock.Unlock().
Unlock(t) == mutationLock' = "nobody" /\ tpc' = [tpc EXCEPT ![t] = "idle"]
EndCall(t) == Unlock(t) /\ next' = [next EXCEPT ![t] = @ + 1]

\* writeLine, of either level and with any prefix: print, then keep.
PrintLine(t) ==
    /\ tpc[t] = "call" /\ Level(t) \in {"User", "Debug"}
    /\ stdout' = Append(stdout, Message(t))
    /\ tpc' = [tpc EXCEPT ![t] = "printed"]
    /\ UNCHANGED <<mutationLock, next, bufferVars, ret, loggable, vars>>

BufferLine(t) ==
    /\ tpc[t] = "printed"
    /\ userAndDebugBuffer' = Append(userAndDebugBuffer, Message(t))
    /\ EndCall(t)
    /\ UNCHANGED <<stdout, trace, outputInfo, ret, loggable, vars>>

AppendTrace(t) ==
    /\ tpc[t] = "call" /\ Level(t) = "Trace"
    /\ trace' = Append(trace, Message(t))
    /\ EndCall(t)
    /\ UNCHANGED <<stdout, userAndDebugBuffer, outputInfo, ret, loggable, vars>>

MergeMetric(t) ==
    /\ tpc[t] = "call" /\ Level(t) = "Metric"
    /\ outputInfo' = Append(outputInfo, Message(t))
    /\ EndCall(t)
    /\ UNCHANGED <<stdout, userAndDebugBuffer, trace, ret, loggable, vars>>

\* Mutant: ReadOutputInfo does not lock.
LockReadForgotten ==
    /\ pc = "function" /\ tpc[Tool] = "idle" /\ next[Tool] > Len(Calls[Tool])
    /\ loggable = "none"
    /\ tpc' = [tpc EXCEPT ![Tool] = "build"]
    /\ UNCHANGED <<mutationLock, next, stdout, bufferVars, ret, loggable, vars>>

\* ReadOutputInfo locks,
LockRead ==
    /\ pc = "function" /\ tpc[Tool] = "idle" /\ next[Tool] > Len(Calls[Tool])
    /\ loggable = "none" /\ mutationLock = "nobody"
    /\ mutationLock' = Tool
    /\ tpc' = [tpc EXCEPT ![Tool] = "build"]
    /\ UNCHANGED <<next, stdout, bufferVars, ret, loggable, vars>>

\* builds the serial outputs from the lines and the traces,
BuildOutput ==
    /\ tpc[Tool] = "build"
    /\ ret' = [ret EXCEPT !.lines = userAndDebugBuffer, !.traces = trace]
    /\ tpc' = [tpc EXCEPT ![Tool] = "merge"]
    /\ UNCHANGED <<mutationLock, next, stdout, bufferVars, loggable, vars>>

\* merges the metrics,
MergeOutput ==
    /\ tpc[Tool] = "merge"
    /\ ret' = [ret EXCEPT !.metrics = outputInfo]
    /\ tpc' = [tpc EXCEPT ![Tool] = "reset"]
    /\ UNCHANGED <<mutationLock, next, stdout, bufferVars, loggable, vars>>

\* and resets the buffers.
ResetBuffers ==
    /\ tpc[Tool] = "reset"
    /\ userAndDebugBuffer' = <<>> /\ trace' = <<>> /\ outputInfo' = <<>>
    /\ Unlock(Tool)
    /\ loggable' = "info"
    /\ UNCHANGED <<next, stdout, ret, vars>>

\* The function returns the info, with an error or not.
ReturnInfo ==
    /\ loggable = "info"
    /\ FunctionEnds
    /\ UNCHANGED toolVars

\* A panic is recovered from, and returned as its stack.
Panic ==
    /\ tpc[Tool] = "idle" /\ loggable = "none"
    /\ loggable' = "panic"
    /\ FunctionEnds
    /\ UNCHANGED <<mutationLock, tpc, next, stdout, bufferVars, ret>>

Logging(t) ==
    LockCall(t) \/ PrintLine(t) \/ BufferLine(t) \/ AppendTrace(t) \/ MergeMetric(t)

Read == LockRead \/ BuildOutput \/ MergeOutput \/ ResetBuffers

ToolStep == Logging(Tool) \/ Read \/ ReturnInfo \/ Panic

\* What follows the function is Run's, in ServerLogger.
Served ==
    /\ \/ UpdateParams \/ StartFinalLog \/ Wait \/ Terminating
       \/ \E l \in Log : LogStep(l)
    /\ UNCHANGED toolVars

ToolNext == ToolStep \/ Served \/ \E t \in Thread \ {Tool} : Logging(t)

\* The goroutines run, and requests time out.
ToolSpec ==
    /\ ToolInit /\ [][ToolNext]_<<vars, toolVars>>
    /\ WF_<<vars, toolVars>>(ToolStep)
    /\ WF_<<vars, toolVars>>((UpdateParams \/ StartFinalLog \/ Wait) /\ UNCHANGED toolVars)
    /\ \A l \in Log : WF_<<vars, toolVars>>(LogStep(l) /\ UNCHANGED toolVars)
    /\ \A t \in Thread : WF_<<vars, toolVars>>(Logging(t))

(***************************************************************************)
(* Properties.                                                             *)
(***************************************************************************)

\* Types of the variables, those of ServerLogger included.
ToolTypeOK ==
    /\ TypeOK
    /\ mutationLock \in Thread \cup {"nobody"}
    /\ tpc \in [Thread -> {"idle", "call", "printed", "build", "merge", "reset"}]
    /\ \A t \in Thread : next[t] \in 1..(Len(Calls[t]) + 1)
    /\ \A s \in {stdout, userAndDebugBuffer, trace, outputInfo,
                 ret.lines, ret.traces, ret.metrics} :
        \A i \in DOMAIN s : s[i][1] \in Thread /\ s[i][2] \in DOMAIN Calls[s[i][1]]
    /\ loggable \in {"none", "info", "panic"}

\* The calls that have returned, of some levels.
Returned(levels) ==
    UNION {{<<t, i>> : i \in {j \in DOMAIN Calls[t] : j < next[t] /\ Calls[t][j] \in levels}}
           : t \in Thread}

InOneOf(messages, read, kept) ==
    /\ ToSet(read \o kept) = messages
    /\ Len(read \o kept) = Cardinality(messages)

\* Every call that has returned is, once, either in the output info that was
\* read or in a buffer, and the lines of all goroutines are in the order in
\* which they were printed; what a failed tool itself logged before it read the
\* info is in its final log.
LogsKept ==
    /\ mutationLock = "nobody" =>
        /\ stdout = ret.lines \o userAndDebugBuffer
        /\ InOneOf(Returned({"User", "Debug"}), ret.lines, userAndDebugBuffer)
        /\ InOneOf(Returned({"Trace"}), ret.traces, trace)
        /\ InOneOf(Returned({"Metric"}), ret.metrics, outputInfo)
    /\ lpc["final"] = "post" /\ loggable = "info" =>
        \A i \in DOMAIN Calls[Tool] : <<Tool, i>> \in ToSet(ret.lines \o ret.traces \o ret.metrics)

(***************************************************************************)
(* Inductive invariants.                                                   *)
(***************************************************************************)

MessageSet == UNION {{<<t, i>> : i \in DOMAIN Calls[t]} : t \in Thread}

\* Types that say of what the sequences are.
BufferInv ==
    /\ mutationLock \in Thread \cup {"nobody"}
    /\ tpc \in [Thread -> {"idle", "call", "printed", "build", "merge", "reset"}]
    /\ next \in [Thread -> Nat] /\ \A t \in Thread : next[t] \in 1..(Len(Calls[t]) + 1)
    /\ stdout \in Seq(MessageSet)
    /\ userAndDebugBuffer \in Seq(MessageSet)
    /\ trace \in Seq(MessageSet) /\ outputInfo \in Seq(MessageSet)
    /\ ret \in [lines : Seq(MessageSet), traces : Seq(MessageSet), metrics : Seq(MessageSet)]
    /\ loggable \in {"none", "info", "panic"}

\* Who has mutationLock is in a call or, as the tool, in ReadOutputInfo, which it
\* calls once, after its own calls.
LockInv ==
    /\ \A t \in Thread : tpc[t] # "idle" <=> mutationLock = t
    /\ \A t \in Thread : tpc[t] \in {"call", "printed"} => next[t] <= Len(Calls[t])
    /\ \A t \in Thread : tpc[t] = "printed" => Level(t) \in {"User", "Debug"}
    /\ \A t \in Thread : tpc[t] \in {"build", "merge", "reset"} =>
            t = Tool /\ loggable = "none"
    /\ loggable = "info" \/ tpc[Tool] \in {"build", "merge", "reset"} =>
            next[Tool] > Len(Calls[Tool])

\* While ReadOutputInfo is between copying a buffer and emptying it, what it has
\* copied is there twice, and nothing has been read before.
CopyInv ==
    /\ tpc[Tool] \in {"merge", "reset"} =>
        ret.lines = userAndDebugBuffer /\ ret.traces = trace
    /\ tpc[Tool] = "merge" => ret.metrics = <<>>
    /\ tpc[Tool] = "reset" => ret.metrics = outputInfo
    /\ loggable # "info" /\ tpc[Tool] \notin {"merge", "reset"} => ret = Empty

\* All that was logged, each thing once.
Copied == tpc[Tool] \in {"merge", "reset"}
Lines == IF Copied THEN userAndDebugBuffer ELSE ret.lines \o userAndDebugBuffer
Traces == IF Copied THEN trace ELSE ret.traces \o trace
Metrics == IF Copied THEN outputInfo ELSE ret.metrics \o outputInfo

Holds(s, levels) ==
    /\ IsFiniteSet(Returned(levels))
    /\ ToSet(s) = Returned(levels) /\ Len(s) = Cardinality(Returned(levels))

\* The calls that have returned are kept, and a line that was printed is, or is
\* about to be.
KeptInv ==
    /\ Holds(Lines, {"User", "Debug"})
    /\ Holds(Traces, {"Trace"})
    /\ Holds(Metrics, {"Metric"})
    /\ (\A t \in Thread : tpc[t] # "printed") => stdout = Lines
    /\ \A t \in Thread : tpc[t] = "printed" => stdout = Append(Lines, Message(t))

\* The info that was read has whatever the tool itself logged.
ReportInv ==
    loggable = "info" =>
        \A i \in DOMAIN Calls[Tool] :
            <<Tool, i>> \in ToSet(ret.lines) \cup ToSet(ret.traces) \cup ToSet(ret.metrics)
=============================================================================
