------------------------- MODULE ServerLoggerProofs -------------------------
(***************************************************************************)
(* ServerLogger for every number of requests, wait and set of parameters:  *)
(* its types, that the final log carries the parameters as the tool left   *)
(* them, and that nothing is sent after Run has returned.                  *)
(***************************************************************************)
EXTENDS ToolLogger, TLAPS, FiniteSetTheorems, SequenceTheorems

\* The parameters are the numbers 1 to 3, in the order in which they are read.
LEMMA ParamFact == Param = 1..3 /\ Updated \subseteq Param
BY UpdatedAssumption DEF Param, Project, Obfuscated, Inspection

\* A wait the server asks for is capped.
LEMMA CappedFact ==
    ASSUME NEW ms \in Waits PROVE Capped(ms) \in 0..MaxWait
BY WaitAssumption DEF Capped

\* Lengths of a payload that is not complete.
LEMMA LengthFact ==
    ASSUME NEW s \in Seq(Values), Len(s) <= 2 PROVE Len(s) \in 0..2
<1>1. Len(s) \in Nat
  OBVIOUS
<1>2. \A n \in Nat : n <= 2 => n \in 0..2
  OBVIOUS
<1> QED
  BY <1>1, <1>2

\* The length of a payload that gets one more value.
LEMMA AtMostTwo ==
    ASSUME NEW n \in 0..2 PROVE n + 1 \in 1..3 /\ (n + 1 = 3 <=> n = 2)
OBVIOUS

\* A payload that is not complete has two values at most.
LEMMA SmallLength ==
    ASSUME NEW n \in 1..3 PROVE n <= 3 /\ (n # 3 => n <= 2)
OBVIOUS

(***************************************************************************)
(* Types.                                                                  *)
(***************************************************************************)

TypeInv == TypeOK /\ PayloadInv

\* Types, and how far each request has been marshalled.
LEMMA TypeInvariant == Spec => []TypeInv
<1>1. Init => TypeInv
  BY RetryAssumption, WaitAssumption
     DEF Init, TypeInv, TypeOK, PayloadInv, Log, Values, LogPC
<1>2. TypeInv /\ [Next]_vars => TypeInv'
  <2> SUFFICES ASSUME TypeInv, [Next]_vars PROVE TypeInv'
    OBVIOUS
  <2> USE DEF TypeInv, TypeOK, PayloadInv
  <2>1. CASE FunctionEnds
    BY <2>1 DEF FunctionEnds, logVars
  <2>2. CASE UpdateParams
    BY <2>2, ParamFact DEF UpdateParams, WriteParam, Unwritten, logVars, Values
  <2>3. CASE StartFinalLog
    BY <2>3 DEF StartFinalLog, Log, LogPC
  <2>4. CASE Wait
    BY <2>4 DEF Wait, logVars
  <2>5. ASSUME NEW l \in Log, LogStep(l) PROVE TypeInv'
    <3>1. CASE CreateExtension(l)
      BY <3>1 DEF CreateExtension, runVars, LogPC
    <3>2. CASE Lock(l)
      BY <3>2 DEF Lock, runVars, LogPC
    <3>3. CASE BeginAttempt(l)
      <4>1. CASE attempt[l] = MaxRetry
        BY <3>3, <4>1, <2>5 DEF BeginAttempt, Return, runVars, LogPC
      <4>2. CASE attempt[l] # MaxRetry
        <5>1. attempt[l] + 1 \in 0..MaxRetry
          BY <4>2, <2>5, RetryAssumption
        <5>2. <<>> \in Seq(Values) /\ Len(<<>>) = 0
          OBVIOUS
        <5>3. /\ lpc' = [lpc EXCEPT ![l] = "marshal"]
              /\ attempt' = [attempt EXCEPT ![l] = @ + 1]
              /\ payload' = [payload EXCEPT ![l] = <<>>]
              /\ UNCHANGED <<pc, params, holder, result>>
          BY <3>3, <4>2 DEF BeginAttempt, runVars
        <5>4. wait' \in 0..MaxWait
          BY <3>3, <4>2, WaitAssumption DEF BeginAttempt
        <5>5. payload' \in [Log -> Seq(Values)] /\ payload'[l] = <<>>
          BY <5>2, <5>3, <2>5
        <5>6. \A m \in Log : m # l => payload'[m] = payload[m] /\ lpc'[m] = lpc[m]
          BY <5>3
        <5> QED
          BY <5>1, <5>2, <5>3, <5>4, <5>5, <5>6, <2>5 DEF LogPC
      <4> QED
        BY <4>1, <4>2
    <3>4. CASE MarshalParam(l)
      <4>0. payload[l] \in Seq(Values)
        BY <2>5
      <4>1. Len(payload[l]) \in 0..2 /\ payload[l] \in Seq(Values)
        <5>1. Len(payload[l]) <= 2
          BY <3>4, <2>5 DEF MarshalParam
        <5> QED
          BY <4>0, <5>1, LengthFact
      <4>2. params[Len(payload[l]) + 1] \in Values
        <5>1. Len(payload[l]) + 1 \in 1..3
          BY <4>1, AtMostTwo
        <5>2. params \in [1..3 -> Values]
          BY ParamFact
        <5> QED
          BY <5>1, <5>2
      <4> DEFINE s == Append(payload[l], params[Len(payload[l]) + 1])
      <4>3. s \in Seq(Values) /\ Len(s) = Len(payload[l]) + 1
        BY <4>1, <4>2
      <4>4. payload' = [payload EXCEPT ![l] = s]
        BY <3>4 DEF MarshalParam
      <4> HIDE DEF s
      <4>5. /\ payload' \in [Log -> Seq(Values)] /\ payload'[l] = s
            /\ \A m \in Log : m # l => payload'[m] = payload[m]
        BY <4>3, <4>4, <2>5
      <4>6. /\ lpc'[l] = IF Len(payload[l]) = 2 THEN "post" ELSE "marshal"
            /\ lpc' \in [Log -> LogPC]
            /\ \A m \in Log : m # l => lpc'[m] = lpc[m]
        BY <3>4, <2>5 DEF MarshalParam, LogPC
      <4>7. \A m \in Log :
                /\ Len(payload'[m]) <= 3
                /\ lpc'[m] = "marshal" => Len(payload'[m]) <= 2
                /\ lpc'[m] = "post" => Len(payload'[m]) = 3
        <5>1. Len(s) \in 1..3 /\ (Len(s) = 3 <=> Len(payload[l]) = 2)
          BY <4>1, <4>3, AtMostTwo
        <5> TAKE m \in Log
        <5>2. CASE m = l
          BY <4>1, <4>5, <4>6, <5>1, <5>2, SmallLength
        <5>3. CASE m # l
          BY <4>5, <4>6, <5>3
        <5> QED
          BY <5>2, <5>3
      <4> QED
        BY <3>4, <4>5, <4>6, <4>7 DEF MarshalParam, runVars
    <3>5. CASE RequestNotMade(l) \/ RequestFails(l) \/ Unparsable(l)
      BY <3>5, <2>5 DEF RequestNotMade, RequestFails, Unparsable, Return, runVars, LogPC
    <3>6. CASE Respond(l)
      <4>1. PICK ms \in Waits, action \in {"retry", "logged", "undefined"} :
                /\ wait' = IF ms > 0 THEN Capped(ms) ELSE wait
                /\ Answer(l, action)
        BY <3>6 DEF Respond
      <4>2. wait' \in 0..MaxWait
        BY <4>1, CappedFact
      <4>3. \/ lpc' = [lpc EXCEPT ![l] = "loop"] /\ UNCHANGED <<holder, result>>
            \/ \E r \in {"logged", "undefined"} : Return(l, r)
        BY <4>1 DEF Answer
      <4> QED
        BY <3>6, <4>2, <4>3, <2>5 DEF Respond, Return, runVars, LogPC
    <3>7. CASE GetOutputInfo /\ l = "final"
      BY <3>7, ParamFact DEF GetOutputInfo, WriteParam, Values, LogPC, Inspection
    <3> QED
      BY <2>5, <3>1, <3>2, <3>3, <3>4, <3>5, <3>6, <3>7 DEF LogStep
  <2>6. CASE UNCHANGED vars
    BY <2>6 DEF vars, runVars, logVars
  <2> QED
    BY <2>1, <2>2, <2>3, <2>4, <2>5, <2>6 DEF Next, RunStep, Terminating
<1> QED
  BY <1>1, <1>2, PTL DEF Spec

\* The variables have their types, and a log takes at most MaxRetry requests
\* (the loop of sendLogToServerWithRetry).
THEOREM TypeCorrect == Spec => []TypeOK
<1>1. TypeInv => TypeOK
  BY DEF TypeInv
<1> QED
  BY <1>1, TypeInvariant, PTL

(***************************************************************************)
(* The parameters of the final log.                                        *)
(***************************************************************************)

\* updateParams and getOutputInfo come before the first read of the final log,
\* and nothing is written after it.
LEMMA CurrentInvariant == Spec => []CurrentInv
<1>1. Init => CurrentInv
  BY DEF Init, CurrentInv, Log
<1>2. TypeInv /\ CurrentInv /\ [Next]_vars => CurrentInv'
  <2> SUFFICES ASSUME TypeInv, CurrentInv, [Next]_vars PROVE CurrentInv'
    OBVIOUS
  <2> USE DEF CurrentInv
  <2>1. CASE FunctionEnds
    BY <2>1 DEF FunctionEnds, logVars
  <2>2. CASE UpdateParams
    BY <2>2 DEF UpdateParams, logVars, Unwritten
  <2>3. CASE StartFinalLog
    BY <2>3 DEF StartFinalLog, Unwritten, TypeInv, TypeOK, Log
  <2>4. CASE Wait
    BY <2>4 DEF Wait, logVars, Unwritten
  <2>5. ASSUME NEW l \in Log, LogStep(l) PROVE CurrentInv'
    <3>1. CASE MarshalParam(l) /\ l = "final"
      <4>1. payload["final"] \in Seq(Values)
        BY DEF TypeInv, TypeOK, Log
      <4> DEFINE n == Len(payload["final"])
                 v == params[n + 1]
      <4>2. n \in Nat /\ n <= 2
        <5>1. "final" \in Log /\ lpc["final"] = "marshal"
          BY <3>1 DEF MarshalParam, Log
        <5>2. PayloadInv
          BY DEF TypeInv
        <5>3. Len(payload["final"]) <= 2
          BY <5>1, <5>2 DEF PayloadInv
        <5> QED
          BY <4>1, <5>3
      <4>3. n + 1 \in Param /\ v \in Values
        <5>1. n + 1 \in 1..3
          BY <4>2
        <5>2. params \in [1..3 -> Values]
          BY ParamFact DEF TypeInv, TypeOK
        <5> QED
          BY <5>1, <5>2, ParamFact
      <4>4. payload'["final"] = Append(payload["final"], v)
        BY <3>1 DEF MarshalParam, TypeInv, TypeOK, Log
      <4>5. n + 1 \in Updated => v = "new"
        BY <3>1, <4>3 DEF MarshalParam, Unwritten
      <4>6. ASSUME NEW i \in 1..Len(payload'["final"]), i \in Updated
            PROVE  payload'["final"][i] = "new"
        <5> HIDE DEF v
        <5>1. i \in 1..n \/ i = n + 1
          BY <4>1, <4>2, <4>3, <4>4
        <5>2. CASE i \in 1..n
          BY <3>1, <4>1, <4>3, <4>4, <4>6, <5>2 DEF MarshalParam
        <5>3. CASE i = n + 1
          BY <4>1, <4>3, <4>4, <4>5, <4>6, <5>3
        <5> QED
          BY <5>1, <5>2, <5>3
      <4> QED
        BY <3>1, <4>6 DEF MarshalParam, runVars, Unwritten, TypeInv, TypeOK, Log
    <3>2. CASE GetOutputInfo /\ l = "final"
      BY <3>2, ParamFact
         DEF GetOutputInfo, WriteParam, Unwritten, TypeInv, TypeOK, Log, Param,
             Project, Obfuscated, Inspection
    <3>3. CASE BeginAttempt(l) /\ l = "final"
      BY <3>3 DEF BeginAttempt, Return, runVars, Unwritten, TypeInv, TypeOK, Log
    <3>4. CASE l = "final" /\ (CreateExtension(l) \/ Lock(l))
      BY <3>4 DEF CreateExtension, Lock, runVars, Unwritten, TypeInv, TypeOK, Log
    <3>5. CASE l = "final" /\ (RequestNotMade(l) \/ RequestFails(l) \/ Unparsable(l))
      BY <3>5 DEF RequestNotMade, RequestFails, Unparsable, Return, runVars,
                  Unwritten, TypeInv, TypeOK, Log
    <3>6. CASE l = "final" /\ Respond(l)
      BY <3>6 DEF Respond, Answer, Return, runVars, Unwritten, TypeInv, TypeOK, Log
    <3>7. CASE l = "start"
      <4>1. lpc'["final"] = lpc["final"] /\ payload'["final"] = payload["final"]
            /\ UNCHANGED runVars
        BY <2>5, <3>7
           DEF LogStep, CreateExtension, Lock, BeginAttempt, MarshalParam,
               RequestNotMade, RequestFails, Unparsable, Respond, Answer, Return,
               TypeInv, TypeOK, Log
      <4> QED
        BY <4>1 DEF runVars, Unwritten
    <3> QED
      BY <2>5, <3>1, <3>2, <3>3, <3>4, <3>5, <3>6, <3>7 DEF LogStep, Log
  <2>6. CASE UNCHANGED vars
    BY <2>6 DEF vars, runVars, logVars, Unwritten
  <2> QED
    BY <2>1, <2>2, <2>3, <2>4, <2>5, <2>6 DEF Next, RunStep, Terminating
<1> QED
  BY <1>1, <1>2, TypeInvariant, PTL DEF Spec

\* Every request of the final log carries the parameters as the tool's function
\* left them (runWithServerLogging), whatever the other log is doing.
THEOREM FinalLogCurrent == Spec => []FinalLogIsCurrent
<1>1. TypeInv /\ CurrentInv => FinalLogIsCurrent
  BY ParamFact DEF TypeInv, PayloadInv, CurrentInv, FinalLogIsCurrent, Log
<1> QED
  BY <1>1, TypeInvariant, CurrentInvariant, PTL

(***************************************************************************)
(* The end of Run.                                                         *)
(***************************************************************************)

\* wg.Wait() of runWithServerLogging: when Run returns both logs have their
\* results, so that no goroutine is left in a request.
THEOREM NothingLeftBehind == Spec => []NothingSentAfterReturn
<1>1. Init => OverInv
  BY DEF Init, OverInv, Log
<1>2. TypeInv /\ OverInv /\ [Next]_vars => OverInv'
  <2> SUFFICES ASSUME TypeInv, OverInv, [Next]_vars PROVE OverInv'
    OBVIOUS
  <2> USE DEF OverInv
  <2>1. CASE RunStep
    BY <2>1 DEF RunStep, FunctionEnds, UpdateParams, StartFinalLog, Wait, logVars,
                TypeInv, TypeOK, Log
  <2>2. ASSUME NEW l \in Log, LogStep(l) PROVE OverInv'
    BY <2>2 DEF LogStep, CreateExtension, Lock, BeginAttempt, MarshalParam,
                RequestNotMade, RequestFails, Unparsable, Respond, Answer, Return,
                GetOutputInfo, runVars, TypeInv, TypeOK, Log
  <2>3. CASE UNCHANGED vars
    BY <2>3 DEF vars, runVars, logVars
  <2> QED
    BY <2>1, <2>2, <2>3 DEF Next, Terminating
<1>3. OverInv => NothingSentAfterReturn
  BY DEF OverInv, NothingSentAfterReturn
<1> QED
  BY <1>1, <1>2, <1>3, TypeInvariant, PTL DEF Spec

(***************************************************************************)
(* The logger of the tool.                                                 *)
(***************************************************************************)

\* A tool that logs is a function that ends, for the server logger that runs it:
\* with the variables of ServerLogger alone, ToolLogger does what it does.
THEOREM ToolIsServed == ToolSpec => Spec
<1>1. ToolInit => Init
  BY DEF ToolInit
<1>2. [ToolNext]_<<vars, toolVars>> => [Next]_vars
  <2> SUFFICES ASSUME ToolNext PROVE [Next]_vars
    OBVIOUS
  <2>1. CASE ReturnInfo \/ Panic
    BY <2>1 DEF ReturnInfo, Panic, Next, RunStep
  <2>2. CASE Read
    BY <2>2 DEF Read, LockRead, BuildOutput, MergeOutput, ResetBuffers
  <2>3. ASSUME NEW t \in Thread, Logging(t) PROVE UNCHANGED vars
    BY <2>3 DEF Logging, LockCall, PrintLine, BufferLine, AppendTrace, MergeMetric
  <2>4. CASE Served
    BY <2>4 DEF Served, Next, RunStep
  <2>5. QED
    BY <2>1, <2>2, <2>3, <2>4, ThreadAssumption DEF ToolNext, ToolStep
<1>3. QED
  BY <1>1, <1>2, PTL DEF ToolSpec, Spec

\* The server logger's promises hold for a tool that logs from any number of
\* goroutines.
THEOREM ToolIsSafe == ToolSpec => [](FinalLogIsCurrent /\ NothingSentAfterReturn)
BY ToolIsServed, FinalLogCurrent, NothingLeftBehind, PTL

(***************************************************************************)
(* What was logged.                                                        *)
(***************************************************************************)

ReadingStep == BuildOutput \/ MergeOutput \/ ResetBuffers

\* The calls of a goroutine are a sequence of levels.
LEMMA CallsFact ==
    ASSUME NEW t \in Thread
    PROVE  /\ Len(Calls[t]) \in Nat /\ DOMAIN Calls[t] = 1..Len(Calls[t])
           /\ \A i \in DOMAIN Calls[t] : Calls[t][i] \in {"User", "Debug", "Trace", "Metric"}
BY CallsAssumption

\* The call a goroutine is at is a message.
LEMMA MessageFact ==
    ASSUME BufferInv, NEW t \in Thread, next[t] <= Len(Calls[t])
    PROVE  Message(t) \in MessageSet /\ next[t] \in 1..Len(Calls[t])
<1>1. next[t] \in 1..Len(Calls[t])
  BY CallsFact DEF BufferInv
<1> QED
  BY <1>1, CallsFact DEF Message, MessageSet

\* Every tool starts with empty buffers, which nobody holds.
LEMMA ToolInitFact == ToolInit => BufferInv /\ LockInv /\ CopyInv /\ ReportInv
<1>1. SUFFICES ASSUME ToolInit PROVE BufferInv /\ LockInv /\ CopyInv /\ ReportInv
  OBVIOUS
<1>2. <<>> \in Seq(MessageSet)
  OBVIOUS
<1>3. \A t \in Thread : 1 \in 1..(Len(Calls[t]) + 1)
  BY CallsFact
<1>4. BufferInv
  BY <1>1, <1>2, <1>3 DEF ToolInit, BufferInv, Empty
<1>5. LockInv /\ CopyInv /\ ReportInv
  BY <1>1, ThreadAssumption DEF ToolInit, LockInv, CopyInv, ReportInv
<1> QED
  BY <1>4, <1>5

\* What the logger does in one step, if it does anything.
LEMMA ToolCases ==
    ASSUME [ToolNext]_<<vars, toolVars>>
    PROVE  \/ \E t \in Thread : LockCall(t) \/ PrintLine(t) \/ BufferLine(t)
                                \/ AppendTrace(t) \/ MergeMetric(t)
           \/ LockRead \/ BuildOutput \/ MergeOutput \/ ResetBuffers
           \/ Panic
           \/ UNCHANGED toolVars
BY ThreadAssumption
   DEF ToolNext, ToolStep, Served, Logging, Read, ReturnInfo, toolVars

\* mutationLock works: one goroutine at a time is in a call or in ReadOutputInfo.
LEMMA LockStep ==
    ASSUME BufferInv, LockInv, [ToolNext]_<<vars, toolVars>>
    PROVE  BufferInv' /\ LockInv'
<1> USE DEF BufferInv, LockInv
<1>1. ASSUME NEW t \in Thread, LockCall(t) PROVE BufferInv' /\ LockInv'
  BY <1>1, ThreadAssumption DEF LockCall, bufferVars, Level
<1>2. ASSUME NEW t \in Thread, PrintLine(t) PROVE BufferInv' /\ LockInv'
  <2>1. Message(t) \in MessageSet
    BY <1>2, MessageFact DEF PrintLine
  <2>2. stdout' \in Seq(MessageSet)
    BY <1>2, <2>1 DEF PrintLine
  <2>3. /\ tpc[t] = "call" /\ Level(t) \in {"User", "Debug"} /\ tpc' = [tpc EXCEPT ![t] = "printed"]
        /\ UNCHANGED <<mutationLock, next, bufferVars, ret, loggable>>
    BY <1>2 DEF PrintLine, bufferVars
  <2>4. tpc'[t] = "printed" /\ \A u \in Thread : u # t => tpc'[u] = tpc[u]
    BY <2>3
  <2>5. BufferInv'
    BY <2>2, <2>3 DEF bufferVars
  <2>6. LockInv'
    <3>1. \A u \in Thread : Level(u)' = Level(u)
      BY <2>3 DEF Level
    <3>2. t = mutationLock /\ \A u \in Thread : u # t => tpc[u] = "idle"
      BY <2>3
    <3> QED
      BY <2>3, <2>4, <3>1, <3>2
  <2> QED
    BY <2>5, <2>6
<1>3. ASSUME NEW t \in Thread, BufferLine(t) \/ AppendTrace(t) \/ MergeMetric(t)
      PROVE  BufferInv' /\ LockInv'
  <2>1. tpc[t] \in {"call", "printed"} /\ mutationLock = t
    BY <1>3 DEF BufferLine, AppendTrace, MergeMetric
  <2>2. Message(t) \in MessageSet /\ next[t] \in 1..Len(Calls[t])
    BY <2>1, MessageFact
  <2>3. EndCall(t) /\ UNCHANGED <<stdout, ret, loggable>>
    BY <1>3 DEF BufferLine, AppendTrace, MergeMetric
  <2>4. /\ userAndDebugBuffer' \in Seq(MessageSet)
        /\ trace' \in Seq(MessageSet) /\ outputInfo' \in Seq(MessageSet)
    <3>1. \A s \in Seq(MessageSet) : Append(s, Message(t)) \in Seq(MessageSet)
      BY <2>2, AppendProperties
    <3> QED
      BY <1>3, <3>1 DEF BufferLine, AppendTrace, MergeMetric
  <2>5. next' \in [Thread -> Nat] /\ \A u \in Thread : next'[u] \in 1..(Len(Calls[u]) + 1)
    <3>1. next[t] + 1 \in Nat /\ next[t] + 1 \in 1..(Len(Calls[t]) + 1)
      BY <2>2, CallsFact
    <3>2. next' = [next EXCEPT ![t] = next[t] + 1]
      BY <2>3 DEF EndCall
    <3> QED
      BY <3>1, <3>2
  <2>6. mutationLock' = "nobody" /\ tpc' = [u \in Thread |-> "idle"]
    BY <2>1, <2>3, ThreadAssumption DEF EndCall, Unlock
  <2>7. loggable = "info" => next'[Tool] > Len(Calls[Tool])
    BY <2>1, <2>2, <2>3, ThreadAssumption, CallsFact DEF EndCall
  <2> QED
    BY <2>3, <2>4, <2>5, <2>6, <2>7, ThreadAssumption
<1>4. CASE LockRead
  BY <1>4, ThreadAssumption DEF LockRead, bufferVars, Level
<1>5. CASE BuildOutput \/ MergeOutput
  <2>1. ret' \in [lines : Seq(MessageSet), traces : Seq(MessageSet), metrics : Seq(MessageSet)]
    BY <1>5 DEF BuildOutput, MergeOutput
  <2>2. /\ tpc[Tool] \in {"build", "merge"} /\ tpc'[Tool] \in {"merge", "reset"}
        /\ tpc' \in [Thread -> {"idle", "call", "printed", "build", "merge", "reset"}]
        /\ \A t \in Thread \ {Tool} : tpc'[t] = tpc[t]
        /\ UNCHANGED <<mutationLock, next, stdout, bufferVars, loggable>>
    BY <1>5, ThreadAssumption DEF BuildOutput, MergeOutput
  <2> QED
    BY <2>1, <2>2, ThreadAssumption DEF bufferVars, Level
<1>6. CASE ResetBuffers
  BY <1>6, ThreadAssumption DEF ResetBuffers, Unlock, bufferVars, Level
<1>7. CASE Panic
  BY <1>7, ThreadAssumption DEF Panic, bufferVars, Level
<1>8. CASE UNCHANGED toolVars
  BY <1>8 DEF toolVars, bufferVars, Level
<1> QED
  BY <1>1, <1>2, <1>3, <1>4, <1>5, <1>6, <1>7, <1>8, ToolCases

\* What has been copied and not yet emptied is there twice.
LEMMA CopyStep ==
    ASSUME BufferInv, LockInv, CopyInv, [ToolNext]_<<vars, toolVars>>
    PROVE  CopyInv'
<1> USE DEF BufferInv, LockInv, CopyInv
<1>1. ASSUME NEW t \in Thread, LockCall(t) PROVE CopyInv'
  BY <1>1, ThreadAssumption DEF LockCall, bufferVars
<1>2. ASSUME NEW t \in Thread,
             PrintLine(t) \/ BufferLine(t) \/ AppendTrace(t) \/ MergeMetric(t)
      PROVE  CopyInv'
  <2>1. tpc[Tool] \in {"idle", "call", "printed"} /\ tpc'[Tool] \in {"idle", "printed"}
    BY <1>2, ThreadAssumption
       DEF PrintLine, BufferLine, AppendTrace, MergeMetric, EndCall, Unlock
  <2> QED
    BY <1>2, <2>1 DEF PrintLine, BufferLine, AppendTrace, MergeMetric, bufferVars
<1>3. CASE LockRead
  BY <1>3, ThreadAssumption DEF LockRead, bufferVars
<1>4. CASE BuildOutput
  BY <1>4, ThreadAssumption DEF BuildOutput, bufferVars, Empty
<1>5. CASE MergeOutput
  BY <1>5, ThreadAssumption DEF MergeOutput, bufferVars
<1>6. CASE ResetBuffers
  BY <1>6, ThreadAssumption DEF ResetBuffers, Unlock
<1>7. CASE Panic
  BY <1>7, ThreadAssumption DEF Panic, bufferVars
<1>8. CASE UNCHANGED toolVars
  BY <1>8 DEF toolVars, bufferVars
<1> QED
  BY <1>1, <1>2, <1>3, <1>4, <1>5, <1>6, <1>7, <1>8, ToolCases

\* A call that returns is one more, which was not there.
LEMMA OneMoreReturned ==
    ASSUME BufferInv, NEW t \in Thread, next[t] <= Len(Calls[t]), EndCall(t), NEW levels
    PROVE  /\ Returned(levels)' = IF Level(t) \in levels THEN Returned(levels) \cup {Message(t)}
                                                       ELSE Returned(levels)
           /\ Message(t) \notin Returned(levels)
<1> DEFINE Of(u, n) == {<<u, i>> : i \in {j \in DOMAIN Calls[u] : j < n /\ Calls[u][j] \in levels}}
<1>1. next[t] \in DOMAIN Calls[t] /\ next'[t] = next[t] + 1 /\ next[t] \in Nat
  BY CallsFact DEF BufferInv, EndCall
<1>2. \A u \in Thread \ {t} : next'[u] = next[u]
  BY DEF BufferInv, EndCall
<1>3. Of(t, next'[t]) = IF Level(t) \in levels THEN Of(t, next[t]) \cup {Message(t)}
                                               ELSE Of(t, next[t])
  <2>1. DOMAIN Calls[t] \subseteq Nat
    BY CallsFact
  <2>2. \A j \in DOMAIN Calls[t] : j < next'[t] <=> j < next[t] \/ j = next[t]
    BY <1>1, <2>1
  <2> QED
    BY <1>1, <2>2 DEF Level, Message
<1>4. Returned(levels) = UNION {Of(u, next[u]) : u \in Thread}
  BY DEF Returned
<1>5. Returned(levels)' = UNION {Of(u, next'[u]) : u \in Thread}
  BY DEF Returned
<1>6. Message(t) \notin Returned(levels)
  <2>1. \A u \in Thread : Message(t) \notin Of(u, next[u])
    BY <1>1 DEF Message
  <2> QED
    BY <1>4, <2>1
<1>7. \A u \in Thread \ {t} : Of(u, next'[u]) = Of(u, next[u])
  BY <1>2
<1> HIDE DEF Of
<1> QED
  BY <1>3, <1>4, <1>5, <1>6, <1>7

\* A sequence that holds what has returned does so after one more call, appended if
\* it is of the sequence's levels.
LEMMA HoldsOneMore ==
    ASSUME BufferInv, NEW t \in Thread, next[t] <= Len(Calls[t]), EndCall(t), NEW levels,
           NEW s \in Seq(MessageSet), Holds(s, levels)
    PROVE  LET r == IF Level(t) \in levels THEN Append(s, Message(t)) ELSE s
           IN  /\ IsFiniteSet(Returned(levels)')
               /\ ToSet(r) = Returned(levels)' /\ Len(r) = Cardinality(Returned(levels)')
<1>1. CASE Level(t) \in levels
  <2> DEFINE m == Message(t)
             R == Returned(levels)
             r == Append(s, m)
  <2>1. m \in MessageSet
    BY MessageFact
  <2>2. Returned(levels)' = R \cup {m} /\ m \notin R
    BY <1>1, OneMoreReturned
  <2>3. IsFiniteSet(R) /\ ToSet(s) = R /\ Len(s) = Cardinality(R)
    BY DEF Holds
  <2> HIDE DEF m, R
  <2>4. IsFiniteSet(R \cup {m}) /\ Cardinality(R \cup {m}) = Cardinality(R) + 1
    BY <2>2, <2>3, FS_AddElement
  <2>5. /\ Len(r) = Len(s) + 1 /\ r \in Seq(MessageSet)
        /\ \A i \in 1..Len(s) : r[i] = s[i]
        /\ r[Len(s) + 1] = m
    BY <2>1, AppendProperties
  <2>6. DOMAIN s = 1..Len(s) /\ DOMAIN r = 1..Len(r) /\ Len(s) \in Nat
    BY <2>5
  <2>7. DOMAIN r = DOMAIN s \cup {Len(s) + 1}
    BY <2>5, <2>6
  <2> HIDE DEF r
  <2>8. ToSet(r) = ToSet(s) \cup {m}
    BY <2>5, <2>6, <2>7 DEF ToSet
  <2> QED
    BY <1>1, <2>2, <2>3, <2>4, <2>5, <2>8 DEF m, r
<1>2. CASE Level(t) \notin levels
  BY <1>2, OneMoreReturned DEF Holds
<1> QED
  BY <1>1, <1>2

\* Appending to the second of two sequences appends to both.
LEMMA AppendToConcat ==
    ASSUME NEW S, NEW r \in Seq(S), NEW s \in Seq(S), NEW m \in S
    PROVE  r \o Append(s, m) = Append(r \o s, m)
<1>1. <<m>> \in Seq(S) /\ r \o s \in Seq(S)
  OBVIOUS
<1>2. Append(s, m) = s \o <<m>> /\ Append(r \o s, m) = (r \o s) \o <<m>>
  BY <1>1, AppendIsConcat
<1> QED
  BY <1>1, <1>2, ConcatAssociative

\* What is read and what is kept are sequences of messages.
LEMMA LogTypes ==
    ASSUME BufferInv
    PROVE  /\ Lines \in Seq(MessageSet) /\ Traces \in Seq(MessageSet)
           /\ Metrics \in Seq(MessageSet)
<1>1. /\ ret.lines \in Seq(MessageSet) /\ ret.traces \in Seq(MessageSet)
      /\ ret.metrics \in Seq(MessageSet)
  BY DEF BufferInv
<1> QED
  BY <1>1 DEF BufferInv, Lines, Traces, Metrics

\* ReadOutputInfo moves what was logged, and changes nothing else.
LEMMA ReadingKeeps ==
    ASSUME BufferInv, LockInv, CopyInv, ReadingStep \/ LockRead
    PROVE  /\ Lines' = Lines /\ Traces' = Traces /\ Metrics' = Metrics
           /\ UNCHANGED <<next, stdout>>
           /\ \A t \in Thread : tpc[t] # "printed" /\ tpc'[t] # "printed"
<1>0. \A s \in Seq(MessageSet) : <<>> \o s = s /\ s \o <<>> = s
  BY ConcatEmptySeq
<1>1. CASE LockRead
  <2>1. /\ ~Copied /\ ~Copied'
        /\ UNCHANGED <<next, stdout, userAndDebugBuffer, trace, outputInfo, ret>>
    BY <1>1, ThreadAssumption DEF LockRead, bufferVars, BufferInv, Copied
  <2>2. \A t \in Thread : tpc[t] = "idle" /\ tpc'[t] \in {"idle", "build"}
    BY <1>1, ThreadAssumption DEF LockRead, BufferInv, LockInv
  <2> QED
    BY <2>1, <2>2 DEF Lines, Traces, Metrics
<1>2. CASE BuildOutput
  <2>1. ret = Empty /\ ~Copied /\ Copied'
    BY <1>2, ThreadAssumption DEF BuildOutput, CopyInv, LockInv, BufferInv, Copied
  <2>2. UNCHANGED <<next, stdout, userAndDebugBuffer, trace, outputInfo>>
    BY <1>2 DEF BuildOutput, bufferVars
  <2>3. ret.lines = <<>> /\ ret.traces = <<>> /\ ret.metrics = <<>>
    BY <2>1 DEF Empty
  <2>4. \A t \in Thread : tpc[t] # "printed" /\ tpc'[t] # "printed"
    <3>1. tpc[Tool] = "build" /\ tpc' = [tpc EXCEPT ![Tool] = "merge"]
      BY <1>2 DEF BuildOutput
    <3>2. \A t \in Thread \ {Tool} : tpc[t] = "idle"
      BY <3>1, ThreadAssumption DEF LockInv
    <3> QED
      BY <3>1, <3>2, ThreadAssumption DEF BufferInv
  <2>5. /\ <<>> \o userAndDebugBuffer = userAndDebugBuffer
        /\ <<>> \o trace = trace /\ <<>> \o outputInfo = outputInfo
    BY <1>0 DEF BufferInv
  <2> QED
    BY <2>1, <2>2, <2>3, <2>4, <2>5 DEF Lines, Traces, Metrics
<1>3. CASE MergeOutput
  <2>1. /\ Copied /\ Copied'
        /\ UNCHANGED <<next, stdout, userAndDebugBuffer, trace, outputInfo>>
    BY <1>3, ThreadAssumption DEF MergeOutput, bufferVars, BufferInv, Copied
  <2>2. \A t \in Thread : tpc[t] # "printed" /\ tpc'[t] # "printed"
    <3>1. tpc[Tool] = "merge" /\ tpc' = [tpc EXCEPT ![Tool] = "reset"]
      BY <1>3 DEF MergeOutput
    <3>2. \A t \in Thread \ {Tool} : tpc[t] = "idle"
      BY <3>1, ThreadAssumption DEF LockInv
    <3> QED
      BY <3>1, <3>2, ThreadAssumption DEF BufferInv
  <2> QED
    BY <2>1, <2>2 DEF Lines, Traces, Metrics
<1>4. CASE ResetBuffers
  <2>1. Copied /\ ~Copied'
    BY <1>4, ThreadAssumption DEF ResetBuffers, Unlock, BufferInv, Copied
  <2>2. /\ ret.lines = userAndDebugBuffer /\ ret.traces = trace /\ ret.metrics = outputInfo
    BY <1>4 DEF ResetBuffers, CopyInv
  <2>3. /\ UNCHANGED <<next, stdout, ret>>
        /\ userAndDebugBuffer' = <<>> /\ trace' = <<>> /\ outputInfo' = <<>>
    BY <1>4 DEF ResetBuffers
  <2>4. \A t \in Thread : tpc[t] # "printed" /\ tpc'[t] # "printed"
    BY <1>4, ThreadAssumption DEF ResetBuffers, Unlock, BufferInv, LockInv
  <2>5. /\ ret.lines \o <<>> = ret.lines /\ ret.traces \o <<>> = ret.traces
        /\ ret.metrics \o <<>> = ret.metrics
    BY <1>0, <2>2 DEF BufferInv
  <2> QED
    BY <2>1, <2>2, <2>3, <2>4, <2>5 DEF Lines, Traces, Metrics
<1> QED
  BY <1>1, <1>2, <1>3, <1>4 DEF ReadingStep

\* Nothing that was logged is lost or repeated by a step.
LEMMA KeptStep ==
    ASSUME BufferInv, LockInv, CopyInv, KeptInv, [ToolNext]_<<vars, toolVars>>
    PROVE  KeptInv'
<1>1. ASSUME NEW t \in Thread, LockCall(t) PROVE KeptInv'
  <2>1. /\ \A u \in Thread : tpc'[u] = "printed" <=> tpc[u] = "printed"
        /\ Copied' = Copied
        /\ UNCHANGED <<next, stdout, bufferVars, ret>>
    BY <1>1, ThreadAssumption DEF LockCall, BufferInv, Copied
  <2> QED
    BY <2>1 DEF KeptInv, Holds, Returned, Lines, Traces, Metrics, bufferVars, Message
<1>2. ASSUME NEW t \in Thread, PrintLine(t) PROVE KeptInv'
  <2>1. /\ \A u \in Thread : tpc[u] # "printed"
        /\ \A u \in Thread : tpc'[u] = "printed" <=> u = t
        /\ ~Copied /\ ~Copied'
        /\ UNCHANGED <<next, bufferVars, ret>>
    <3>1. tpc[t] = "call" /\ tpc' = [tpc EXCEPT ![t] = "printed"]
          /\ UNCHANGED <<next, bufferVars, ret>>
      BY <1>2 DEF PrintLine
    <3>2. \A u \in Thread \ {t} : tpc[u] = "idle"
      BY <3>1, ThreadAssumption DEF LockInv
    <3> QED
      BY <3>1, <3>2, ThreadAssumption DEF BufferInv, Copied
  <2>2. stdout' = Append(Lines, Message(t))
    BY <1>2, <2>1 DEF PrintLine, KeptInv
  <2>3. Lines' = Lines /\ Traces' = Traces /\ Metrics' = Metrics /\ Message(t)' = Message(t)
    BY <2>1 DEF Lines, Traces, Metrics, bufferVars, Message
  <2> QED
    BY <2>1, <2>2, <2>3 DEF KeptInv, Holds, Returned
<1>3. ASSUME NEW t \in Thread, BufferLine(t) \/ AppendTrace(t) \/ MergeMetric(t)
      PROVE  KeptInv'
  <2>1. /\ tpc[t] \in {"call", "printed"} /\ mutationLock = t
        /\ next[t] <= Len(Calls[t]) /\ EndCall(t)
    BY <1>3 DEF BufferLine, AppendTrace, MergeMetric, LockInv
  <2>2. /\ \A u \in Thread \ {t} : tpc[u] = "idle"
        /\ \A u \in Thread : tpc'[u] = "idle"
        /\ ~Copied /\ ~Copied'
    BY <2>1, ThreadAssumption DEF EndCall, Unlock, BufferInv, LockInv, Copied
  <2>3. Message(t) \in MessageSet
    BY <2>1, MessageFact
  <2>4. /\ Lines' = IF Level(t) \in {"User", "Debug"} THEN Append(Lines, Message(t)) ELSE Lines
        /\ Traces' = IF Level(t) \in {"Trace"} THEN Append(Traces, Message(t)) ELSE Traces
        /\ Metrics' = IF Level(t) \in {"Metric"} THEN Append(Metrics, Message(t)) ELSE Metrics
    <3>1. /\ ret.lines \in Seq(MessageSet) /\ ret.traces \in Seq(MessageSet)
          /\ ret.metrics \in Seq(MessageSet)
          /\ userAndDebugBuffer \in Seq(MessageSet) /\ trace \in Seq(MessageSet)
          /\ outputInfo \in Seq(MessageSet)
      BY DEF BufferInv
    <3>2. /\ ret.lines \o Append(userAndDebugBuffer, Message(t))
                = Append(ret.lines \o userAndDebugBuffer, Message(t))
          /\ ret.traces \o Append(trace, Message(t)) = Append(ret.traces \o trace, Message(t))
          /\ ret.metrics \o Append(outputInfo, Message(t))
                = Append(ret.metrics \o outputInfo, Message(t))
      <4>1. \A r, s \in Seq(MessageSet), m \in MessageSet :
                r \o Append(s, m) = Append(r \o s, m)
        BY AppendToConcat
      <4>2. \A r, s \in Seq(MessageSet) :
                r \o Append(s, Message(t)) = Append(r \o s, Message(t))
        BY <2>3, <4>1, Zenon
      <4> QED
        BY <3>1, <4>2, Zenon
    <3>3. CASE BufferLine(t)
      <4>1. Level(t) \in {"User", "Debug"}
        BY <3>3 DEF BufferLine, LockInv
      <4> QED
        BY <2>2, <3>2, <3>3, <4>1 DEF BufferLine, Lines, Traces, Metrics
    <3>4. CASE AppendTrace(t)
      BY <2>2, <3>2, <3>4 DEF AppendTrace, Lines, Traces, Metrics
    <3>5. CASE MergeMetric(t)
      BY <2>2, <3>2, <3>5 DEF MergeMetric, Lines, Traces, Metrics
    <3> QED
      BY <1>3, <3>3, <3>4, <3>5
  <2>5. /\ Holds(Lines, {"User", "Debug"})' /\ Holds(Traces, {"Trace"})'
        /\ Holds(Metrics, {"Metric"})'
    <3>1. ASSUME NEW levels, NEW s \in Seq(MessageSet), Holds(s, levels)
          PROVE  LET r == IF Level(t) \in levels THEN Append(s, Message(t)) ELSE s
                 IN  /\ IsFiniteSet(Returned(levels)')
                     /\ ToSet(r) = Returned(levels)' /\ Len(r) = Cardinality(Returned(levels)')
      BY <2>1, <3>1, HoldsOneMore
    <3> QED
      BY <2>4, <3>1, LogTypes DEF KeptInv, Holds
  <2>6. stdout' = Lines'
    <3>1. CASE BufferLine(t)
      BY <2>4, <3>1 DEF BufferLine, LockInv, KeptInv
    <3>2. CASE AppendTrace(t) \/ MergeMetric(t)
      BY <2>2, <2>4, <3>2 DEF AppendTrace, MergeMetric, KeptInv
    <3> QED
      BY <1>3, <3>1, <3>2
  <2> QED
    BY <2>2, <2>5, <2>6 DEF KeptInv
<1>4. CASE ReadingStep \/ LockRead
  <2>1. \A levels : Returned(levels)' = Returned(levels)
    BY <1>4, ReadingKeeps DEF Returned
  <2> QED
    BY <1>4, <2>1, ReadingKeeps DEF KeptInv, Holds
<1>5. CASE Panic \/ UNCHANGED toolVars
  <2>1. UNCHANGED <<tpc, next, stdout, userAndDebugBuffer, trace, outputInfo, ret>>
    BY <1>5 DEF Panic, toolVars, bufferVars
  <2>2. /\ Lines' = Lines /\ Traces' = Traces /\ Metrics' = Metrics
        /\ \A levels : Returned(levels)' = Returned(levels)
        /\ \A t \in Thread : Message(t)' = Message(t)
    BY <2>1 DEF Lines, Traces, Metrics, Copied, Returned, Message
  <2> QED
    BY <2>1, <2>2 DEF KeptInv, Holds
<1> QED
  BY <1>1, <1>2, <1>3, <1>4, <1>5, ToolCases DEF ReadingStep

\* The info has all that the tool logged when ReadOutputInfo is done.
LEMMA ReportStep ==
    ASSUME BufferInv, LockInv, CopyInv, KeptInv, ReportInv, [ToolNext]_<<vars, toolVars>>
    PROVE  ReportInv'
<1>1. CASE ResetBuffers
  <2>1. /\ Copied /\ next[Tool] > Len(Calls[Tool]) /\ ret' = ret
        /\ ret.lines = userAndDebugBuffer /\ ret.traces = trace /\ ret.metrics = outputInfo
    BY <1>1 DEF ResetBuffers, CopyInv, LockInv, Copied
  <2>2. /\ ToSet(ret.lines) = Returned({"User", "Debug"})
        /\ ToSet(ret.traces) = Returned({"Trace"}) /\ ToSet(ret.metrics) = Returned({"Metric"})
    BY <2>1 DEF KeptInv, Holds, Lines, Traces, Metrics
  <2>3. ASSUME NEW i \in DOMAIN Calls[Tool]
        PROVE  \E levels \in {{"User", "Debug"}, {"Trace"}, {"Metric"}} :
                    <<Tool, i>> \in Returned(levels)
    <3>1. Calls[Tool][i] \in {"User", "Debug", "Trace", "Metric"}
      BY ThreadAssumption, CallsFact
    <3>2. i < next[Tool]
      <4>1. i \in 1..Len(Calls[Tool]) /\ Len(Calls[Tool]) \in Nat /\ next[Tool] \in Nat
        BY ThreadAssumption, CallsFact DEF BufferInv
      <4> QED
        BY <2>1, <4>1
    <3>3. \A levels : Calls[Tool][i] \in levels => <<Tool, i>> \in Returned(levels)
      BY <3>2, ThreadAssumption DEF Returned
    <3> QED
      BY <3>1, <3>3
  <2> QED
    BY <2>1, <2>2, <2>3 DEF ReportInv
<1>2. ASSUME NEW t \in Thread,
             LockCall(t) \/ PrintLine(t) \/ BufferLine(t) \/ AppendTrace(t) \/ MergeMetric(t)
      PROVE  ReportInv'
  BY <1>2 DEF LockCall, PrintLine, BufferLine, AppendTrace, MergeMetric, ReportInv
<1>3. CASE LockRead \/ BuildOutput \/ MergeOutput
  BY <1>3, ThreadAssumption DEF LockRead, BuildOutput, MergeOutput, LockInv, ReportInv
<1>4. CASE Panic \/ UNCHANGED toolVars
  BY <1>4 DEF Panic, toolVars, ReportInv
<1> QED
  BY <1>1, <1>2, <1>3, <1>4, ToolCases

\* The buffers, the output info that is read and the lines that were printed are
\* consistent whenever mutationLock is free.
LEMMA LogInvariant == ToolSpec => [](BufferInv /\ LockInv /\ CopyInv /\ KeptInv /\ ReportInv)
<1>1. ToolInit => KeptInv
  <2> SUFFICES ASSUME ToolInit PROVE KeptInv
    OBVIOUS
  <2>1. /\ ~Copied /\ Lines = <<>> /\ Traces = <<>> /\ Metrics = <<>> /\ stdout = <<>>
    BY ThreadAssumption DEF ToolInit, Copied, Lines, Traces, Metrics, Empty
  <2>2. \A levels : Returned(levels) = {}
    BY CallsFact DEF ToolInit, Returned
  <2>3. ToSet(<<>>) = {} /\ Len(<<>>) = 0
    BY DEF ToSet
  <2> QED
    BY <2>1, <2>2, <2>3, FS_EmptySet DEF KeptInv, Holds, ToolInit
<1>2. ToolInit => BufferInv /\ LockInv /\ CopyInv /\ KeptInv /\ ReportInv
  BY <1>1, ToolInitFact
<1>3. BufferInv /\ LockInv /\ CopyInv /\ KeptInv /\ ReportInv /\ [ToolNext]_<<vars, toolVars>>
        => (BufferInv /\ LockInv /\ CopyInv /\ KeptInv /\ ReportInv)'
  BY LockStep, CopyStep, KeptStep, ReportStep
<1> QED
  BY <1>2, <1>3, PTL DEF ToolSpec

\* Whatever the goroutines of a tool log, of whatever levels and in whatever order,
\* each call that has returned is once in the output info or in a buffer, the lines
\* in the order in which they were printed (ReadOutputInfo copies and resets under
\* mutationLock); and the final log of a tool has what it logged itself.
THEOREM NothingLoggedIsLost == ToolSpec => []LogsKept
<1>1. BufferInv /\ LockInv /\ CopyInv /\ KeptInv /\ ReportInv => LogsKept
  <2> SUFFICES ASSUME BufferInv, LockInv, CopyInv, KeptInv, ReportInv PROVE LogsKept
    OBVIOUS
  <2>1. ASSUME mutationLock = "nobody"
        PROVE  /\ ~Copied /\ stdout = Lines
    BY <2>1, ThreadAssumption DEF LockInv, Copied, KeptInv
  <2>2. ASSUME NEW x \in ToSet(ret.lines) \cup ToSet(ret.traces) \cup ToSet(ret.metrics)
        PROVE  x \in ToSet(ret.lines \o ret.traces \o ret.metrics)
    <3>1. /\ ret.lines \in Seq(MessageSet) /\ ret.traces \in Seq(MessageSet)
          /\ ret.metrics \in Seq(MessageSet)
      BY DEF BufferInv
    <3>2. ASSUME NEW r \in Seq(MessageSet), NEW s \in Seq(MessageSet)
          PROVE  r \o s \in Seq(MessageSet) /\ ToSet(r \o s) = ToSet(r) \cup ToSet(s)
      <4>1. /\ r \o s \in Seq(MessageSet)
            /\ Len(r \o s) = Len(r) + Len(s)
            /\ \A i \in 1..(Len(r) + Len(s)) :
                    (r \o s)[i] = IF i <= Len(r) THEN r[i] ELSE s[i - Len(r)]
        BY ConcatProperties
      <4>2. /\ DOMAIN r = 1..Len(r) /\ DOMAIN s = 1..Len(s) /\
                   DOMAIN (r \o s) = 1..(Len(r) + Len(s))
            /\ Len(r) \in Nat /\ Len(s) \in Nat
        BY <4>1
      <4>3. \A i \in DOMAIN r : i \in DOMAIN (r \o s) /\ (r \o s)[i] = r[i]
        BY <4>1, <4>2
      <4>4. \A i \in DOMAIN s : i + Len(r) \in DOMAIN (r \o s) /\ (r \o s)[i + Len(r)] = s[i]
        BY <4>1, <4>2
      <4>5. \A i \in DOMAIN (r \o s) : i \in DOMAIN r \/ i - Len(r) \in DOMAIN s
        BY <4>2
      <4>6. \A i \in DOMAIN (r \o s) : (r \o s)[i] \in ToSet(r) \cup ToSet(s)
        BY <4>1, <4>2, <4>5 DEF ToSet
      <4>7. \A y \in ToSet(r) : y \in ToSet(r \o s)
        BY <4>3 DEF ToSet
      <4>8. \A y \in ToSet(s) : y \in ToSet(r \o s)
        BY <4>4 DEF ToSet
      <4>9. \A y \in ToSet(r \o s) : y \in ToSet(r) \cup ToSet(s)
        BY <4>6 DEF ToSet
      <4> QED
        BY <4>1, <4>7, <4>8, <4>9
    <3>3. ToSet(ret.lines \o ret.traces) = ToSet(ret.lines) \cup ToSet(ret.traces)
          /\ ret.lines \o ret.traces \in Seq(MessageSet)
      BY <3>1, <3>2
    <3> QED
      BY <2>2, <3>1, <3>2, <3>3
  <2> QED
    BY <2>1, <2>2 DEF LogsKept, KeptInv, Holds, InOneOf, Lines, Traces, Metrics, ReportInv
<1> QED
  BY <1>1, LogInvariant, PTL

\* The variables of the logger and of the server logger have their types.
THEOREM ToolTypeCorrect == ToolSpec => []ToolTypeOK
<1>1. TypeOK /\ BufferInv => ToolTypeOK
  <2> SUFFICES ASSUME BufferInv
               PROVE  \A s \in {stdout, userAndDebugBuffer, trace, outputInfo,
                                ret.lines, ret.traces, ret.metrics} :
                        \A i \in DOMAIN s : s[i][1] \in Thread /\ s[i][2] \in DOMAIN Calls[s[i][1]]
    BY DEF ToolTypeOK, BufferInv
  <2>1. \A m \in MessageSet : m[1] \in Thread /\ m[2] \in DOMAIN Calls[m[1]]
    BY DEF MessageSet
  <2>2. \A s \in Seq(MessageSet) : \A i \in DOMAIN s : s[i] \in MessageSet
    OBVIOUS
  <2> QED
    BY <2>1, <2>2 DEF BufferInv
<1> QED
  BY <1>1, ToolIsServed, TypeCorrect, LogInvariant, PTL
=============================================================================
