---------------------------- MODULE ServerLogger ----------------------------
(***************************************************************************)
(* The usage log of the tools: RunWithServerLogging of                     *)
(* cli_tools/common/utils/logging/service.                                 *)
(*                                                                         *)
(* Run starts a goroutine that logs the start, runs the tool's function,   *)
(* updates the parameters, starts a goroutine that logs the end, and waits *)
(* for both.  The two goroutines send one at a time (logMutex), each up to *)
(* MaxRetry requests.  The parameters are shared by pointer: l.mutex is     *)
(* held while they are updated, but not while a request is marshalled, so   *)
(* that a request may carry what is being written.                         *)
(*                                                                         *)
(* The log server is external.  It answers as it likes, and may ask the     *)
(* client to wait before the next request; the HTTP client has a timeout.  *)
(***************************************************************************)
EXTENDS Integers, Sequences

CONSTANTS
    MaxRetry,  \* requests for one log: 3
    MaxWait,   \* cap of the wait the server may ask for: 5000 ms
    Waits,     \* waits the server asks for
    Updated    \* the shared parameters that this run of a tool sets

ASSUME RetryAssumption == MaxRetry \in Nat \ {0}
ASSUME WaitAssumption == MaxWait \in Nat /\ Waits \subseteq Nat

\* The parameters that change: CommonParams.Project and ObfuscatedProject, set
\* by updateParams for the tools that import and export, and InspectionResults,
\* set by getOutputInfo for the import of an image.
Project == 1
Obfuscated == 2
Inspection == 3
Param == {Project, Obfuscated, Inspection}

ASSUME UpdatedAssumption == Updated \subseteq Param

Log == {"start", "final"}

VARIABLES
    pc,       \* where Run is
    params,   \* l.Params: a field is torn while it is written
    lpc,      \* where each goroutine is
    holder,   \* who has logMutex
    attempt,  \* requests sent for each log
    payload,  \* the parameters of each log's last request, as far as read
    result,   \* the logResult of each log
    wait      \* nextRequestWaitMillis

runVars == <<pc, params>>
logVars == <<lpc, holder, attempt, payload, result>>
vars == <<runVars, logVars, wait>>

Init ==
    /\ pc = "function"
    /\ params = [f \in Param |-> "old"]
    /\ lpc = [l \in Log |-> IF l = "start" THEN "create" ELSE "none"]
    /\ holder = "nobody"
    /\ attempt = [l \in Log |-> 0]
    /\ payload = [l \in Log |-> <<>>]
    /\ result = [l \in Log |-> "none"]
    /\ wait = 0

(***************************************************************************)
(* Run.                                                                    *)
(***************************************************************************)

\* The function returns or panics: runWithRecovery.
FunctionEnds ==
    /\ pc = "function"
    /\ pc' = "update"
    /\ UNCHANGED <<params, logVars, wait>>

\* What is left to write of some fields.
Unwritten(fields) == {f \in fields \cap Updated : params[f] # "new"}

\* A string is two words, which an unsynchronized reader may see half written;
\* InspectionResults is a pointer.
WriteParam(f) ==
    params' = [params EXCEPT
        ![f] = IF @ = "old" /\ f # Inspection THEN "torn" ELSE "new"]

\* Mutant: only the project itself is updated.
UpdateProjectOnly ==
    /\ pc = "update"
    /\ \/ Unwritten({Project}) = {} /\ pc' = "spawn" /\ UNCHANGED params
       \/ Unwritten({Project}) # {} /\ WriteParam(Project) /\ UNCHANGED pc
    /\ UNCHANGED <<logVars, wait>>

\* updateParams, with l.mutex held: the project, then its hash.
UpdateParams ==
    LET todo == Unwritten({Project, Obfuscated})
    IN  /\ pc = "update"
        /\ \/ todo = {} /\ pc' = "spawn" /\ UNCHANGED params
           \/ /\ \E f \in todo : (\A g \in todo : f <= g) /\ WriteParam(f)
              /\ UNCHANGED pc
        /\ UNCHANGED <<logVars, wait>>

\* The second goroutine, for logSuccess or logFailure.
StartFinalLog ==
    /\ pc = "spawn"
    /\ pc' = "wait"
    /\ lpc' = [lpc EXCEPT !["final"] = "output"]
    /\ UNCHANGED <<params, holder, attempt, payload, result, wait>>

\* Mutant: Run waits for the final log only.
WaitForFinal ==
    /\ pc = "wait" /\ lpc["final"] = "over"
    /\ pc' = "returned"
    /\ UNCHANGED <<params, logVars, wait>>

\* wg.Wait() returns.
Wait ==
    /\ pc = "wait" /\ \A l \in Log : lpc[l] = "over"
    /\ pc' = "returned"
    /\ UNCHANGED <<params, logVars, wait>>

(***************************************************************************)
(* The goroutines.                                                         *)
(***************************************************************************)

\* getOutputInfo sets InspectionResults, without l.mutex.
GetOutputInfo ==
    /\ lpc["final"] = "output"
    /\ lpc' = [lpc EXCEPT !["final"] = "create"]
    /\ IF Inspection \in Updated THEN WriteParam(Inspection) ELSE UNCHANGED params
    /\ UNCHANGED <<pc, holder, attempt, payload, result, wait>>

\* createComputeImageToolsLogExtension takes l.mutex, and a pointer to Params.
Updating == pc = "update" /\ params[Project] # "old"
CreateExtension(l) ==
    /\ lpc[l] = "create" /\ ~Updating
    /\ lpc' = [lpc EXCEPT ![l] = "lock"]
    /\ UNCHANGED <<runVars, holder, attempt, payload, result, wait>>

Lock(l) ==
    /\ lpc[l] = "lock" /\ holder = "nobody"
    /\ holder' = l
    /\ lpc' = [lpc EXCEPT ![l] = "loop"]
    /\ UNCHANGED <<runVars, attempt, payload, result, wait>>

\* The deferred logMutex.Unlock() comes with every return.
Return(l, r) ==
    /\ result' = [result EXCEPT ![l] = r]
    /\ lpc' = [lpc EXCEPT ![l] = "over"]
    /\ holder' = "nobody"

\* Mutant: the loop counts from 0 to MaxRetry.
BeginAttemptOneMore(l) ==
    /\ lpc[l] = "loop"
    /\ IF attempt[l] > MaxRetry
       THEN Return(l, "failedAfterRetry") /\ UNCHANGED <<attempt, payload, wait>>
       ELSE /\ lpc' = [lpc EXCEPT ![l] = "marshal"]
            /\ attempt' = [attempt EXCEPT ![l] = @ + 1]
            /\ payload' = [payload EXCEPT ![l] = <<>>]
            /\ wait' = 0
            /\ UNCHANGED <<holder, result>>
    /\ UNCHANGED runVars

\* The head of the loop: nextRequestWaitMillis is cleared, then slept.
BeginAttempt(l) ==
    /\ lpc[l] = "loop"
    /\ IF attempt[l] = MaxRetry
       THEN Return(l, "failedAfterRetry") /\ UNCHANGED <<attempt, payload, wait>>
       ELSE /\ lpc' = [lpc EXCEPT ![l] = "marshal"]
            /\ attempt' = [attempt EXCEPT ![l] = @ + 1]
            /\ payload' = [payload EXCEPT ![l] = <<>>]
            /\ wait' = 0
            /\ UNCHANGED <<holder, result>>
    /\ UNCHANGED runVars

\* constructLogRequest reads the parameters one after the other.
MarshalParam(l) ==
    /\ lpc[l] = "marshal"
    /\ payload' = [payload EXCEPT ![l] = Append(@, params[Len(@) + 1])]
    /\ lpc' = [lpc EXCEPT ![l] = IF Len(payload[l]) = 2 THEN "post" ELSE @]
    /\ UNCHANGED <<runVars, holder, attempt, result, wait>>

\* A request that cannot be made is not tried again.
RequestNotMade(l) ==
    /\ lpc[l] = "post"
    /\ Return(l, "notMade")
    /\ UNCHANGED <<runVars, attempt, payload, wait>>

\* httpClient.Do fails, or times out: the next attempt.
RequestFails(l) ==
    /\ lpc[l] = "post"
    /\ lpc' = [lpc EXCEPT ![l] = "loop"]
    /\ UNCHANGED <<runVars, holder, attempt, payload, result, wait>>

\* A response that cannot be parsed ends the log.
Unparsable(l) ==
    /\ lpc[l] = "post"
    /\ Return(l, "failedToParse")
    /\ UNCHANGED <<runVars, attempt, payload, wait>>

\* Mutant: an undefined action leaves the mutex locked.
AnswerUnlockForgotten(l, action) ==
    CASE action = "retry" -> lpc' = [lpc EXCEPT ![l] = "loop"] /\ UNCHANGED <<holder, result>>
      [] action = "logged" -> Return(l, "logged")
      [] OTHER -> /\ lpc' = [lpc EXCEPT ![l] = "over"]
                  /\ result' = [result EXCEPT ![l] = "undefined"]
                  /\ UNCHANGED holder

\* The response action: log it again, or logged, or none that is defined.
Answer(l, action) ==
    CASE action = "retry"  -> lpc' = [lpc EXCEPT ![l] = "loop"] /\ UNCHANGED <<holder, result>>
      [] action = "logged" -> Return(l, "logged")
      [] OTHER             -> Return(l, "undefined")

Capped(ms) == IF ms > MaxWait THEN MaxWait ELSE ms

\* A parsable response: the wait it asks for, then its action.
Respond(l) ==
    /\ lpc[l] = "post"
    /\ \E ms \in Waits, action \in {"retry", "logged", "undefined"} :
        /\ wait' = IF ms > 0 THEN Capped(ms) ELSE wait
        /\ Answer(l, action)
    /\ UNCHANGED <<runVars, attempt, payload>>

(***************************************************************************)

RunStep == FunctionEnds \/ UpdateParams \/ StartFinalLog \/ Wait

LogStep(l) ==
    \/ CreateExtension(l) \/ Lock(l) \/ BeginAttempt(l) \/ MarshalParam(l)
    \/ RequestNotMade(l) \/ RequestFails(l) \/ Unparsable(l) \/ Respond(l)
    \/ l = "final" /\ GetOutputInfo

Terminating == pc = "returned" /\ UNCHANGED vars

Next == RunStep \/ (\E l \in Log : LogStep(l)) \/ Terminating

Spec == Init /\ [][Next]_vars

\* The goroutines run, the function returns, and requests time out.
FairSpec == Spec /\ WF_vars(RunStep) /\ \A l \in Log : WF_vars(LogStep(l))

(***************************************************************************)
(* Properties.                                                             *)
(***************************************************************************)

Values == {"old", "torn", "new"}
LogPC == {"none", "output", "create", "lock", "loop", "marshal", "post", "over"}

\* Types of the variables; a log takes at most MaxRetry requests.
TypeOK ==
    /\ pc \in {"function", "update", "spawn", "wait", "returned"}
    /\ params \in [Param -> Values]
    /\ lpc \in [Log -> LogPC]
    /\ holder \in Log \cup {"nobody"}
    /\ attempt \in [Log -> 0..MaxRetry]
    /\ payload \in [Log -> Seq(Values)]
    /\ \A l \in Log : Len(payload[l]) <= 3
    /\ result \in [Log -> {"none", "logged", "undefined", "notMade",
                           "failedToParse", "failedAfterRetry"}]
    /\ wait \in 0..MaxWait

\* Every request of the final log carries the parameters as the tool's function
\* left them, complete, in spite of the unsynchronized reads.
FinalLogIsCurrent ==
    lpc["final"] = "post" => \A f \in Updated : payload["final"][f] = "new"

\* Run does not return, and the tool does not exit, while a log is being sent.
NothingSentAfterReturn ==
    pc = "returned" => \A l \in Log : lpc[l] = "over" /\ result[l] # "none"

\* Logging never keeps a tool from ending, whatever the server answers.
Returns == <>(pc = "returned")

(***************************************************************************)
(* Inductive invariants.                                                   *)
(***************************************************************************)

\* How far a request has been marshalled.
PayloadInv ==
    \A l \in Log :
        /\ lpc[l] = "marshal" => Len(payload[l]) <= 2
        /\ lpc[l] = "post" => Len(payload[l]) = 3

\* The goroutine of the final log starts after updateParams and sets the
\* inspection results itself, before it reads any parameter.
CurrentInv ==
    /\ pc \in {"function", "update", "spawn"} => lpc["final"] = "none"
    /\ pc \in {"spawn", "wait", "returned"} => Unwritten({Project, Obfuscated}) = {}
    /\ lpc["final"] \notin {"none", "output"} => Unwritten(Param) = {}
    /\ lpc["final"] \in {"marshal", "post"} =>
        \A i \in 1..Len(payload["final"]) :
            i \in Updated => payload["final"][i] = "new"

\* A log that is over has its result, and Run returns after both.
OverInv ==
    /\ \A l \in Log : lpc[l] = "over" => result[l] # "none"
    /\ pc = "returned" => \A l \in Log : lpc[l] = "over"
=============================================================================
