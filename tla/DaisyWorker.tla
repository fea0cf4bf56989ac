----------------------------- MODULE DaisyWorker -----------------------------
(***************************************************************************)
(* Running a Daisy workflow: defaultDaisyWorker of                         *)
(* cli_tools/common/utils/daisyutils, with its hooks, its one retry on     *)
(* insufficient SSD quota, and its two ways to be cancelled, Cancel(reason) *)
(* and Ctrl-C.                                                             *)
(*                                                                         *)
(* Four kinds of processes run: the caller of Run, the caller of Cancel,   *)
(* the user at the keyboard, and for each attempt the goroutine of         *)
(* RunWorkflowWithCancelSignal, which nothing stops when the workflow ends *)
(* by itself.  The Daisy engine is external: Workflow.Run ends with some   *)
(* result at some time, and soon once the workflow is cancelled.           *)
(***************************************************************************)
EXTENDS Integers

CONSTANT Errors  \* how a workflow may fail by itself

ASSUME ErrorsAssumption == Errors \subseteq {"quota", "other"}

Attempt == {0, 1}

VARIABLES
    pc,           \* where Run is
    attempt,      \* attempts of its loop
    result,       \* result of the current attempt, of Run when pc = "done"
    fallback,     \* shouldFallback of FallbackToPDStandard
    disks,        \* disk types of the workflow of each attempt
    stopped,      \* how each workflow has been cancelled: its Cancel channel
    watcher,      \* the goroutine of each attempt
    signals,      \* its os.Signal channel: not registered, empty or full
    buffered,     \* a reason is in the worker's cancel channel
    closed,       \* that channel is closed
    canceller,    \* where the first call of Cancel is
    interrupted   \* Ctrl-C has been typed

runVars == <<pc, attempt, result, fallback, disks>>
cancelVars == <<buffered, closed, canceller>>
vars == <<runVars, stopped, watcher, signals, cancelVars, interrupted>>

Init ==
    /\ pc = "provide" /\ attempt = 0 /\ result = "none"
    /\ fallback = FALSE
    /\ disks = [a \in Attempt |-> "none"]
    /\ stopped = [a \in Attempt |-> "no"]
    /\ watcher = [a \in Attempt |-> "none"]
    /\ signals = [a \in Attempt |-> "off"]
    /\ buffered = FALSE /\ closed = FALSE /\ canceller = "idle"
    /\ interrupted = FALSE

(***************************************************************************)
(* Run.                                                                    *)
(***************************************************************************)

Finish(r) == pc' = "done" /\ result' = r /\ UNCHANGED attempt

\* workflowProvider()
Provide ==
    /\ pc = "provide"
    /\ \/ pc' = "check" /\ UNCHANGED <<attempt, result>>
       \/ Finish("noWorkflow")
    /\ UNCHANGED <<fallback, disks, stopped, watcher, signals, cancelVars, interrupted>>

\* checkIfCancelled: a non-blocking receive, which takes the reason away.
CheckIfCancelled ==
    /\ pc = "check"
    /\ IF buffered \/ closed \/ stopped[attempt] # "no"
       THEN Finish(IF buffered THEN "cancelledWithReason" ELSE "cancelled")
       ELSE pc' = "prepare" /\ UNCHANGED <<attempt, result>>
    /\ buffered' = FALSE
    /\ UNCHANGED <<fallback, disks, stopped, watcher, signals, closed, canceller, interrupted>>

\* The variables and the PreRunHooks are applied to the new workflow; any of
\* them may reject it.
PreRunHooks ==
    /\ pc = "prepare"
    /\ \/ /\ disks' = [disks EXCEPT ![attempt] = IF fallback THEN "standard" ELSE "asWritten"]
          /\ pc' = "start"
          /\ UNCHANGED <<attempt, result>>
       \/ Finish("hookFailed") /\ UNCHANGED disks
    /\ UNCHANGED <<fallback, stopped, watcher, signals, cancelVars, interrupted>>

\* RunWorkflowWithCancelSignal: register for Ctrl-C, start the goroutine, run.
StartRun ==
    /\ pc = "start"
    /\ pc' = "run"
    /\ signals' = [signals EXCEPT ![attempt] = "empty"]
    /\ watcher' = [watcher EXCEPT ![attempt] = "waiting"]
    /\ UNCHANGED <<attempt, result, fallback, disks, stopped, cancelVars, interrupted>>

\* Workflow.Run returns, by itself or because it was cancelled.  A workflow may
\* still end by itself after the cancellation, and Daisy may close the Cancel
\* channel of one that failed.
RunFails ==
    /\ pc = "run"
    /\ pc' = "post"
    /\ result' \in Errors
    /\ \/ UNCHANGED stopped
       \/ /\ stopped[attempt] = "no"
          /\ stopped' = [stopped EXCEPT ![attempt] = "byDaisy"]
    /\ UNCHANGED <<attempt, fallback, disks, watcher, signals, cancelVars, interrupted>>

RunSucceeds ==
    /\ pc = "run"
    /\ Finish("success")
    /\ UNCHANGED <<fallback, disks, stopped, watcher, signals, cancelVars, interrupted>>

RunCancelled ==
    /\ pc = "run" /\ stopped[attempt] # "no"
    /\ pc' = "post"
    /\ result' = IF stopped[attempt] = "withReason" THEN "cancelledWithReason"
                                                    ELSE "cancelled"
    /\ UNCHANGED <<attempt, fallback, disks, stopped, watcher, signals, cancelVars, interrupted>>

\* Mutant: the retry is not remembered or bounded.
PostRunHooksUnbounded ==
    /\ pc = "post"
    /\ IF result = "quota"
       THEN pc' = "provide" /\ attempt' = attempt + 1 /\ UNCHANGED result
       ELSE Finish(result)
    /\ UNCHANGED <<fallback, disks, stopped, watcher, signals, cancelVars, interrupted>>

\* The PostRunHooks after a failure: FallbackToPDStandard asks for one retry if
\* the error names the SSD quota.
PostRunHooks ==
    /\ pc = "post"
    /\ fallback' = (fallback \/ result = "quota")
    /\ IF ~fallback /\ result = "quota" /\ attempt = 0
       THEN pc' = "provide" /\ attempt' = 1 /\ UNCHANGED result
       ELSE Finish(result)
    /\ UNCHANGED <<disks, stopped, watcher, signals, cancelVars, interrupted>>

(***************************************************************************)
(* Cancel(reason): cancelGuard lets only the first call through.           *)
(***************************************************************************)

CancelSend ==
    /\ pc # "killed" /\ canceller = "idle"
    /\ canceller' = "sent"
    /\ buffered' = TRUE
    /\ UNCHANGED <<runVars, stopped, watcher, signals, closed, interrupted>>

\* Mutant: the channel stays open.
CancelLeavesOpen ==
    /\ pc # "killed" /\ canceller = "sent"
    /\ canceller' = "returned"
    /\ UNCHANGED <<runVars, stopped, watcher, signals, buffered, closed, interrupted>>

CancelClose ==
    /\ pc # "killed" /\ canceller = "sent"
    /\ canceller' = "returned"
    /\ closed' = TRUE
    /\ UNCHANGED <<runVars, stopped, watcher, signals, buffered, interrupted>>

(***************************************************************************)
(* Ctrl-C: every registered channel gets the signal; with none registered  *)
(* the process dies.                                                       *)
(***************************************************************************)

Interrupt ==
    /\ ~interrupted /\ pc # "killed"
    /\ interrupted' = TRUE
    /\ signals' = [a \in Attempt |-> IF signals[a] = "off" THEN "off" ELSE "full"]
    /\ pc' = IF \A a \in Attempt : signals[a] = "off" THEN "killed" ELSE pc
    /\ UNCHANGED <<attempt, result, fallback, disks, stopped, watcher, cancelVars>>

(***************************************************************************)
(* The goroutine of an attempt takes the first of its three events.        *)
(***************************************************************************)

\* w.CancelWorkflow() or w.CancelWithReason(reason): the first one counts.
StopWorkflow(a, how) ==
    stopped' = [stopped EXCEPT ![a] = IF @ = "no" THEN how ELSE @]

\* Mutant: the goroutine takes the signal without cancelling the workflow.
WatchSignalDropped(a) ==
    /\ pc # "killed" /\ watcher[a] = "waiting" /\ signals[a] = "full"
    /\ watcher' = [watcher EXCEPT ![a] = "over"]
    /\ signals' = [signals EXCEPT ![a] = "empty"]
    /\ UNCHANGED <<runVars, stopped, cancelVars, interrupted>>

WatchSignal(a) ==
    /\ pc # "killed" /\ watcher[a] = "waiting" /\ signals[a] = "full"
    /\ watcher' = [watcher EXCEPT ![a] = "over"]
    /\ signals' = [signals EXCEPT ![a] = "empty"]
    /\ StopWorkflow(a, "plain")
    /\ UNCHANGED <<runVars, cancelVars, interrupted>>

\* Mutant: the reason is read and dropped.
WatchCancelNoReason(a) ==
    /\ pc # "killed" /\ watcher[a] = "waiting" /\ (buffered \/ closed)
    /\ watcher' = [watcher EXCEPT ![a] = "over"]
    /\ buffered' = FALSE
    /\ StopWorkflow(a, "plain")
    /\ UNCHANGED <<runVars, signals, closed, canceller, interrupted>>

\* A receive from the cancel channel: the reason, or "" from the closed channel.
WatchCancel(a) ==
    /\ pc # "killed" /\ watcher[a] = "waiting" /\ (buffered \/ closed)
    /\ watcher' = [watcher EXCEPT ![a] = "over"]
    /\ buffered' = FALSE
    /\ StopWorkflow(a, IF buffered THEN "withReason" ELSE "plain")
    /\ UNCHANGED <<runVars, signals, closed, canceller, interrupted>>

\* The workflow's own Cancel channel is closed.
WatchWorkflow(a) ==
    /\ pc # "killed" /\ watcher[a] = "waiting" /\ stopped[a] # "no"
    /\ watcher' = [watcher EXCEPT ![a] = "over"]
    /\ UNCHANGED <<runVars, stopped, signals, cancelVars, interrupted>>

(***************************************************************************)

RunStep ==
    \/ Provide \/ CheckIfCancelled \/ PreRunHooks \/ StartRun
    \/ RunCancelled \/ PostRunHooks

Daisy == RunFails \/ RunSucceeds

Watch(a) == WatchSignal(a) \/ WatchCancel(a) \/ WatchWorkflow(a)

\* Run has returned, or the process was killed.
Over == pc \in {"done", "killed"}
Terminating == Over /\ UNCHANGED vars

Next ==
    \/ RunStep \/ Daisy
    \/ CancelSend \/ CancelClose \/ Interrupt
    \/ \E a \in Attempt : Watch(a)
    \/ Terminating

Spec == Init /\ [][Next]_vars

\* The goroutines get to run.  Nothing makes a workflow end by itself.
FairSpec ==
    /\ Spec
    /\ WF_vars(RunStep)
    /\ WF_vars(CancelClose)
    /\ \A a \in Attempt : WF_vars(Watch(a))

(***************************************************************************)
(* Properties.                                                             *)
(***************************************************************************)

Results == {"none", "noWorkflow", "hookFailed", "success", "quota", "other",
            "cancelled", "cancelledWithReason"}

\* Types of the variables.
TypeOK ==
    /\ pc \in {"provide", "check", "prepare", "start", "run", "post", "done",
               "killed"}
    /\ attempt \in Attempt
    /\ result \in Results
    /\ fallback \in BOOLEAN
    /\ disks \in [Attempt -> {"none", "asWritten", "standard"}]
    /\ stopped \in [Attempt -> {"no", "plain", "withReason", "byDaisy"}]
    /\ watcher \in [Attempt -> {"none", "waiting", "over"}]
    /\ signals \in [Attempt -> {"off", "empty", "full"}]
    /\ buffered \in BOOLEAN
    /\ closed \in BOOLEAN
    /\ canceller \in {"idle", "sent", "returned"}
    /\ interrupted \in BOOLEAN

\* After Cancel has returned, Run returns too, however long its workflow would
\* take: a goroutine left over from the first attempt may take the reason, but
\* the closed channel still reaches the running workflow.
CancelEndsRun == canceller = "returned" ~> Over

\* A second attempt happens only with standard disks, after the first one ran
\* with the disks of the workflow as written.
RetryIsFallback ==
    attempt = 1 /\ pc \in {"start", "run", "post"} =>
        disks = [a \in Attempt |-> IF a = 0 THEN "asWritten" ELSE "standard"]

\* The reason passed to Cancel gets into the error of Run, when Cancel is what
\* ended it and there was a single attempt.
ReasonReported ==
    pc = "done" /\ result = "cancelled" => attempt = 1 \/ interrupted

\* Ctrl-C typed while an attempt runs ends Run, or that attempt failed first and
\* another one follows.  A Ctrl-C between the attempts, or one that the first
\* goroutine takes too late, does not stop the second attempt.
InterruptEndsAttempt ==
    \A a \in Attempt : (attempt = a /\ signals[a] = "full") ~> (Over \/ attempt # a)

(***************************************************************************)
(* Inductive invariants.                                                   *)
(***************************************************************************)

\* fallback records that the one retry has been used, and selects the disks.
FallbackInv ==
    /\ attempt = 0 /\ fallback => pc \in {"done", "killed"}
    /\ attempt = 1 => fallback /\ disks[0] = "asWritten"
    /\ pc \in {"start", "run", "post"} =>
        disks[attempt] = IF attempt = 0 THEN "asWritten" ELSE "standard"

\* During the first attempt the reason is in the channel until Run or the
\* goroutine of that attempt takes it: nobody else receives.
ReasonInv ==
    /\ \A a \in Attempt : signals[a] = "full" => interrupted
    /\ closed => canceller = "returned"
    /\ attempt = 0 => watcher[1] = "none"
    /\ attempt = 0 /\ pc \in {"provide", "check", "prepare", "start"} =>
        /\ watcher[0] = "none" /\ stopped[0] = "no"
        /\ canceller # "idle" => buffered
    /\ attempt = 0 /\ pc = "run" /\ ~interrupted =>
        \/ stopped[0] = "withReason"
        \/ /\ watcher[0] = "waiting" /\ stopped[0] = "no"
           /\ canceller # "idle" => buffered
    /\ attempt = 0 /\ pc \in {"post", "done"} /\ ~interrupted => result # "cancelled"
=============================================================================
