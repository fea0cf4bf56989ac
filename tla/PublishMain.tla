----------------------------- MODULE PublishMain -----------------------------
(***************************************************************************)
(* main of gce_image_publish: running the workflows of an invocation.      *)
(*                                                                         *)
(* The workflows run at the same time.  Each has a goroutine that runs it, *)
(* which main waits for, and one that waits for Ctrl-C, which main does    *)
(* not wait for.  Errors go through one buffered channel with room for one *)
(* error of each workflow and the errors met before, and nobody receives   *)
(* until all the workflows have ended.  Daisy is external.                 *)
(***************************************************************************)
EXTENDS Integers, FiniteSets

CONSTANTS
    Workflow,    \* the workflows that may have been created
    LoadError    \* errors met while loading templates and creating workflows

ASSUME SetsAssumption == IsFiniteSet(Workflow) /\ IsFiniteSet(LoadError)

VARIABLES
    ws,        \* the workflows of this invocation
    errs,      \* the errors before they run
    pc,        \* where main is
    errors,    \* what is in the errors channel
    run,       \* the goroutine that runs each workflow
    failed,    \* the workflows whose Run returned an error
    watcher,   \* the goroutine that waits for Ctrl-C
    signal,    \* its os.Signal channel: not registered, empty or full
    cancelled, \* workflows whose Cancel channel is closed
    interrupted, \* Ctrl-C was typed after a workflow had registered for it
    outcome    \* how main ended

goroutines == <<run, failed, watcher, signal, cancelled>>
vars == <<ws, errs, pc, errors, goroutines, interrupted, outcome>>

\* An error in the channel: its kind and what it is about.
FromLoad(e)     == <<"load", e>>
FromRun(w)      == <<"run", w>>
FromWatcher(w)  == <<"watcher", w>>
FromValidate(w) == <<"validate", w>>

\* Mutant: the capacity does not count the errors met before.
CapacityOfRuns == Cardinality(ws)

Capacity == Cardinality(ws) + Cardinality(errs)
Full == Cardinality(errors) >= Capacity

Init ==
    /\ ws \in SUBSET Workflow /\ errs \in SUBSET LoadError
    /\ pc = "planned"
    /\ errors = {FromLoad(e) : e \in errs}
    /\ run = [w \in Workflow |-> "none"] /\ failed = {}
    /\ watcher = [w \in Workflow |-> "none"]
    /\ signal = [w \in Workflow |-> "off"]
    /\ cancelled = {} /\ interrupted = FALSE
    /\ outcome = "none"

(***************************************************************************)
(* main.                                                                   *)
(***************************************************************************)

Exit(how) == pc' = "exited" /\ outcome' = how

\* Nothing to do, or the workflows are printed only, or they are validated,
\* each with an error at most.
DryRun ==
    /\ pc = "planned"
    /\ pc' = "check"
    /\ \E invalid \in SUBSET ws : errors' = errors \cup {FromValidate(w) : w \in invalid}
    /\ UNCHANGED <<ws, errs, goroutines, interrupted, outcome>>

\* "Continue with publish?": a no ends main, whatever the errors so far.
Confirm ==
    /\ pc = "planned" /\ ws # {}
    /\ \/ pc' = "start" /\ UNCHANGED outcome
       \/ Exit("declined")
    /\ UNCHANGED <<ws, errs, errors, goroutines, interrupted>>

\* Mutant: the goroutines of workflows that were filtered out start too.
StartFiltered(w) ==
    /\ pc = "start" /\ run[w] = "none"
    /\ signal' = [signal EXCEPT ![w] = "empty"]
    /\ watcher' = [watcher EXCEPT ![w] = "waiting"]
    /\ run' = [run EXCEPT ![w] = "running"]
    /\ UNCHANGED <<ws, errs, pc, errors, failed, cancelled, interrupted, outcome>>

\* The loop over the workflows registers for Ctrl-C and starts two goroutines.
Start(w) ==
    /\ pc = "start" /\ w \in ws /\ run[w] = "none"
    /\ signal' = [signal EXCEPT ![w] = "empty"]
    /\ watcher' = [watcher EXCEPT ![w] = "waiting"]
    /\ run' = [run EXCEPT ![w] = "running"]
    /\ UNCHANGED <<ws, errs, pc, errors, failed, cancelled, interrupted, outcome>>

\* Mutant: main waits for a single workflow.
WaitForOne ==
    /\ pc = "start" /\ \A w \in ws : run[w] # "none"
    /\ \E w \in ws : run[w] = "over"
    /\ pc' = "check"
    /\ UNCHANGED <<ws, errs, errors, goroutines, interrupted, outcome>>

\* wg.Wait() returns.
Wait ==
    /\ pc = "start" /\ \A w \in ws : run[w] = "over"
    /\ pc' = "check"
    /\ UNCHANGED <<ws, errs, errors, goroutines, interrupted, outcome>>

\* checkError: an error in the channel makes main exit with 1.
CheckError ==
    /\ pc = "check"
    /\ Exit(IF errors = {} THEN "success" ELSE "errors")
    /\ UNCHANGED <<ws, errs, errors, goroutines, interrupted>>

(***************************************************************************)
(* The goroutines of a workflow.                                           *)
(***************************************************************************)

Alive == pc # "exited"

\* w.Run succeeds.
RunSucceeds(w) ==
    /\ Alive /\ run[w] = "running"
    /\ run' = [run EXCEPT ![w] = "over"]
    /\ UNCHANGED <<ws, errs, pc, errors, failed, watcher, signal, cancelled, interrupted, outcome>>

\* w.Run fails, on its own or cancelled; Daisy may close the Cancel channel.
RunFails(w) ==
    /\ Alive /\ run[w] = "running"
    /\ run' = [run EXCEPT ![w] = "sending"]
    /\ failed' = failed \cup {w}
    /\ cancelled' \in {cancelled, cancelled \cup {w}}
    /\ UNCHANGED <<ws, errs, pc, errors, watcher, signal, interrupted, outcome>>

\* errors <- err, then the deferred wg.Done().
SendRunError(w) ==
    /\ Alive /\ run[w] = "sending" /\ ~Full
    /\ run' = [run EXCEPT ![w] = "over"]
    /\ errors' = errors \cup {FromRun(w)}
    /\ UNCHANGED <<ws, errs, pc, failed, watcher, signal, cancelled, interrupted, outcome>>

\* Ctrl-C reaches every channel registered so far, whose room is one signal.
Interrupt ==
    /\ Alive /\ \E w \in Workflow : signal[w] = "empty"
    /\ signal' = [w \in Workflow |-> IF signal[w] = "off" THEN "off" ELSE "full"]
    /\ interrupted' = TRUE
    /\ UNCHANGED <<ws, errs, pc, errors, run, failed, watcher, cancelled, outcome>>

\* The select of the watcher: Ctrl-C cancels the workflow.
WatchSignal(w) ==
    /\ Alive /\ watcher[w] = "waiting" /\ signal[w] = "full"
    /\ watcher' = [watcher EXCEPT ![w] = "sending"]
    /\ signal' = [signal EXCEPT ![w] = "empty"]
    /\ cancelled' = cancelled \cup {w}
    /\ UNCHANGED <<ws, errs, pc, errors, run, failed, interrupted, outcome>>

WatchCancel(w) ==
    /\ Alive /\ watcher[w] = "waiting" /\ w \in cancelled
    /\ watcher' = [watcher EXCEPT ![w] = "over"]
    /\ UNCHANGED <<ws, errs, pc, errors, run, failed, signal, cancelled, interrupted, outcome>>

SendWatcherError(w) ==
    /\ Alive /\ watcher[w] = "sending" /\ ~Full
    /\ watcher' = [watcher EXCEPT ![w] = "over"]
    /\ errors' = errors \cup {FromWatcher(w)}
    /\ UNCHANGED <<ws, errs, pc, run, failed, signal, cancelled, interrupted, outcome>>

(***************************************************************************)

MainStep ==
    \/ DryRun \/ Confirm \/ Wait \/ CheckError
    \/ \E w \in Workflow : Start(w)

RunStep(w) == RunSucceeds(w) \/ RunFails(w) \/ SendRunError(w)

Watch(w) == WatchSignal(w) \/ WatchCancel(w) \/ SendWatcherError(w)

Terminating == pc = "exited" /\ UNCHANGED vars

Next ==
    \/ MainStep \/ Interrupt \/ Terminating
    \/ \E w \in Workflow : RunStep(w) \/ Watch(w)

Spec == Init /\ [][Next]_vars

\* The goroutines run, and Daisy's timeouts end every workflow.
FairSpec ==
    /\ Spec
    /\ WF_vars(MainStep)
    /\ \A w \in Workflow : WF_vars(RunStep(w)) /\ WF_vars(Watch(w))

(***************************************************************************)
(* Properties.                                                             *)
(***************************************************************************)

Error == {"load"} \X LoadError \cup {"run", "watcher", "validate"} \X Workflow

\* Types of the variables; only the workflows of the invocation run.
TypeOK ==
    /\ ws \subseteq Workflow /\ errs \subseteq LoadError
    /\ pc \in {"planned", "start", "check", "exited"}
    /\ errors \subseteq Error
    /\ run \in [Workflow -> {"none", "running", "sending", "over"}]
    /\ failed \subseteq ws
    /\ watcher \in [Workflow -> {"none", "waiting", "sending", "over"}]
    /\ signal \in [Workflow -> {"off", "empty", "full"}]
    /\ \A w \in Workflow \ ws : run[w] = "none" /\ watcher[w] = "none"
    /\ cancelled \subseteq ws /\ interrupted \in BOOLEAN
    /\ outcome \in {"none", "declined", "success", "errors"}

\* "Workflows completed successfully" is printed, with exit status 0, only when
\* every workflow has ended without an error and no template was skipped
\* because of one, whenever Ctrl-C is typed.
SuccessIsComplete ==
    outcome = "success" =>
        /\ errs = {} /\ failed = {}
        /\ \A w \in ws : run[w] \in {"none", "over"}

\* Without Ctrl-C the channel has room for every error, so that no goroutine
\* that main waits for ever blocks on it.
RoomForEveryError ==
    ~interrupted => \A w \in ws : run[w] = "sending" => ~Full

\* Main ends once the workflows have, unless Ctrl-C was typed.
Terminates == <>(pc = "exited" \/ interrupted)

(***************************************************************************)
(* Inductive invariants.                                                   *)
(***************************************************************************)

\* An error is in the channel from the end of its goroutine on, so that an empty
\* channel at the end means that there was none.
SentInv ==
    /\ pc = "planned" => \A w \in Workflow : run[w] = "none"
    /\ \A e \in errs : FromLoad(e) \in errors
    /\ \A w \in failed : run[w] \in {"sending", "over"}
    /\ \A w \in failed : run[w] = "over" => FromRun(w) \in errors
    /\ pc # "start" => \A w \in ws : run[w] \in {"none", "over"}
    /\ outcome = "success" => pc = "exited"
    /\ SuccessIsComplete

\* Without Ctrl-C only one error of each workflow is ever sent.
RoomInv ==
    ~interrupted =>
        /\ \A w \in Workflow : signal[w] # "full" /\ watcher[w] # "sending"
        /\ pc \in {"planned", "start"} =>
            errors \subseteq {FromLoad(e) : e \in errs}
                             \cup {FromRun(w) : w \in {v \in ws : run[v] = "over"}}
=============================================================================
