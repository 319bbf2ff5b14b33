----------------------------- MODULE RuntimeLoop ------------------------------
(****************************************************************************)
(* The guided loop: a command plans the pending hook of a run, runs an       *)
(* external program on it with a deadline and a cancellation token, keeps    *)
(* the callback it prints as a file, and submits the file to the bridge.     *)
(*                                                                          *)
(* The run is reduced to the turn that waits for an answer; BridgeRuns has   *)
(* the bridge itself.  The external program may do anything, or nothing.     *)
(****************************************************************************)
EXTENDS Naturals, FiniteSets

CONSTANTS
  Loops,                \* commands of the CLI, each of which executes one hook
  Turns,                \* bound: turns of the run, 1..Turns
  CallbackIds,          \* ids that the program gives its callbacks
  Outputs,              \* bound: sets of faults that its output may have
  NoPlan

ASSUME TurnsAssumption == Turns \in Nat

\* What may be wrong with what the program printed; the order is that of the checks.
OutputFaults ==
  {"nonzero_exit", "output_too_large", "malformed_json", "malformed_capabilities",
   "capability_mismatch", "malformed_binding"}

VARIABLES
  run,                  \* the run: its pending turn and whether it takes callbacks
  claimed,              \* callbacks (turn and id) that the bridge has claimed
  artifacts,            \* runtime_*.json in hermes/callbacks
  loop,                 \* what each command is doing
  child,                \* the process each command started
  late,                 \* commands whose deadline has passed
  token,                \* commands whose cancellation token is set
  result,               \* what each command last returned
  did                   \* what its execution did, as it was

loopVars == <<run, claimed, artifacts, loop, child, late, token, result, did>>

Phases == {"prep", "open", "interrupted", "finished"}
Quiet == [at |-> "new", plan |-> NoPlan, answer |-> NoPlan, why |-> "none"]
Returned == [Quiet EXCEPT !.at = "idle"]
AtRest(p) == loop[p].at \in {"new", "idle", "dead"}
Nothing == {}           \* of "started", "wrote", "ingested", "unmarked"
NoResult == [status |-> "none", started |-> FALSE, file |-> FALSE, submission |-> FALSE]

OnLoop(p, place) == loop[p].at = place
Alive(p) == child[p].state \in {"running", "terminated"}
NoChild == [state |-> "none", deaf |-> FALSE, faults |-> {}, id |-> NoPlan]

\* bridge.next: there is a hook only while the run waits for a callback.
HasHook == run.phase = "open" /\ run.turn <= Turns

\* Token and deadline are looked at until the process is stopped or has exited.
Forget(p) == late' = late \ {p} /\ token' = token \ {p}

\* execute returns.
Return(p, status, started, file, submission) ==
  /\ loop' = [loop EXCEPT ![p] = Returned]
  /\ Forget(p)
  /\ result' = [result EXCEPT ![p] = [status |-> status, started |-> started,
                                      file |-> file, submission |-> submission]]

\* execute raises.
Raise(p) ==
  /\ loop' = [loop EXCEPT ![p] = Returned]
  /\ Forget(p)
  /\ UNCHANGED result

Step(p, place) == loop' = [loop EXCEPT ![p].at = place]
Did(p, what) == did' = [did EXCEPT ![p] = @ \cup what]

------------------------------------------------------------------------------
(* Planning *)

\* dispatch_plan: reads the run and starts nothing.  Without a hook it raises
\* PrepReviewRequiredError or NoExecutableHookError.
DispatchPlan(p) ==
  /\ OnLoop(p, "new")
  /\ HasHook
  /\ loop' = [loop EXCEPT ![p].at = "planned", ![p].plan = run.turn]
  /\ UNCHANGED <<run, claimed, artifacts, child, late, token, result, did>>

\* _assert_plan_is_current: the author has reviewed the plan in between.
AssertCurrent(p) ==
  /\ OnLoop(p, "planned")
  /\ IF HasHook /\ run.turn = loop[p].plan
     THEN Step(p, "launch") /\ UNCHANGED <<late, token, result>>
     ELSE Raise(p)
  /\ UNCHANGED <<run, claimed, artifacts, child, did>>

------------------------------------------------------------------------------
(* StdioRuntimeAdapter.execute *)

NotStarted(p) ==
  /\ OnLoop(p, "launch")
  /\ IF p \in token THEN Return(p, "cancelled", FALSE, FALSE, FALSE)
     ELSE \E status \in {"no_runtime", "launch_failed"} :
            Return(p, status, FALSE, FALSE, FALSE)
  /\ UNCHANGED <<run, claimed, artifacts, child, did>>

\* The child may turn out not to heed SIGTERM.
Launch(p, deaf) ==
  /\ OnLoop(p, "launch") /\ p \notin token
  /\ child' = [child EXCEPT ![p] = [NoChild EXCEPT !.state = "running", !.deaf = deaf]]
  /\ Did(p, {"started"})
  /\ Step(p, "poll")
  /\ UNCHANGED <<run, claimed, artifacts, late, token, result>>

\* A faulty poll, for the checks to reject: the deadline is not looked at.
PollToken(p) ==
  /\ OnLoop(p, "poll")
  /\ IF p \in token
     THEN loop' = [loop EXCEPT ![p].at = "terminate", ![p].why = "cancelled"]
     ELSE Step(p, "wait")
  /\ UNCHANGED <<run, claimed, artifacts, child, late, token, result, did>>

\* communicate_process, the top of its loop: token, then deadline.
Poll(p) ==
  /\ OnLoop(p, "poll")
  /\ loop' = [loop EXCEPT ![p].at = IF p \in token \cup late THEN "terminate" ELSE "wait",
                          ![p].why = IF p \in token THEN "cancelled"
                                     ELSE IF p \in late THEN "timeout" ELSE "none"]
  /\ UNCHANGED <<run, claimed, artifacts, child, late, token, result, did>>

\* process.communicate: the output, or TimeoutExpired after a slice of 0.05 s (of
\* the whole rest of the time when there is no token).
Wait(p) ==
  /\ OnLoop(p, "wait")
  /\ IF child[p].state = "exited"
     THEN Step(p, "read") /\ Forget(p)
     ELSE Step(p, "poll") /\ UNCHANGED <<late, token>>
  /\ UNCHANGED <<run, claimed, artifacts, child, result, did>>

\* Output that is no UTF-8, or a pipe that breaks: the process is stopped as well.
WaitFails(p, why) ==
  /\ OnLoop(p, "wait")
  /\ loop' = [loop EXCEPT ![p].at = "terminate", ![p].why = why]
  /\ UNCHANGED <<run, claimed, artifacts, child, late, token, result, did>>

\* terminate_process: SIGTERM, unless the process has exited by itself.
Terminate(p) ==
  /\ OnLoop(p, "terminate")
  /\ child' = [child EXCEPT ![p].state = IF @ = "running" THEN "terminated" ELSE @]
  /\ Step(p, "reap")
  /\ Forget(p)
  /\ UNCHANGED <<run, claimed, artifacts, result, did>>

\* The process has exited, after SIGTERM or by itself.
Reap(p) ==
  /\ OnLoop(p, "reap") /\ child[p].state = "exited"
  /\ child' = [child EXCEPT ![p] = NoChild]
  /\ Return(p, loop[p].why, TRUE, FALSE, FALSE)
  /\ UNCHANGED <<run, claimed, artifacts, did>>

\* A faulty end, for the checks to reject: SIGTERM must do.
LeaveAlive(p) ==
  /\ OnLoop(p, "reap") /\ Alive(p)
  /\ Return(p, loop[p].why, TRUE, FALSE, FALSE)
  /\ UNCHANGED <<run, claimed, artifacts, child, did>>

\* It has not exited within half a second: SIGKILL.
Kill(p) ==
  /\ OnLoop(p, "reap") /\ Alive(p)
  /\ child' = [child EXCEPT ![p] = NoChild]
  /\ Return(p, loop[p].why, TRUE, FALSE, FALSE)
  /\ UNCHANGED <<run, claimed, artifacts, did>>

\* The status execute gives an output: the first thing that is wrong with it.
StatusOf(faults) ==
  CASE "nonzero_exit" \in faults           -> "nonzero_exit"
    [] "output_too_large" \in faults       -> "output_too_large"
    [] "malformed_json" \in faults         -> "malformed_json"
    [] "malformed_capabilities" \in faults -> "malformed_callback"
    [] "capability_mismatch" \in faults    -> "capability_mismatch"
    [] "malformed_binding" \in faults      -> "malformed_callback"
    [] OTHER                               -> "completed"

ReadOutput(p) ==
  /\ OnLoop(p, "read")
  /\ child' = [child EXCEPT ![p] = NoChild]
  /\ LET status == StatusOf(child[p].faults)
     IN  IF status = "completed"
         THEN /\ loop' = [loop EXCEPT ![p].at = "check_file", ![p].answer = child[p].id]
              /\ UNCHANGED <<late, token, result>>
         ELSE Return(p, status, TRUE, FALSE, FALSE)
  /\ UNCHANGED <<run, claimed, artifacts, did>>

------------------------------------------------------------------------------
(* The callback *)

\* _callback_path: run, turn, callback id and dispatch, hashed.
Artifact(p) == <<loop[p].plan, loop[p].answer>>

CheckFile(p) ==
  /\ OnLoop(p, "check_file")
  /\ IF Artifact(p) \in artifacts
     THEN Return(p, "callback_artifact_exists", TRUE, TRUE, FALSE)
     ELSE Step(p, "write") /\ UNCHANGED <<late, token, result>>
  /\ UNCHANGED <<run, claimed, artifacts, child, did>>

\* atomic_write_json replaces a file that appeared since it was checked for.
WriteFile(p) ==
  /\ OnLoop(p, "write")
  /\ artifacts' = artifacts \cup {Artifact(p)}
  /\ Did(p, {"wrote"})
  /\ Step(p, "submit")
  /\ UNCHANGED <<run, claimed, child, late, token, result>>

\* A faulty failure, for the checks to reject: it names the file all the same.
WriteFailsWithFile(p) ==
  /\ OnLoop(p, "write")
  /\ Return(p, "callback_write_failed", TRUE, TRUE, FALSE)
  /\ UNCHANGED <<run, claimed, artifacts, child, did>>

WriteFails(p) ==
  /\ OnLoop(p, "write")
  /\ Return(p, "callback_write_failed", TRUE, FALSE, FALSE)
  /\ UNCHANGED <<run, claimed, artifacts, child, did>>

\* submit: the run takes callbacks, this one answers its pending turn and is new.
Ingestible(p) ==
  /\ run.phase = "open" /\ run.turn = loop[p].plan
  /\ Artifact(p) \notin claimed

\* The bridge refuses it with a ValueError, before it claims anything.
IngestFailed(p) ==
  /\ OnLoop(p, "submit") /\ ~Ingestible(p)
  /\ Return(p, "ingest_failed", TRUE, TRUE, FALSE)
  /\ UNCHANGED <<run, claimed, artifacts, child, did>>

Claim(p) ==
  /\ OnLoop(p, "submit") /\ Ingestible(p)
  /\ claimed' = claimed \cup {Artifact(p)}

\* Accepted: the next turn, or the end; rejected: the same turn, or the retry limit.
Save(accepted) ==
  \/ run' = [run EXCEPT !.turn = IF accepted THEN @ + 1 ELSE @]
  \/ ~accepted /\ run' = [run EXCEPT !.phase = "finished"]

Submitted(p, accepted) ==
  /\ Claim(p) /\ Save(accepted)
  /\ Did(p, {"ingested"})
  /\ Return(p, IF accepted THEN "submitted" ELSE "callback_rejected", TRUE, TRUE, TRUE)
  /\ UNCHANGED <<artifacts, child>>

\* After the claim the save may still fail.  An illegal transition is a ValueError and a
\* report that cannot be written an OSError; ConcurrentRunUpdateError is neither, and escapes.
SaveFails(p) ==
  /\ Claim(p)
  /\ Return(p, "ingest_failed", TRUE, TRUE, FALSE) \/ Raise(p)
  /\ UNCHANGED <<run, artifacts, child, did>>

\* And what follows the save: ProjectionWriteError escapes, but the OSError of the marker
\* .wsa_bridge, written last, is taken for a submission that failed.
MarkerFails(p, accepted) ==
  /\ Claim(p) /\ Save(accepted)
  /\ \/ Raise(p) /\ Did(p, {"ingested"})
     \/ Return(p, "ingest_failed", TRUE, TRUE, FALSE) /\ Did(p, {"ingested", "unmarked"})
  /\ UNCHANGED <<artifacts, child>>

------------------------------------------------------------------------------
(* Everything else *)

\* The program exits by itself, or because of SIGTERM.
ChildExits(p, faults, id) ==
  /\ child[p].state = "running"
  /\ child' = [child EXCEPT ![p].state = "exited", ![p].faults = faults, ![p].id = id]
  /\ UNCHANGED <<run, claimed, artifacts, loop, late, token, result, did>>

ChildHeeds(p) ==
  /\ child[p].state = "terminated" /\ ~child[p].deaf
  /\ child' = [child EXCEPT ![p].state = "exited"]
  /\ UNCHANGED <<run, claimed, artifacts, loop, late, token, result, did>>

DeadlinePasses(p) ==
  /\ loop[p].at \in {"poll", "wait"} /\ p \notin late
  /\ late' = late \cup {p}
  /\ UNCHANGED <<run, claimed, artifacts, loop, child, token, result, did>>

Cancel(p) ==
  /\ loop[p].at \in {"planned", "launch", "poll", "wait"} /\ p \notin token
  /\ token' = token \cup {p}
  /\ UNCHANGED <<run, claimed, artifacts, loop, child, late, result, did>>

\* Another command: prep approval, interrupt, resume, or a callback of its own.
OtherCommand ==
  /\ \/ run.phase = "prep" /\ run' = [run EXCEPT !.phase = "open"]
     \/ run.phase = "open" /\ run' = [run EXCEPT !.phase = "interrupted"]
     \/ run.phase = "interrupted" /\ run' = [run EXCEPT !.phase = "open"]
     \/ HasHook /\ run' = [run EXCEPT !.turn = @ + 1]
  /\ UNCHANGED <<claimed, artifacts, loop, child, late, token, result, did>>

\* The command dies; nobody looks after its process any more.
LoopCrash(p) ==
  /\ ~AtRest(p)
  /\ loop' = [loop EXCEPT ![p] = [Quiet EXCEPT !.at = "dead"]]
  /\ child' = [child EXCEPT ![p] = NoChild]
  /\ Forget(p)
  /\ UNCHANGED <<run, claimed, artifacts, result, did>>

LoopInit ==
  /\ run = [turn |-> 1, phase |-> "prep"]
  /\ claimed = {} /\ artifacts = {}
  /\ loop = [p \in Loops |-> Quiet]
  /\ child = [p \in Loops |-> NoChild]
  /\ late = {} /\ token = {}
  /\ result = [p \in Loops |-> NoResult]
  /\ did = [p \in Loops |-> Nothing]

Running(p) ==
  \/ NotStarted(p) \/ \E deaf \in BOOLEAN : Launch(p, deaf)
  \/ Poll(p) \/ Wait(p) \/ \E why \in {"malformed_json", "launch_failed"} : WaitFails(p, why)
  \/ Terminate(p) \/ Reap(p) \/ Kill(p) \/ ReadOutput(p)
Ingesting(p) ==
  \/ CheckFile(p) \/ WriteFile(p) \/ WriteFails(p) \/ IngestFailed(p)
  \/ SaveFails(p)
  \/ \E accepted \in BOOLEAN : Submitted(p, accepted) \/ MarkerFails(p, accepted)

\* What an execution does once it was begun.
LoopContinue(p) == AssertCurrent(p) \/ Running(p) \/ Ingesting(p)

LoopNext ==
  \/ \E p \in Loops :
       \/ DispatchPlan(p) \/ LoopContinue(p) \/ LoopCrash(p)
       \/ DeadlinePasses(p) \/ Cancel(p) \/ ChildHeeds(p)
       \/ \E faults \in Outputs, id \in CallbackIds : ChildExits(p, faults, id)
  \/ OtherCommand

\* The command runs on and time passes.  The program owes nothing: it may never
\* exit and need not heed a signal; nor does anybody owe a cancellation.
LoopFairness ==
  \A p \in Loops : WF_loopVars(LoopContinue(p)) /\ WF_loopVars(DeadlinePasses(p))

LoopSpec == LoopInit /\ [][LoopNext]_loopVars /\ LoopFairness

------------------------------------------------------------------------------
(* Properties *)

LoopTypeOK ==
  /\ run \in [turn : 1..(Turns + 1), phase : Phases]
  /\ claimed \subseteq artifacts
  /\ artifacts \subseteq (1..Turns) \X CallbackIds
  /\ \A p \in Loops : ~AtRest(p) => loop[p].plan \in 1..Turns
  /\ late \cup token \subseteq Loops

\* The side effect status of a result tells what its execution did, on every way out:
\* a process only if one was started, a file only if there is one, and no ingestion that
\* did not happen, or that did and is not told.  One way out is excepted: when only the
\* bridge's marker could not be written, ingest_failed is told of an answer that the run
\* has taken (IngestionIsTold).
SideEffectsTold ==
  \A p \in Loops : result[p].status # "none" =>
    /\ result[p].submission <=> "ingested" \in did[p] /\ "unmarked" \notin did[p]
    /\ "unmarked" \in did[p] => result[p].status = "ingest_failed"
    /\ "wrote" \in did[p] => result[p].file
    /\ result[p].file => artifacts # {} /\ (result[p].status = "callback_artifact_exists" \/ "wrote" \in did[p])
    /\ result[p].started <=> "started" \in did[p]

\* No process outlives the execution that started it, unless the command died: not
\* after a timeout, a cancellation or a broken pipe, and not if it ignores SIGTERM.
NoProcessOutlivesExecution ==
  \A p \in Loops : OnLoop(p, "idle") => ~Alive(p)

\* What an execution says of itself is true, an unwritten marker excepted, and it leaves
\* nothing running behind (execute, AllowlistedStdioAdapter.execute).
ExecutionIsAccountedFor == SideEffectsTold /\ NoProcessOutlivesExecution

\* What the words of the result say, without exception: an execution tells of a submission
\* if, and only if, the run has taken its answer (execute, the errors of bridge.submit).
IngestionIsTold ==
  \A p \in Loops : result[p].status # "none" =>
    (result[p].submission <=> "ingested" \in did[p])

\* An execution ends, whatever the program does, unless the command dies.
ExecutionEnds ==
  \A p \in Loops : loop[p].at = "launch" ~> AtRest(p)
==============================================================================
