----------------------------- MODULE BridgeRuns ------------------------------
(****************************************************************************)
(* One orchestrator run in runtime-bridge mode.                             *)
(*                                                                          *)
(* WSA hands out one hook at a time, an external runtime answers it with a  *)
(* callback file, and OrchestratorBridge.submit ingests the file: it claims *)
(* the callback id in a transaction of its own, moves the run on, and then  *)
(* settles the receipt.  Meanwhile authors and operators approve or hold    *)
(* the prep review, interrupt, resume, close, and decide on the result.     *)
(* Each command is a process; every step below is one transaction or file,  *)
(* and between two steps other commands run or this one dies.               *)
(*                                                                          *)
(* The run.json projection is WorkflowEngine's subject.  Here only its      *)
(* failure matters, because submit turns it into a verdict on the callback. *)
(****************************************************************************)
EXTENDS RunRow, RunStates, Sequences, FiniteSets

CONSTANTS
  Procs,                \* the commands that may be in progress at once
  Callbacks,            \* callback ids, each with its file and task id
  MaxActorCalls,        \* hermes_bridge.max_actor_calls
  MaxRounds,            \* hermes_bridge.max_rounds
  Participants,         \* number of context packets
  RetryLimit,           \* retry_policy.max_rejections_per_turn
  Commands,             \* which of the other commands are given
  MaxCommands,          \* bound: how many of them are given
  NoAnswer,             \* a callback file that does not exist
  NoState               \* no interrupted_from

ASSUME BoundsAssumption ==
  /\ MaxActorCalls \in Nat \ {0} /\ MaxRounds \in Nat \ {0}
  /\ Participants \in Nat \ {0} /\ RetryLimit \in Nat \ {0}
  /\ MaxCommands \in Nat
ASSUME CommandsAssumption ==
  Commands \subseteq {"interrupt", "resume", "close", "decide", "prep"}
ASSUME NoValueAssumption ==
  /\ NoAnswer \notin [turn : Nat, good : BOOLEAN]
  /\ NoState \notin RUN_STATES

VARIABLES
  answers,              \* callback file: the turn it answers, and whether its
                        \* output passes the quality gate
  receipts,             \* workflow_callback_receipts.status, per callback id
  reports,              \* the run's reports in the world database, oldest first
  sessions,             \* the actor sessions in the control database
  tickets,              \* candidate tickets created for this run
  pc,                   \* where each command is
  task,                 \* what it is doing: its kind, its callback, and (history)
                        \* the revision of the payload it started from
  at,                   \* the revision it expects
  want,                 \* the payload it is about to save
  given,                \* how many commands have been given
  unprojected           \* history: callbacks whose save was not projected

external == <<answers>>
side == <<receipts, reports, sessions, tickets>>
local == <<pc, task, at, want>>
vars == <<row, external, side, local, given, unprojected>>

------------------------------------------------------------------------------
(* The payload of a run, and the functions that compute the next one *)

\* A hook is pending for the turn after the accepted ones.
Turn(r) == Len(r.outputs) + 1

\* choose_participant_contexts: some of the participants, at least one.
RoundSizes(r) == IF r.active # 0 THEN {r.active} ELSE 1..Participants

\* _append_next_hook once it has chosen a round of n participants.
HookIn(r, n) ==
  LET index == IF r.index >= n THEN 0 ELSE r.index
      last  == index + 1 >= n
  IN [r EXCEPT !.pending = TRUE,
               !.rejections = 0,
               !.next_action = "run_next_hermes_hook",
               !.round = IF last THEN @ + 1 ELSE @,
               !.index = IF last THEN 0 ELSE index + 1,
               !.active = IF last THEN 0 ELSE n]

\* _append_next_hook: the payloads it may leave.
WithNextHook(r) ==
  IF r.pending THEN {r}
  ELSE IF Len(r.outputs) >= MaxActorCalls \/ r.round > MaxRounds
       THEN {[r EXCEPT !.next_action = "author_review"]}
       ELSE {HookIn(r, n) : n \in RoundSizes(r)}

\* _finalize_bridge_payload and _finalize_bridge_retry_limit: the run goes to
\* its author with draft options.
Finalized(r) ==
  [r EXCEPT !.status = "awaiting_author_review",
            !.next_action = "author_review",
            !.drafted = TRUE]

\* submit, for a callback that passes the quality gate.
Accepted(r, c) ==
  LET taken == [r EXCEPT !.submitted = @ \cup {c},
                         !.retry = FALSE,
                         !.pending = FALSE,
                         !.outputs = Append(@, c)]
  IN {IF n.pending THEN [n EXCEPT !.status = "awaiting_callback",
                                  !.next_action = "run_next_hermes_hook"]
                   ELSE Finalized(n) : n \in WithNextHook(taken)}

\* A faulty rejection, for the checks to reject: the output is kept.
RejectedButKept(r, c) ==
  [r EXCEPT !.submitted = @ \cup {c},
            !.outputs = Append(@, c),
            !.rejections = @ + 1,
            !.retry = TRUE,
            !.status = "awaiting_callback",
            !.next_action = "retry_current_hermes_hook"]

\* A faulty limit, for the checks to reject: one rejection too many.
RejectedOnceMore(r, c) ==
  LET again == [r EXCEPT !.submitted = @ \cup {c},
                         !.rejections = @ + 1,
                         !.retry = TRUE,
                         !.status = "awaiting_callback",
                         !.next_action = "retry_current_hermes_hook"]
  IN IF again.rejections > RetryLimit THEN Finalized(again) ELSE again

\* _reject_callback: the hook stays pending, until the retry limit ends the run.
Rejected(r, c) ==
  LET again == [r EXCEPT !.submitted = @ \cup {c},
                         !.rejections = @ + 1,
                         !.retry = TRUE,
                         !.status = "awaiting_callback",
                         !.next_action = "retry_current_hermes_hook"]
  IN IF again.rejections >= RetryLimit THEN Finalized(again) ELSE again

\* ExternalCallbackRunner.next_action
NextActionOf(r) ==
  CASE r.status = "awaiting_prep_review"   -> "review_prep_report"
    [] r.status = "awaiting_callback"      -> "run_next_hermes_hook"
    [] r.status = "awaiting_author_review" -> "author_review"
    [] OTHER                               -> r.next_action

NewRun ==
  [status |-> "awaiting_prep_review", next_action |-> "review_prep_report",
   from |-> NoState, pending |-> FALSE, retry |-> FALSE, rejections |-> 0,
   round |-> 1, index |-> 0, active |-> 0,
   submitted |-> {}, outputs |-> <<>>, report |-> 0, drafted |-> FALSE,
   hinted |-> FALSE]

\* initialize_bridge_payload: with a prep review, or with the first hook.
InitialRuns ==
  {NewRun} \cup WithNextHook([NewRun EXCEPT !.status = "awaiting_callback"])

------------------------------------------------------------------------------
(* Steps that every command shares *)

NoTask == [kind |-> "none", callback |-> NoAnswer, read |-> 0]

Goto(p, step) == pc' = [pc EXCEPT ![p] = step]

Return(p) ==
  /\ Goto(p, "idle")
  /\ task' = [task EXCEPT ![p] = NoTask]
  /\ at' = [at EXCEPT ![p] = 0]
  /\ want' = [want EXCEPT ![p] = NoRun]

\* Read the row, and go on with a payload computed from it.
Take(p, kind, c, r, step) ==
  /\ Goto(p, step)
  /\ task' = [task EXCEPT ![p] = [kind |-> kind, callback |-> c,
                                    read |-> revision]]
  /\ at' = [at EXCEPT ![p] = revision]
  /\ want' = [want EXCEPT ![p] = r]

\* A command other than submit and approve_prep, given at most MaxCommands times.
Command(name) ==
  /\ name \in Commands
  /\ given < MaxCommands
  /\ given' = given + 1

\* The command raises: submit records it on the receipt, the others just end.
Fail(p) ==
  IF task[p].kind = "submit"
  THEN Goto(p, "failed") /\ UNCHANGED <<task, at, want>>
  ELSE Return(p)

\* A faulty update, for the checks to reject: it saves without validating.
UpdateUnvalidated(p) ==
  /\ pc[p] = "update"
  /\ Goto(p, "save")
  /\ UNCHANGED <<row, external, side, task, at, want, given, unprojected>>

\* WorkflowEngine.update: get and validate.
Update(p) ==
  /\ pc[p] = "update"
  /\ IF Permits(payload.status, want[p].status)
     THEN Goto(p, "save") /\ UNCHANGED <<task, at, want>>
     ELSE Fail(p)
  /\ UNCHANGED <<row, external, side, given, unprojected>>

\* RunStore.save
SaveRun(p) ==
  /\ pc[p] = "save"
  /\ CompareAndSwap(want[p], at[p])
  /\ Goto(p, "project")
  /\ UNCHANGED <<external, side, task, at, want, given, unprojected>>

SaveConflict(p) ==
  /\ pc[p] = "save"
  /\ Stale(at[p])
  /\ Fail(p)
  /\ UNCHANGED <<row, external, side, given, unprojected>>

\* _project and the .wsa_bridge marker are written: the command goes on.
Projected(p) ==
  /\ pc[p] = "project"
  /\ CASE task[p].kind = "submit"  -> Goto(p, "complete") /\ UNCHANGED <<task, at, want>>
       [] task[p].kind = "approve" -> Goto(p, "ticket") /\ UNCHANGED <<task, at, want>>
       [] task[p].kind = "resume"  -> Goto(p, "hint") /\ UNCHANGED <<task, at, want>>
       [] OTHER                    -> Return(p)
  /\ UNCHANGED <<row, external, side, given, unprojected>>

\* ProjectionWriteError, although the row is saved.
ProjectFails(p) ==
  /\ pc[p] = "project"
  /\ Fail(p)
  /\ unprojected' = unprojected \cup {task[p].callback}
  /\ UNCHANGED <<row, external, side, given>>

------------------------------------------------------------------------------
(* The runtime, and submit *)

\* The external runtime runs the hook that next shows it, and leaves a callback
\* file.  It may run a hook again, and leave a second one.
RuntimeAnswers(c) ==
  /\ answers[c] = NoAnswer
  /\ payload.status = "awaiting_callback"
  /\ payload.pending
  /\ \E good \in BOOLEAN :
       answers' = [answers EXCEPT ![c] = [turn |-> Turn(payload), good |-> good]]
  /\ UNCHANGED <<row, side, local, given, unprojected>>

\* submit up to the claim: one read of the row, and the checks against it.
Submit(p, c) ==
  /\ pc[p] = "idle"
  /\ answers[c] # NoAnswer
  /\ payload.status \notin {"interrupted", "closed"}
  /\ payload.next_action # "review_prep_report"
  /\ c \notin payload.submitted
  /\ payload.pending /\ answers[c].turn = Turn(payload)
  /\ \E r \in IF answers[c].good THEN Accepted(payload, c)
                                  ELSE {Rejected(payload, c)} :
       Take(p, "submit", c, r, "claim")
  /\ UNCHANGED <<row, external, side, given, unprojected>>

\* A faulty claim, for the checks to reject: it takes over a claimed id.
ClaimAgain(p) ==
  LET c == task[p].callback
  IN /\ pc[p] = "claim"
     /\ receipts' = [receipts EXCEPT ![c] = "claimed"]
     /\ Goto(p, IF want[p].status = "awaiting_callback" THEN "update" ELSE "sessions")
     /\ UNCHANGED <<row, external, reports, sessions, tickets, task, at, want,
                    given, unprojected>>

\* claim_callback: the INSERT, and then straight to the update, or to the
\* finalization of the run.
Claim(p) ==
  LET c == task[p].callback
  IN /\ pc[p] = "claim"
     /\ receipts[c] = "none"
     /\ receipts' = [receipts EXCEPT ![c] = "claimed"]
     /\ Goto(p, IF want[p].status = "awaiting_callback" THEN "update" ELSE "sessions")
     /\ UNCHANGED <<row, external, reports, sessions, tickets, task, at, want,
                    given, unprojected>>

\* claim_callback: ValueError, callback replay blocked.
ClaimReplay(p) ==
  /\ pc[p] = "claim"
  /\ receipts[task[p].callback] # "none"
  /\ Return(p)
  /\ UNCHANGED <<row, external, side, given, unprojected>>

\* A faulty finalization, for the checks to reject: it forgets the report.
CloseSessionsOnly(p) ==
  /\ pc[p] = "sessions"
  /\ sessions' = "closed"
  /\ Goto(p, "update")
  /\ UNCHANGED <<row, external, receipts, reports, tickets, task, at, want,
                 given, unprojected>>

\* Finalization, first half: every session of the run is updated.
CloseSessions(p) ==
  /\ pc[p] = "sessions"
  /\ sessions' = "closed"
  /\ Goto(p, IF want[p].report = 0 THEN "report" ELSE "update")
  /\ UNCHANGED <<row, external, receipts, reports, tickets, task, at, want,
                 given, unprojected>>

\* Finalization, second half: the report is created before the run is saved.
CreateReport(p) ==
  /\ pc[p] = "report"
  /\ reports' = Append(reports, "inbox")
  /\ want' = [want EXCEPT ![p].report = Len(reports')]
  /\ Goto(p, "update")
  /\ UNCHANGED <<row, external, receipts, sessions, tickets, task, at, given,
                 unprojected>>

\* create_world_report raises, before or after its INSERT.  Only the rejecting
\* half of submit finalizes inside the try that settles the receipt.
ReportFails(p) ==
  /\ pc[p] = "report"
  /\ reports' \in {reports, Append(reports, "inbox")}
  /\ IF answers[task[p].callback].good
     THEN Return(p)
     ELSE Fail(p)
  /\ UNCHANGED <<row, external, receipts, sessions, tickets, given, unprojected>>

Settle(p, status) ==
  /\ receipts' = [receipts EXCEPT ![task[p].callback] = status]
  /\ Return(p)
  /\ UNCHANGED <<row, external, reports, sessions, tickets, given, unprojected>>

\* complete_callback, when the update succeeded.
Complete(p) ==
  /\ pc[p] = "complete"
  /\ Settle(p, IF answers[task[p].callback].good THEN "accepted" ELSE "rejected")

\* complete_callback, when it raised.
Failed(p) ==
  /\ pc[p] = "failed"
  /\ Settle(p, "state_update_failed")

------------------------------------------------------------------------------
(* The prep review, and the commands of WorkflowEngine *)

Idle(p) == pc[p] = "idle"
Others == <<row, external, side, unprojected>>

\* A faulty approval, for the checks to reject: it hands out no hook.
ApprovePrepOnly(p) ==
  /\ Idle(p)
  /\ payload.status \notin {"interrupted", "closed"}
  /\ payload.next_action = "review_prep_report"
  /\ Take(p, "approve_prep", NoAnswer,
          [payload EXCEPT !.status = "awaiting_callback",
                          !.next_action = "run_next_hermes_hook"], "update")
  /\ UNCHANGED <<row, external, side, given, unprojected>>

\* approve_prep: does nothing unless the run waits for exactly this.
ApprovePrep(p) ==
  /\ Idle(p)
  /\ payload.status \notin {"interrupted", "closed"}
  /\ payload.next_action = "review_prep_report"
  /\ \E r \in WithNextHook([payload EXCEPT !.status = "awaiting_callback",
                                           !.next_action = "run_next_hermes_hook"]) :
       Take(p, "approve_prep", NoAnswer, r, "update")
  /\ UNCHANGED <<row, external, side, given, unprojected>>

\* _record_prep_decision
PrepDecision(p) ==
  /\ Idle(p)
  /\ payload.status = "awaiting_prep_review"
  /\ Command("prep")
  /\ \E r \in {[payload EXCEPT !.status = "interrupted", !.next_action = "resume"],
              [payload EXCEPT !.next_action = "refine_prep_request"],
              [payload EXCEPT !.status = "closed",
                              !.next_action = "start_new_run_with_revised_frame"]} :
       Take(p, "prep", NoAnswer, r, "update")
  /\ UNCHANGED Others

Interrupt(p) ==
  /\ Idle(p)
  /\ Permits(payload.status, "interrupted")
  /\ Command("interrupt")
  /\ Take(p, "interrupt", NoAnswer,
          [payload EXCEPT !.from = payload.status,
                          !.status = "interrupted",
                          !.next_action = "resume"], "update")
  /\ UNCHANGED Others

\* The run as resume leaves it.
Resumed(r) ==
  LET back == [r EXCEPT !.status = IF r.from = NoState THEN "awaiting_callback"
                                                       ELSE r.from]
  IN [back EXCEPT !.next_action = NextActionOf(back)]

\* resume, of an interrupted run.
Resume(p) ==
  /\ Idle(p)
  /\ payload.status = "interrupted"
  /\ Command("resume")
  /\ Take(p, "resume", NoAnswer, Resumed(payload), "update")
  /\ UNCHANGED Others

HintDue(r) ==
  /\ r.status = "awaiting_callback"
  /\ r.pending /\ r.retry
  /\ r.next_action # "retry_current_hermes_hook" \/ ~r.hinted

Hinted(r) == [r EXCEPT !.next_action = "retry_current_hermes_hook", !.hinted = TRUE]

\* AutonomousOrchestrator.resume, of a run that is not interrupted.
ResumeHint(p) ==
  /\ Idle(p)
  /\ payload.status # "interrupted"
  /\ HintDue(payload)
  /\ Command("resume")
  /\ Take(p, "hint", NoAnswer, Hinted(payload), "update")
  /\ UNCHANGED Others

\* AutonomousOrchestrator.resume, after the first save: it looks at the record
\* that save returns, which is read anew, and may save once more.
Hint(p) ==
  /\ pc[p] = "hint"
  /\ IF HintDue(payload)
     THEN Take(p, "hint", NoAnswer, Hinted(payload), "update")
     ELSE Return(p)
  /\ UNCHANGED <<row, external, side, given, unprojected>>

Close(p) ==
  /\ Idle(p)
  /\ payload.status # "closed"
  /\ Permits(payload.status, "closed")
  /\ Command("close")
  /\ Take(p, "close", NoAnswer,
          [payload EXCEPT !.status = "closed", !.next_action = "none"], "update")
  /\ UNCHANGED Others


------------------------------------------------------------------------------
(* AutonomousOrchestrator.decide *)

\* A faulty decision, for the checks to reject: the run gets the report's status.
DecidedLikeReport ==
  [approve |-> "approved", retry |-> "rejected", hold |-> "pending_review"]

DecidedStatus ==
  [approve |-> "canonization_pending",
   retry   |-> "retry_requested",
   hold    |-> "awaiting_author_review"]

ReportStatus == [approve |-> "approved", retry |-> "rejected", hold |-> "pending_review"]

\* find_orchestrator_run: the payload.  Approving needs one of its draft options.
\* The review inbox does not come here while the prep review is open.
Decide(p, d) ==
  /\ Idle(p)
  /\ payload.status # "awaiting_prep_review"
  /\ d = "approve" => payload.drafted
  /\ Command("decide")
  /\ Goto(p, "revision")
  /\ task' = [task EXCEPT ![p] = [kind |-> d, callback |-> NoAnswer, read |-> revision]]
  /\ want' = [want EXCEPT ![p] = [payload EXCEPT !.status = DecidedStatus[d]]]
  /\ UNCHANGED <<at, row, external, side, unprojected>>

\* RunStore.get once more: the revision.
ReadRevision(p) ==
  /\ pc[p] = "revision"
  /\ at' = [at EXCEPT ![p] = revision]
  /\ Goto(p, "decide_report")
  /\ UNCHANGED <<row, external, side, task, want, given, unprojected>>

\* transition_report, of the oldest report of the run.
DecideReport(p) ==
  /\ pc[p] = "decide_report"
  /\ reports # <<>>
  /\ reports' = [reports EXCEPT ![1] = ReportStatus[task[p].kind]]
  /\ Goto(p, "update")
  /\ UNCHANGED <<row, external, receipts, sessions, tickets, task, at, want,
                 given, unprojected>>

\* _report_id_for_run: KeyError.
NoReport(p) ==
  /\ pc[p] = "decide_report"
  /\ reports = <<>>
  /\ Return(p)
  /\ UNCHANGED <<row, external, side, given, unprojected>>

\* create_ticket, after an approval is saved.
CreateTicket(p) ==
  /\ pc[p] = "ticket"
  /\ tickets' = tickets + 1
  /\ Return(p)
  /\ UNCHANGED <<row, external, receipts, reports, sessions, given, unprojected>>

\* The process dies: what it had not written is gone.
Crash(p) ==
  /\ pc[p] # "idle"
  /\ Return(p)
  /\ UNCHANGED <<row, external, side, given, unprojected>>

------------------------------------------------------------------------------
Init ==
  /\ revision = 1
  /\ payload \in InitialRuns
  /\ answers = [c \in Callbacks |-> NoAnswer]
  /\ receipts = [c \in Callbacks |-> "none"]
  /\ reports = <<>>
  /\ sessions = "open"
  /\ tickets = 0
  /\ pc = [p \in Procs |-> "idle"]
  /\ task = [p \in Procs |-> NoTask]
  /\ at = [p \in Procs |-> 0]
  /\ want = [p \in Procs |-> NoRun]
  /\ given = 0
  /\ unprojected = {}

Submission(p) ==
  \/ \E c \in Callbacks : Submit(p, c)
  \/ Claim(p) \/ ClaimReplay(p)
  \/ CloseSessions(p) \/ CreateReport(p) \/ ReportFails(p)
  \/ Complete(p) \/ Failed(p)

Control(p) ==
  \/ ApprovePrep(p) \/ PrepDecision(p)
  \/ Interrupt(p) \/ Resume(p) \/ ResumeHint(p) \/ Hint(p) \/ Close(p)

Decision(p) ==
  \/ \E d \in DOMAIN DecidedStatus : Decide(p, d)
  \/ ReadRevision(p) \/ DecideReport(p) \/ NoReport(p) \/ CreateTicket(p)

Store(p) ==
  \/ Update(p) \/ SaveRun(p) \/ SaveConflict(p)
  \/ Projected(p) \/ ProjectFails(p)

Next ==
  \/ \E c \in Callbacks : RuntimeAnswers(c)
  \/ \E p \in Procs :
       Submission(p) \/ Control(p) \/ Decision(p) \/ Store(p) \/ Crash(p)

Spec == Init /\ [][Next]_vars

------------------------------------------------------------------------------
(* Correctness *)

Runs ==
  [status : RUN_STATES,
   next_action : {"review_prep_report", "run_next_hermes_hook", "author_review",
                  "retry_current_hermes_hook", "resume", "refine_prep_request",
                  "start_new_run_with_revised_frame", "none"},
   from : RUN_STATES \cup {NoState},
   pending : BOOLEAN, retry : BOOLEAN, drafted : BOOLEAN, hinted : BOOLEAN,
   rejections : Nat, round : Nat, index : Nat, active : 0..Participants,
   submitted : SUBSET Callbacks, outputs : Seq(Callbacks), report : Nat]

Steps ==
  {"idle", "claim", "sessions", "report", "update", "save", "project", "complete",
   "failed", "hint", "revision", "decide_report", "ticket"}

\* The shape of the state.
TypeOK ==
  /\ revision \in Nat
  /\ payload \in Runs
  /\ answers \in [Callbacks -> [turn : Nat, good : BOOLEAN] \cup {NoAnswer}]
  /\ receipts \in [Callbacks -> {"none", "claimed", "accepted", "rejected",
                                 "state_update_failed"}]
  /\ reports \in Seq({"inbox", "approved", "rejected", "pending_review"})
  /\ sessions \in {"open", "closed"}
  /\ tickets \in Nat
  /\ pc \in [Procs -> Steps]
  /\ want \in [Procs -> Runs \cup {NoRun}]
  /\ at \in [Procs -> Nat]
  /\ given \in 0..MaxCommands
  /\ unprojected \subseteq Callbacks \cup {NoAnswer}

\* The accepted outputs are the run: however commands overlap, turn i has exactly
\* one, it answers the hook of turn i, and it passed the quality gate.
OneOutputPerTurn ==
  \A i \in DOMAIN payload.outputs :
    /\ answers[payload.outputs[i]].turn = i
    /\ answers[payload.outputs[i]].good

Outputs == {payload.outputs[i] : i \in DOMAIN payload.outputs}

\* A receipt tells the truth about the run, which another transaction saved: an
\* accepted callback is among its outputs, a rejected one is recorded and is not, and
\* one that says the update failed is wrong only where the row was saved and just
\* its projection was not.
ReceiptsAgree ==
  \A c \in Callbacks :
    /\ receipts[c] = "accepted" => c \in Outputs
    /\ receipts[c] = "rejected" => c \in payload.submitted \ Outputs
    /\ receipts[c] = "state_update_failed" /\ c \in payload.submitted => c \in unprojected

\* A callback id is ingested once: the verdict on it never changes, however often
\* its file is submitted, by whom, and whatever crashes.
ReceiptsFinal ==
  [][\A c \in Callbacks :
       receipts[c] \notin {"none", "claimed"} => receipts'[c] = receipts[c]]_vars

\* A run that waits for a callback has a hook to hand out for it; without one
\* no command but close moves the run again.
HookWhenAwaiting ==
  payload.status = "awaiting_callback" => payload.pending

\* An author who is asked for a decision has a report to decide on, and the
\* actor sessions are over.
ReviewHasReport ==
  payload.status \in {"awaiting_author_review", "canonization_pending",
                      "retry_requested"}
    => reports # <<>> /\ sessions = "closed"

\* "DB revisions and compare-and-swap reject stale updates": what is saved was
\* computed from what it replaces, so no command undoes one it has not seen.
\* decide reads payload and revision separately, and breaks it.
StaleUpdatesAreRejected ==
  [][\A p \in Procs : SaveRun(p) => task[p].read = revision]_vars

\* A run that still waits for callbacks has not used up its rejections, whoever
\* rejects them and however often the run is interrupted in between.
RetryLimitEndsRun ==
  payload.status = "awaiting_callback" => payload.rejections < RetryLimit

\* "Resume an interrupted orchestrator run from its previous state": a run that
\* is interrupted, for whatever reason, remembers the state it was in.  A held
\* prep review does not, and an interrupt of an interrupted run forgets it.
InterruptionsRememberState ==
  [][payload'.status = "interrupted"
       => payload'.from = IF payload.status = "interrupted" THEN payload.from
                                                            ELSE payload.status]_vars

\* Candidate tickets come from an approved run, and approval is not taken back
\* by a command that had read the run before it.
TicketsOnlyWhenApproved ==
  tickets > 0 => payload.status \in {"canonization_pending", "closed"}

\* Each saved status was reached from the one it replaced, although the
\* transition is validated before, and outside, the transaction that saves.
SavedTransitionsAreLegal ==
  [][Permits(payload.status, payload'.status)]_vars

==============================================================================
