----------------------------- MODULE ScriptedRuns -----------------------------
(****************************************************************************)
(* AutonomousOrchestrator.run, and the floor that it opens: who is called in *)
(* each round, and what is left for the author at the end.                   *)
(*                                                                          *)
(* A scripted run ("local") calls every participant itself and answers for   *)
(* them.  A bridge run stops at its first hook, and each answer of the       *)
(* runtime moves the floor on, or is rejected until the retry limit puts     *)
(* what there is before the author; the claims and commands around that, and *)
(* what the author then decides, are BridgeRuns' subject, so here an answer  *)
(* is one step.  The command writes sessions, messages, report, run and      *)
(* marker one by one, and may die between any two of them.                   *)
(****************************************************************************)
EXTENDS Integers, Sequences, FiniteSets

CONSTANTS
  Asks,                 \* bound: what the command may be asked for
  RuntimeOutputs,       \* bound: answers of an external runtime
  RetryLimit,           \* MAX_CALLBACK_REJECTIONS_PER_TURN
  MaxRejections         \* bound: answers that the quality gate rejects

VARIABLES
  ask,                  \* the arguments of the command
  stage,                \* what the command does next
  seats,                \* runtime sessions, per participant; 0 is the manager's
  floor,                \* actor states, verification queue, round and hooks
  heard,                \* subsession_outputs: the accepted answers
  submitted,            \* number of submitted callbacks
  retries,              \* turn_retry_counts of the call that waits for its answer
  package               \* what the author finds: report, run row and marker

scriptVars == <<ask, stage, seats, floor, heard, submitted, retries, package>>

\* _plan_participants: P001, P002, ...  There is always one, since the labels of
\* the request, the entities that the topic names and the workflow's defaults
\* are tried in this order.
People == 1..ask.n

\* An objection or a question is the set of participants that it names by id.
Items == SUBSET (SUBSET Nat)

ASSUME AsksAssumption ==
  \A a \in Asks :
    /\ a.n \in Nat \ {0} /\ {a.rounds, a.turns, a.calls} \subseteq Int
    /\ a.mode \in {"local", "prep", "bridge"} /\ a.scene \in BOOLEAN

ASSUME LimitAssumption == RetryLimit \in Nat \ {0}

ASSUME OutputsAssumption ==
  RuntimeOutputs \subseteq
    [uncertain : BOOLEAN, risky : BOOLEAN, objections : Items, questions : Items]

Least(S) == CHOOSE x \in S : \A y \in S : x <= y
Ascending(S) ==
  [k \in 1..Cardinality(S) |-> CHOOSE x \in S : Cardinality({y \in S : y < x}) = k - 1]

------------------------------------------------------------------------------
(* The budget *)

QueueTurns == Least({ask.rounds, ask.turns, ask.calls \div ask.n})
BudgetExhausted == ask.rounds > Least({ask.turns, ask.calls \div ask.n})

\* Otherwise run raises ValueError, before it has written anything.
Acceptable == ask.rounds > 0 /\ ask.turns > 0 /\ ask.calls > 0 /\ ask.n <= ask.calls

------------------------------------------------------------------------------
(* Who speaks next *)

\* Participants that a list of objections or questions names by id.
NamedById(items) == (UNION items) \cap People

\* _is_explicit_verification_need: what the floor only recommends is not one.
Explicit(check) == check.status # "recommended"

\* participant_selection_signals, in the order of their priority: verification
\* need, targeted objection, owner, unanswered question.  Nothing in the program
\* makes anyone the owner of a question.
Signals(speakers, checks) ==
  << {check.who : check \in {c \in checks : Explicit(c)}},
     UNION {NamedById(speakers[p].objections) : p \in DOMAIN speakers},
     {},
     UNION {LET to == NamedById(speakers[p].questions)
            IN IF to = {} /\ speakers[p].questions # {} THEN {p} ELSE to :
            p \in DOMAIN speakers} >>

\* choose_participant_contexts: the first signal that names anyone, or everyone.
Chosen(f) ==
  LET signals == Signals(f.speakers, f.checks)
      live == {i \in DOMAIN signals : signals[i] # {}}
  IN Ascending(IF live = {} THEN People ELSE signals[Least(live)])

\* build_scheduler_decision, from the state of this participant alone.
CalledBecause(f, p) ==
  LET own == f.speakers[p]
      signals == Signals([q \in {p} |-> own], f.checks)
  IN CASE \E check \in f.checks : check.who = p -> "verification"
       [] p \in signals[2]                      -> "objection"
       [] own.questions # {}                    -> "question"
       [] OTHER -> IF own.spoke THEN "continuity" ELSE "initial"

\* build_round_prompt_packet
Hook(f, p) == [who |-> p, round |-> f.round, why |-> CalledBecause(f, p)]
WithCall(f, p) == [f EXCEPT !.calls = Append(@, Hook(f, p)), !.index = @ + 1]
NextRound(f) == [f EXCEPT !.round = @ + 1, !.who = <<>>, !.index = 0]
RoundIsOut(f) == f.who # <<>> /\ f.index >= Len(f.who)

\* A faulty round, for the checks to reject: who takes part is not remembered.
OpenedAnew(f) == [f EXCEPT !.who = Chosen(f), !.index = IF @ >= Len(Chosen(f)) THEN 0 ELSE @]

\* _bridge_round_contexts: a round keeps the participants it was opened with.
Opened(f) == IF f.who # <<>> THEN f ELSE [f EXCEPT !.who = Chosen(f), !.index = 0]

\* _append_next_hook: no hook when the calls or the rounds are used up, and the
\* next round as soon as the last hook of this one is handed out.
WithNextHook(f, answers) ==
  IF answers >= ask.n * QueueTurns \/ f.round > QueueTurns THEN f
  ELSE LET open == Opened(f)
           called == WithCall(open, open.who[open.index + 1])
       IN IF RoundIsOut(called) THEN NextRound(called) ELSE called

------------------------------------------------------------------------------
(* What an answer changes *)

\* build_initial_actor_states and build_initial_floor_state
EmptyFloor ==
  [speakers |-> [p \in People |->
     [turns |-> 0, spoke |-> FALSE, objections |-> {}, questions |-> {}]],
   checks |-> {}, round |-> 1, who |-> <<>>, index |-> 0, calls |-> <<>>]

\* update_actor_states
Heard(f, output) ==
  [f EXCEPT !.speakers[output.who] =
     [turns |-> @.turns + 1, spoke |-> TRUE,
      objections |-> @.objections \cup output.objections,
      questions |-> @.questions \cup output.questions]]

\* update_floor_state: a check is recommended for every risky answer, once.
Checked(f, round, outputs) ==
  [f EXCEPT !.checks = @ \cup {[who |-> o.who, round |-> round, status |-> "recommended"] :
                               o \in {x \in outputs : x.uncertain \/ x.risky}}]

\* _subsession_output, which _quality_gate accepts: an unanchored participant is
\* unsure and a scene is risky, and neither objections nor gaps name anyone.
ScriptedOutput(p) ==
  [who |-> p, round |-> floor.round, uncertain |-> p \notin ask.anchored,
   risky |-> ask.scene, objections |-> {{}}, questions |-> {{}}]

\* normalized_execution_mode, which readers of a run are told.
ToldMode ==
  IF ask.mode = "local" THEN "deterministic_mock"
  ELSE IF submitted > 0 THEN "external_confirmed" ELSE "external_waiting"

\* _contribution_execution_summary, which the package says itself.
SummaryMode(requested, callbacks) ==
  IF requested # "none" THEN requested
  ELSE IF callbacks > 0 THEN "external_confirmed" ELSE "external_waiting"

------------------------------------------------------------------------------
(* The command *)

Go(from, to) == stage = from /\ stage' = to
Done == <<ask, heard, submitted, retries>>

CheckArguments ==
  /\ Go("start", IF Acceptable THEN "manager" ELSE "refused")
  /\ UNCHANGED <<Done, seats, floor, package>>

\* Manager session, plan.json and its message.
OpenManager ==
  /\ Go("manager", "seats")
  /\ seats' = [seats EXCEPT ![0] = "active"]
  /\ UNCHANGED <<Done, floor, package>>

\* Session, context packet and message of the next participant; the prep report
\* is composed from the packets.
Seat(p) ==
  /\ \A q \in People : (seats[q] = "none") = (q >= p)
  /\ Go("seats", IF p < ask.n THEN "seats"
                 ELSE IF ask.mode = "local" THEN "rounds" ELSE "register")
  /\ seats' = [seats EXCEPT ![p] = "active"]
  /\ UNCHANGED <<Done, floor, package>>

\* A round of a scripted run is opened.
OpenRound ==
  /\ stage = "rounds"
  /\ floor.who = <<>> /\ floor.round <= QueueTurns
  /\ floor' = Opened(floor)
  /\ UNCHANGED <<Done, stage, seats, package>>

\* A participant's turn: hook, output, quality gate, actor state and message.
CallScripted ==
  /\ stage = "rounds"
  /\ floor.index < Len(floor.who)
  /\ LET p == floor.who[floor.index + 1]
     IN /\ floor' = Heard(WithCall(floor, p), ScriptedOutput(p))
        /\ heard' = Append(heard, ScriptedOutput(p))
  /\ UNCHANGED <<ask, stage, seats, submitted, retries, package>>

\* Snapshot, manager checks and floor state at the end of a round.
CloseRound ==
  /\ stage = "rounds"
  /\ RoundIsOut(floor)
  /\ LET outputs == {heard[i] : i \in {j \in DOMAIN heard : heard[j].round = floor.round}}
     IN floor' = NextRound(Checked(floor, floor.round, outputs))
  /\ UNCHANGED <<Done, stage, seats, package>>

Synthesize ==
  /\ floor.round > QueueTurns
  /\ Go("rounds", "close")
  /\ UNCHANGED <<Done, seats, floor, package>>

CloseSeat(p) ==
  /\ \A q \in People : (seats[q] = "active") = (q >= p)
  /\ Go("close", IF p < ask.n THEN "close" ELSE "report")
  /\ seats' = [seats EXCEPT ![p] = "closed"]
  /\ UNCHANGED <<Done, floor, package>>

\* _diagnose_conflicts: what the author has to decide.
NeedsAuthor == BudgetExhausted \/ \E i \in DOMAIN heard : heard[i].uncertain

\* A faulty report, for the checks to reject: it does not warn of unsure answers.
FileUnreadReport ==
  /\ Go("report", "register")
  /\ package' = [package EXCEPT !.report = IF BudgetExhausted THEN "medium" ELSE "low"]
  /\ UNCHANGED <<Done, seats, floor>>

\* create_world_report
FileReport ==
  /\ Go("report", "register")
  /\ package' = [package EXCEPT !.report = IF NeedsAuthor THEN "medium" ELSE "low"]
  /\ UNCHANGED <<Done, seats, floor>>

\* initialize_bridge_payload and WorkflowEngine.register: without a prep review
\* a bridge run starts with a hook; a scripted run goes straight to its author.
Register ==
  /\ Go("register", "tell")
  /\ CASE ask.mode = "local" ->
            /\ package' = [package EXCEPT !.status = "awaiting_author_review",
                                          !.says = SummaryMode("deterministic_mock", 0)]
            /\ UNCHANGED floor
       [] ask.mode = "prep" ->
            /\ package' = [package EXCEPT !.status = "awaiting_prep_review",
                                          !.says = SummaryMode("none", 0)]
            /\ UNCHANGED floor
       [] ask.mode = "bridge" ->
            /\ package' = [package EXCEPT !.status = "awaiting_callback",
                                          !.says = SummaryMode("none", 0)]
            /\ floor' = WithNextHook(floor, 0)
  /\ UNCHANGED <<Done, seats>>

\* The last message; a scripted run closes its manager session after it.
Tell ==
  /\ Go("tell", "mark")
  /\ seats' = [seats EXCEPT ![0] = IF ask.mode = "local" THEN "awaiting_author_review" ELSE @]
  /\ UNCHANGED <<Done, floor, package>>

\* .wsa_completed, or .wsa_bridge.
Mark ==
  /\ Go("mark", "done")
  /\ package' = [package EXCEPT !.marked = @ \/ ask.mode = "local"]
  /\ UNCHANGED <<Done, seats, floor>>

\* The process dies between two writes.
Die ==
  /\ stage \notin {"start", "refused", "done", "dead"}
  /\ stage' = "dead"
  /\ UNCHANGED <<Done, seats, floor, package>>

------------------------------------------------------------------------------
(* The runtime and the author of a bridge run *)

\* approve_prep
ApprovePrep ==
  /\ package.status = "awaiting_prep_review"
  /\ package' = [package EXCEPT !.status = "awaiting_callback"]
  /\ floor' = WithNextHook(floor, 0)
  /\ UNCHANGED <<Done, stage, seats>>

\* _finalize_bridge_payload, and _finalize_bridge_retry_limit for a partial run:
\* sessions, report, marker and package.
Finalize(partial) ==
  /\ seats' = [p \in DOMAIN seats |-> IF p = 0 THEN "awaiting_author_review" ELSE "closed"]
  /\ package' = [report |-> "medium", status |-> "awaiting_author_review", marked |-> TRUE,
                 partial |-> partial, says |-> SummaryMode("none", submitted')]

\* submit, for an answer that passes the quality gate: actor states, floor, and
\* the hook that the new floor chooses, or else the end.
Answer(output) ==
  LET call == floor.calls[Len(floor.calls)]
      told == [who |-> call.who, round |-> call.round,
               uncertain |-> output.uncertain, risky |-> output.risky,
               objections |-> output.objections, questions |-> output.questions]
      next == WithNextHook(Checked(Heard(floor, told), call.round, {told}), Len(heard) + 1)
  IN /\ package.status = "awaiting_callback"
     /\ heard' = Append(heard, told)
     /\ submitted' = submitted + 1
     /\ retries' = 0
     /\ floor' = next
     /\ IF next.calls # floor.calls THEN UNCHANGED <<seats, package>> ELSE Finalize(FALSE)
     /\ UNCHANGED <<ask, stage>>

\* A faulty limit, for the checks to reject: the run ends as if it were complete.
RejectUntold ==
  /\ package.status = "awaiting_callback"
  /\ submitted - Len(heard) < MaxRejections
  /\ submitted' = submitted + 1
  /\ retries' = retries + 1
  /\ IF retries' < RetryLimit THEN UNCHANGED <<seats, package>> ELSE Finalize(FALSE)
  /\ UNCHANGED <<ask, stage, floor, heard>>

\* _reject_callback, for an answer that does not: the call waits on, until it was
\* rejected RetryLimit times; then the run ends with what there is.
Reject ==
  /\ package.status = "awaiting_callback"
  /\ submitted - Len(heard) < MaxRejections
  /\ submitted' = submitted + 1
  /\ retries' = retries + 1
  /\ IF retries' < RetryLimit THEN UNCHANGED <<seats, package>> ELSE Finalize(TRUE)
  /\ UNCHANGED <<ask, stage, floor, heard>>

------------------------------------------------------------------------------
ScriptInit ==
  /\ ask \in Asks
  /\ stage = "start"
  /\ seats = [p \in 0..ask.n |-> "none"]
  /\ floor = EmptyFloor
  /\ heard = <<>>
  /\ submitted = 0 /\ retries = 0
  /\ package = [report |-> "none", status |-> "none", marked |-> FALSE, partial |-> FALSE,
                says |-> "none"]

Continue ==
  \/ CheckArguments \/ OpenManager
  \/ \E p \in People : Seat(p) \/ CloseSeat(p)
  \/ OpenRound \/ CallScripted \/ CloseRound \/ Synthesize
  \/ FileReport \/ Register \/ Tell \/ Mark

ScriptNext ==
  \/ Continue
  \/ Die
  \/ ApprovePrep
  \/ \E output \in RuntimeOutputs : Answer(output)
  \/ Reject

ScriptSpec == ScriptInit /\ [][ScriptNext]_scriptVars

------------------------------------------------------------------------------
(* Properties *)

\* Whatever participants object to or ask each other, no turn is handed out
\* twice, the calls stay within the budget of the request, nobody is called a
\* second time before everybody has had a first turn, and only that first turn
\* asks for an initial position (the bookkeeping of _append_next_hook over
\* floors that change with every answer).
RoundsAreFair ==
  LET calls == floor.calls
  IN /\ calls = <<>> \/ Len(calls) <= ask.calls
     /\ \A i, j \in DOMAIN calls :
          /\ i # j => <<calls[i].who, calls[i].round>> # <<calls[j].who, calls[j].round>>
          /\ i < j => calls[i].round <= calls[j].round
     /\ \A i \in DOMAIN calls :
          /\ calls[i].round > 1 => \A p \in People : \E j \in 1..(i - 1) : calls[j].who = p
          /\ (calls[i].why = "initial") <=> (calls[i].round = 1)

\* A run that waits for its author is whole, wherever its command died: the
\* report is there and warns of what is unsure or was cut short, every actor
\* session is closed, every call has its answer and every participant has one,
\* and the package says of its origin what readers of the run are told.
\* Only a run whose call was rejected up to the retry limit is not: it is marked
\* as partial, with that one call unanswered, and maybe people never called
\* (_finalize_bridge_payload, _finalize_bridge_retry_limit).
ReviewIsWhole ==
  package.status = "awaiting_author_review" =>
    /\ package.report # "none" /\ (NeedsAuthor \/ package.partial => package.report = "medium")
    /\ \A p \in People : seats[p] = "closed"
    /\ package.says = ToldMode
    /\ IF package.partial
       THEN retries = RetryLimit /\ Len(heard) = Len(floor.calls) - 1
       ELSE /\ Len(heard) = Len(floor.calls)
            /\ \A p \in People : \E i \in DOMAIN heard : heard[i].who = p

\* What start promises of a run, whatever its actors ask for and wherever it dies: its
\* rounds are fair, and it is put before its author whole, or as partial if it is.
RunsAreFairAndWhole == RoundsAreFair /\ ReviewIsWhole
===============================================================================
