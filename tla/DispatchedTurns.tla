--------------------------- MODULE DispatchedTurns ----------------------------
(****************************************************************************)
(* What ties an answer to the turn that it was asked for.  A hook can be     *)
(* dispatched as a task, whose file holds a receipt of run, turn, task and   *)
(* route; an answer that comes back must carry the receipt of a task that    *)
(* was issued for the pending turn.  A turn without tasks may be answered    *)
(* without a receipt.  The output is cut to the known fields and judged; a   *)
(* rejected turn is asked again, and told what was wrong.                    *)
(*                                                                          *)
(* One run.  What becomes of a receipt in the run store, of the rounds and   *)
(* of a run at its retry limit is in BridgeRuns; what collecting an answer   *)
(* makes of it is in HermesTasks.                                            *)
(****************************************************************************)
EXTENDS Integers, Sequences, FiniteSets

CONSTANTS
  Routes,               \* the session of each turn, in order
  Dispatches,           \* tasks that may be created for turns, numbered as they come
  Replies,              \* callback files, likewise
  CallbackNames,        \* callback ids that the runtime may use
  Submitters,           \* processes that submit
  Required, Expected,   \* the fields of every output; the workflow's, in order
  KnownFields,          \* ALLOWED_OUTPUT_FIELDS, of which canon_mutation may not be given
  MaxListItems,         \* the items kept of a list in a retry context
  ReplyOutputs,         \* bound: what the runtime says
  NoDispatch, NoReply

VARIABLES
  board,                \* the run: pending turn, revision, submissions, advice
  issued,               \* the task files: the turn they are for, and where they are
  reply,                \* what each callback file says
  receipted,            \* callback ids with a receipt row
  submission            \* what each submitting process is doing

dispatchVars == <<board, issued, reply, receipted, submission>>

Elements(list) == {list[i] : i \in DOMAIN list}

\* No list is longer than what is kept of it: five required fields, and fifteen in the
\* longest of the workflow profiles.
ASSUME ListsFit == Len(Required) <= MaxListItems /\ Len(Expected) <= MaxListItems

\* Required fields are known ones, among them the uncertainty, and nobody asks for a change
\* of the canon.
ASSUME FieldsAssumption ==
  /\ Required \in Seq(STRING) /\ Expected \in Seq(STRING) /\ MaxListItems \in Nat
  /\ "uncertainty" \in Elements(Required) \cap KnownFields
  /\ Elements(Required) \subseteq KnownFields
  /\ "canon_mutation" \notin Elements(Required) \cup Elements(Expected)

ASSUME OutputsAssumption ==
  \A output \in ReplyOutputs :
    output \in [given : SUBSET output.given, empty : {output.empty}, labelled : BOOLEAN]

\* Task files, and what callback files say.
Places == {"torn", "queue", "archive"}
TaskFiles == [turn : Nat, place : Places]
Answers ==
  [id : CallbackNames, task : Dispatches \cup {NoDispatch}, receipt : Dispatches \cup {NoDispatch},
   turn : Nat, session : Elements(Routes), output : ReplyOutputs]

ASSUME NothingAssumption ==
  NoDispatch \notin Dispatches \cup TaskFiles /\ NoReply \notin Replies \cup Answers

------------------------------------------------------------------------------
(* Judging an output *)

\* _sanitize_output
Sanitized(output) ==
  [output EXCEPT !.given = @ \cap (KnownFields \cup Elements(Expected))]

\* A field holds something, or an empty list, which only a required field may not.  Lists
\* of fields are given by their places in the list of all that is asked for.
Asked == Required \o Expected
Missing(output, places, mayBeEmpty) ==
  {i \in places : Asked[i] \notin output.given \cup (IF mayBeEmpty THEN output.empty ELSE {})}

RequiredPlaces == 1..Len(Required)
ExpectedPlaces == (Len(Required) + 1)..(Len(Required) + Len(Expected))

QualityGate(output) ==
  [required |-> Missing(output, RequiredPlaces, FALSE),
   expected |-> Missing(output, ExpectedPlaces, TRUE),
   unlabelled |-> ~output.labelled \/ "uncertainty" \notin output.given,
   canon |-> "canon_mutation" \in output.given]
Passed(gate) == gate.required = {} /\ gate.expected = {} /\ ~gate.unlabelled /\ ~gate.canon

\* A faulty list, for the checks to reject: it ends one item before the bound.
BoundedBelow(places) ==
  {i \in places : Cardinality({j \in places : j < i}) < MaxListItems - 1}

\* _bounded_code_list: the first items.
Bounded(places) == {i \in places : Cardinality({j \in places : j < i}) < MaxListItems}

\* _build_retry_context: the fields to supply are bounded once more, when they are joined.
RetryContext(gate) ==
  LET required == Bounded(gate.required)
      expected == Bounded(gate.expected)
      fields(places) == {Asked[i] : i \in places}
  IN  [required |-> fields(required), expected |-> fields(expected),
       supply |-> fields(Bounded(required \cup expected)),
       label |-> gate.unlabelled, remove |-> gate.canon]
NoAdvice == [required |-> {}, expected |-> {}, supply |-> {}, label |-> FALSE, remove |-> FALSE]

------------------------------------------------------------------------------
(* Dispatching a hook, and what comes back *)

\* build_round_prompt_packet: what a hook says of the callback that it wants.
PromptPacket(k) == [turn |-> k, session |-> Routes[k]]

\* The hooks that next has handed out: those of the turns so far.
HandedOut == {PromptPacket(k) : k \in DOMAIN Routes \cap 1..board.turn}

Written == {t \in Dispatches : issued[t] # NoDispatch /\ issued[t].place # "torn"}
InPlace(k, places) == {t \in Written : issued[t].turn = k /\ issued[t].place \in places}

\* create_task with the input of a hook: the receipt is made of its run, turn and route.
\* The file is opened, and then written.
Dispatch(t, hook) ==
  /\ issued[t] = NoDispatch /\ \A d \in Dispatches : d < t => issued[d] # NoDispatch
  /\ issued' = [issued EXCEPT ![t] = [turn |-> hook.turn, place |-> "torn"]]
  /\ UNCHANGED <<board, reply, receipted, submission>>

WriteDispatched(t) ==
  /\ issued[t] # NoDispatch /\ issued[t].place = "torn"
  /\ issued' = [issued EXCEPT ![t].place = "queue"]
  /\ UNCHANGED <<board, reply, receipted, submission>>

\* The runtime answers a hook: with the receipt in a task file, with another task's, or
\* with none and a task id of its own.  It may use a callback id again.
ReplyTo(c, hook, id, t, receipt, output) ==
  /\ reply[c] = NoReply /\ \A d \in Replies : d < c => reply[d] # NoReply
  /\ {t, receipt} \subseteq Written \cup {NoDispatch}
  /\ reply' = [reply EXCEPT ![c] = [id |-> id, task |-> t, receipt |-> receipt,
                                    turn |-> hook.turn, session |-> hook.session,
                                    output |-> output]]
  /\ UNCHANGED <<board, issued, receipted, submission>>

\* An answer as the task packet asks for it.
Honest(answer) ==
  answer.task # NoDispatch /\ answer.receipt = answer.task /\ answer.turn = issued[answer.task].turn

\* collect_callback, of an answer that matches its task: the task file is archived, the
\* callback file stays for the bridge.
CollectReply(c) ==
  /\ reply[c] # NoReply /\ Honest(reply[c])
  /\ issued[reply[c].task].place = "queue"
  /\ issued' = [issued EXCEPT ![reply[c].task].place = "archive"]
  /\ UNCHANGED <<board, reply, receipted, submission>>

------------------------------------------------------------------------------
(* submit *)

NoSubmission ==
  [at |-> "idle", file |-> NoReply, board |-> 0, searched |-> 0, found |-> {}, before |-> {}]
EndSubmission(s) == submission' = [submission EXCEPT ![s] = NoSubmission]
ReplyOf(s) == reply[submission[s].file]
UsedBefore(field) == {x[field] : x \in board.submitted}

\* find_bridge_run, the file, its ids, its turn and its route.  A task id of the
\* runtime's own is a new one.
BeginSubmit(s, c) ==
  /\ submission[s].at = "idle" /\ reply[c] # NoReply
  /\ c \notin UsedBefore("file") /\ reply[c].id \notin UsedBefore("id")
  /\ reply[c].task \notin UsedBefore("task") \ {NoDispatch}
  /\ board.turn <= Len(Routes)
  /\ reply[c].turn = board.turn /\ reply[c].session = PromptPacket(board.turn).session
  /\ submission' = [submission EXCEPT ![s] =
                      [NoSubmission EXCEPT !.at = "search", !.file = c, !.board = board.revision,
                                           !.before = InPlace(board.turn, {"queue", "archive"})]]
  /\ UNCHANGED <<board, issued, reply, receipted>>

\* A faulty order, for the checks to reject: against the way that a task file takes.
ArchiveFirst == <<"archive", "queue">>

\* _issued_dispatch_tasks: the directories, one after the other.
SearchOrder == <<"queue", "archive">>

\* A file that cannot be read yet is passed over.
SearchTasks(s) ==
  LET n == submission[s].searched + 1 IN
  /\ submission[s].at = "search"
  /\ submission' = [submission EXCEPT
                      ![s].found = @ \cup InPlace(ReplyOf(s).turn, {SearchOrder[n]}),
                      ![s].searched = n,
                      ![s].at = IF n = Len(SearchOrder) THEN "bind" ELSE "search"]
  /\ UNCHANGED <<board, issued, reply, receipted>>

\* _validate_callback_binding.  Where no task was issued, any answer will do
\* (_legacy_callback_allowed).
Binds(answer, found) == found # {} => answer.task \in found /\ answer.receipt = answer.task

\* claim_callback, or its ValueError.
BindReply(s) ==
  /\ submission[s].at = "bind"
  /\ IF Binds(ReplyOf(s), submission[s].found) /\ ReplyOf(s).id \notin receipted
       THEN /\ receipted' = receipted \cup {ReplyOf(s).id}
            /\ submission' = [submission EXCEPT ![s].at = "save"]
       ELSE EndSubmission(s) /\ UNCHANGED receipted
  /\ UNCHANGED <<board, issued, reply>>

\* _callback_record; "before" is what tasks there were when the submission began.
CallbackRecord(s) ==
  [file |-> submission[s].file, id |-> ReplyOf(s).id, task |-> ReplyOf(s).task,
   receipt |-> ReplyOf(s).receipt, turn |-> ReplyOf(s).turn, before |-> submission[s].before]

\* The update of the run, unless it was saved meanwhile: the turn is answered, or asked
\* again.
SaveSubmission(s) ==
  LET output == Sanitized(ReplyOf(s).output)
      gate == QualityGate(output)
      saved == [board EXCEPT !.revision = @ + 1, !.submitted = @ \cup {CallbackRecord(s)}]
  IN
  /\ submission[s].at = "save"
  /\ board' = IF submission[s].board # board.revision THEN board
              ELSE IF Passed(gate) THEN [saved EXCEPT !.turn = @ + 1, !.retry = NoAdvice]
              ELSE [saved EXCEPT !.retry = RetryContext(gate), !.rejected = output]
  /\ EndSubmission(s)
  /\ UNCHANGED <<issued, reply, receipted>>

\* The process dies, cannot write, or finds that another command has saved the run.
SubmissionDies(s) ==
  /\ submission[s].at # "idle"
  /\ EndSubmission(s)
  /\ UNCHANGED <<board, issued, reply, receipted>>

------------------------------------------------------------------------------
NoOutput == [given |-> {}, empty |-> {}, labelled |-> FALSE]

DispatchInit ==
  /\ board = [turn |-> 1, revision |-> 1, submitted |-> {}, retry |-> NoAdvice, rejected |-> NoOutput]
  /\ issued = [t \in Dispatches |-> NoDispatch]
  /\ reply = [c \in Replies |-> NoReply]
  /\ receipted = {}
  /\ submission = [s \in Submitters |-> NoSubmission]

DispatchNext ==
  \/ \E t \in Dispatches : WriteDispatched(t) \/ \E hook \in HandedOut : Dispatch(t, hook)
  \/ \E c \in Replies :
       \/ CollectReply(c)
       \/ \E hook \in HandedOut, id \in CallbackNames, output \in ReplyOutputs :
            \E t, receipt \in Dispatches \cup {NoDispatch} : ReplyTo(c, hook, id, t, receipt, output)
  \/ \E s \in Submitters :
       \/ \E c \in Replies : BeginSubmit(s, c)
       \/ SearchTasks(s) \/ BindReply(s) \/ SaveSubmission(s) \/ SubmissionDies(s)

DispatchSpec == DispatchInit /\ [][DispatchNext]_dispatchVars

------------------------------------------------------------------------------
(* Properties *)

\* If a task of the turn was there when the submission began, only an answer to such a
\* task counts, even if its file was archived meanwhile; and no file, id or task counts
\* twice.
AnswersAreBound ==
  /\ \A x \in board.submitted :
       x.before # {} => x.task # NoDispatch /\ x.receipt = x.task /\ issued[x.task].turn = x.turn
  /\ \A x, y \in board.submitted :
       x # y => x.file # y.file /\ x.id # y.id /\ (x.task # y.task \/ x.task = NoDispatch)

\* An answer as its task packet asks for it is not refused for want of its task.
HonestAnswersBind ==
  \A s \in Submitters :
    submission[s].at = "bind" /\ Honest(ReplyOf(s)) => Binds(ReplyOf(s), submission[s].found)

\* docs/en/RUNTIME_BOUNDARIES.md:50: the dispatch receipt binds a callback to the turn
\* and the task (_issued_dispatch_tasks, _validate_callback_binding,
\* _validate_callback_unique).
DispatchesBind == AnswersAreBound /\ HonestAnswersBind

\* An output that was rejected passes once all is done that the retry context asks for
\* (_build_retry_context, quality_gate).
Corrected(output, advice) ==
  [given |-> (output.given \ IF advice.remove THEN {"canon_mutation"} ELSE {})
               \cup advice.required \cup advice.expected \cup advice.supply,
   empty |-> output.empty,
   labelled |-> output.labelled \/ advice.label]
RetryAdviceSuffices ==
  board.retry # NoAdvice => Passed(QualityGate(Sanitized(Corrected(board.rejected, board.retry))))
==============================================================================
