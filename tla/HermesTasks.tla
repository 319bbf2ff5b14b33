----------------------------- MODULE HermesTasks ------------------------------
(****************************************************************************)
(* The file adapter between the program and the runtime.  A task is created  *)
(* as a message, a file in hermes/task_queue and a task state; the runtime   *)
(* answers with a file in hermes/callbacks; collecting the answer makes a    *)
(* report and a message of it, archives both files, and last writes the task *)
(* state, which is what keeps the answer from being collected twice.         *)
(*                                                                          *)
(* Every action is one file operation or one transaction of one command.     *)
(****************************************************************************)
EXTENDS Reports, Messages

CONSTANTS
  Tasks,
  Callbacks,            \* callback files
  Procs,                \* commands of the CLI that may run at once
  MaxCalls,             \* bound: commands given
  None                  \* no answer; no callback

VARIABLES
  tasks,                \* the task packets: their session and whether they are bound
  queue, archive,       \* the tasks with a file in task_queue, in task_archive
  taskState,            \* hermes/task_state: status and the callback it names
  answers,              \* what the callback files say
  inbox, filed,         \* the files in hermes/callbacks, in hermes/callback_archive
  quarantine,           \* callback files that a quarantine record is about
  call,                 \* what each command is doing
  calls,                \* how many commands were given
  disturbed             \* tasks with commands that overlapped, died or stopped half way

packets == <<tasks, queue, archive, taskState>>
callbackFiles == <<answers, inbox, filed, quarantine>>
ghosts == <<calls, disturbed>>
hermesVars == <<mailbox, transport, packets, callbackFiles, call, ghosts>>

\* What is wrong with an answer: its route or shape; its operation requests or the
\* status of its report, which are looked at later; its message type, later still;
\* its callback id, last of all.
Faults == {"none", "route", "operations", "message_type", "callback_id"}
Answers ==
  {a \in [task : Tasks, fault : Faults, report : BOOLEAN] :
     a.fault \in {"route", "operations"} => ~a.report}
Packets == [session : Sessions, bound : BOOLEAN]
TaskStates ==
  [status : {"none", "queued", "quarantined", "collected"}, callback : Callbacks \cup {None}]

\* A report is known by the task it is about.
ASSUME ReportIdsAssumption == ReportIds \subseteq Tasks \X Nat
ASSUME MaxCallsAssumption == MaxCalls \in Nat
ASSUME NoneAssumption == None \notin Callbacks \cup Answers \cup Packets

\* What a command holds: the sequence it read, how many messages there were then,
\* and the message or the report it made.
Idle == [op |-> "idle", task |-> None, callback |-> None, at |-> "start",
         sequence |-> 0, after |-> 0, made |-> None]
Busy(p) == call[p].op # "idle"
Collecting(p) == call[p].op = "collect"
Creating(p) == call[p].op = "create"
At(p, place) == Busy(p) /\ call[p].at = place
Answer(p) == answers[call[p].callback]

IntentOf(t) == <<"intent", t>>
ReportOf(c) == <<"final_report", c>>
About(p) == IF Creating(p) THEN IntentOf(call[p].task) ELSE ReportOf(call[p].callback)
SessionOf(p) == tasks[call[p].task].session

Go(p, place) == call' = [call EXCEPT ![p].at = place]
End(p) == call' = [call EXCEPT ![p] = Idle]

\* Another command is busy with this task.
Shared(p, t) == \E q \in Procs \ {p} : Busy(q) /\ call[q].task = t
Disturb(ts) == disturbed' = disturbed \cup ts

Begin(p, op, t, c, place) ==
  /\ ~Busy(p) /\ calls < MaxCalls
  /\ call' = [call EXCEPT ![p] = [Idle EXCEPT !.op = op, !.task = t,
                                             !.callback = c, !.at = place]]
  /\ calls' = calls + 1
  /\ Disturb(IF Shared(p, t) THEN {t} ELSE {})

------------------------------------------------------------------------------
(* create_task *)

\* Up to the dispatch receipt: a session is started unless one is given.
CreateTask(p, t, s, bound) ==
  /\ tasks[t] = None
  /\ Begin(p, "create", t, None, "send")
  /\ tasks' = [tasks EXCEPT ![t] = [session |-> s, bound |-> bound]]
  /\ IF s \in sessions THEN UNCHANGED transport ELSE StartSession(s)
  /\ UNCHANGED <<mailbox, queue, archive, taskState, callbackFiles>>

\* _dispatch_receipt_for_input: a bridge input that does not match its route.  The
\* session is there, the task is not.
CreateRefused(p, s) ==
  /\ ~Busy(p) /\ calls < MaxCalls
  /\ StartSession(s)
  /\ calls' = calls + 1
  /\ UNCHANGED <<mailbox, packets, callbackFiles, call, disturbed>>

WriteTask(p) ==
  /\ At(p, "write_task") /\ Go(p, "write_state")
  /\ queue' = queue \cup {call[p].task}
  /\ UNCHANGED <<mailbox, transport, tasks, archive, taskState, callbackFiles, ghosts>>

\* _write_task_state(task_id, "queued"), whatever the task state says by then.
WriteQueued(p) ==
  /\ At(p, "write_state") /\ Creating(p) /\ End(p)
  /\ taskState' = [taskState EXCEPT ![call[p].task] =
                     [status |-> "queued", callback |-> None]]
  /\ UNCHANGED <<mailbox, transport, tasks, queue, archive, callbackFiles, ghosts>>

------------------------------------------------------------------------------
(* RuntimeTransport.send, for both commands *)

\* validate_message_type comes before anything is written here, but after the report.
SendInvalid(p) ==
  /\ At(p, "send") /\ Collecting(p) /\ Answer(p).fault = "message_type"
  /\ End(p)
  /\ Disturb({call[p].task})
  /\ UNCHANGED <<mailbox, transport, packets, callbackFiles, calls>>

ReadSequence(p) ==
  /\ At(p, "send")
  /\ Collecting(p) => Answer(p).fault # "message_type"
  /\ call' = [call EXCEPT ![p].at = "insert",
                          ![p].sequence = NextSequence(SessionOf(p)),
                          ![p].after = Len(messages)]
  /\ UNCHANGED <<mailbox, transport, packets, callbackFiles, ghosts>>

SendInsert(p) ==
  /\ At(p, "insert")
  /\ InsertMessage(SessionOf(p), About(p), call[p].sequence, call[p].after)
  /\ call' = [call EXCEPT ![p].at = "envelope", ![p].made = Len(messages')]
  /\ UNCHANGED <<mailbox, packets, callbackFiles, ghosts>>

SendEnvelope(p) ==
  /\ At(p, "envelope")
  /\ WriteEnvelope(call[p].made)
  /\ Go(p, IF Creating(p) THEN "write_task" ELSE "archive")
  /\ UNCHANGED <<mailbox, packets, callbackFiles, ghosts>>

------------------------------------------------------------------------------
(* The runtime *)

\* It writes any number of answers to a task whose file it has seen.
RuntimeAnswers(c, answer) ==
  /\ answers[c] = None
  /\ answer.task \in queue \cup archive
  /\ answers' = [answers EXCEPT ![c] = answer]
  /\ inbox' = inbox \cup {c}
  /\ UNCHANGED <<mailbox, transport, packets, filed, quarantine, call, ghosts>>

\* archive_callback_residue, by another command: the file is moved away.
ResidueArchived(c) ==
  /\ c \in inbox
  /\ inbox' = inbox \ {c}
  /\ filed' = filed \cup {c}
  /\ UNCHANGED <<mailbox, transport, packets, answers, quarantine, call, ghosts>>

------------------------------------------------------------------------------
(* collect_callback: validation *)

Collect(p, c) ==
  /\ c \in inbox
  /\ Begin(p, "collect", answers[c].task, c, "find")
  /\ UNCHANGED <<mailbox, transport, packets, callbackFiles>>

\* _load_task asks whether the queue has the file, then opens one or the other.
FindTask(p) ==
  /\ At(p, "find")
  /\ Go(p, IF call[p].task \in queue THEN "load_queued" ELSE "load_archived")
  /\ UNCHANGED <<mailbox, transport, packets, callbackFiles, ghosts>>

LoadTask(p) ==
  /\ \/ At(p, "load_queued") /\ Go(p, IF call[p].task \in queue THEN "check" ELSE "quarantine")
     \/ At(p, "load_archived") /\ Go(p, IF call[p].task \in archive THEN "check" ELSE "quarantine")
  /\ UNCHANGED <<mailbox, transport, packets, callbackFiles, ghosts>>

\* A faulty replay check, for the checks to reject: only the same callback is one.
SameCallback(p) == taskState[call[p].task].callback = call[p].callback

\* _validate_callback_not_collected
Replayed(p) == taskState[call[p].task].callback # None

\* HermesAdapterReplayError is not quarantined.
ReplayBlocked(p) ==
  /\ At(p, "check") /\ Replayed(p) /\ End(p)
  /\ UNCHANGED <<mailbox, transport, packets, callbackFiles, ghosts>>

\* _validate_callback_shape, _validate_callback_route; then, outside the try,
\* _operation_requests_if_any and the report's status.
Validate(p) ==
  /\ At(p, "check") /\ ~Replayed(p)
  /\ CASE Answer(p).fault = "route"      -> Go(p, "quarantine")
       [] Answer(p).fault = "operations" -> End(p)
       [] OTHER -> Go(p, IF Answer(p).report THEN "report" ELSE "send")
  /\ UNCHANGED <<mailbox, transport, packets, callbackFiles, ghosts>>

\* _quarantine_callback reads the file again for its task id.
Quarantine(p) ==
  /\ At(p, "quarantine")
  /\ quarantine' = quarantine \cup {call[p].callback}
  /\ IF call[p].callback \in inbox THEN Go(p, "quarantine_state") ELSE End(p)
  /\ UNCHANGED <<mailbox, transport, packets, answers, inbox, filed, ghosts>>

\* The task state then names no callback, whatever it named before.
WriteQuarantined(p) ==
  /\ At(p, "quarantine_state") /\ End(p)
  /\ taskState' = [taskState EXCEPT ![call[p].task] =
                     [status |-> "quarantined", callback |-> None]]
  /\ UNCHANGED <<mailbox, transport, tasks, queue, archive, callbackFiles, ghosts>>

------------------------------------------------------------------------------
(* collect_callback: effects *)

\* create_world_report, in three steps.  Its id is new.
ReportRow(p, r) ==
  /\ At(p, "report")
  /\ r[1] = call[p].task
  /\ InsertReport(r, "inbox")
  /\ call' = [call EXCEPT ![p].at = "render", ![p].made = r]
  /\ UNCHANGED <<transport, packets, callbackFiles, ghosts>>

ReportFile(p) ==
  /\ At(p, "render")
  /\ RenderReport(call[p].made, "inbox")
  /\ Go(p, "name_file")
  /\ UNCHANGED <<transport, packets, callbackFiles, ghosts>>

ReportNamed(p) ==
  /\ At(p, "name_file")
  /\ UpdateReport(call[p].made, "inbox", "inbox")
  /\ Go(p, "send")
  /\ UNCHANGED <<transport, packets, callbackFiles, ghosts>>

\* A faulty order, for the checks to reject: the task state is written before the
\* files are archived.
SettleFirst(p) ==
  /\ At(p, "archive")
  /\ Go(p, IF call[p].task \in queue THEN "move_task" ELSE "archive_callback")
  /\ taskState' = [taskState EXCEPT ![call[p].task] =
                     [status |-> "collected", callback |-> call[p].callback]]
  /\ UNCHANGED <<mailbox, transport, tasks, queue, archive, callbackFiles, ghosts>>

\* _archive_completed_task_files asks whether a file is there, then moves it.
FindTaskFile(p) ==
  /\ At(p, "archive")
  /\ Go(p, IF call[p].task \in queue THEN "move_task" ELSE "archive_callback")
  /\ UNCHANGED <<mailbox, transport, packets, callbackFiles, ghosts>>

MoveTask(p) ==
  /\ At(p, "move_task") /\ call[p].task \in queue
  /\ Go(p, "archive_callback")
  /\ queue' = queue \ {call[p].task}
  /\ archive' = archive \cup {call[p].task}
  /\ UNCHANGED <<mailbox, transport, tasks, taskState, callbackFiles, ghosts>>

\* A bridge task's callback stays, for the orchestrator bridge to ingest.
FindCallback(p) ==
  /\ At(p, "archive_callback")
  /\ Go(p, IF ~tasks[call[p].task].bound /\ call[p].callback \in inbox
             THEN "move_callback" ELSE "settle")
  /\ UNCHANGED <<mailbox, transport, packets, callbackFiles, ghosts>>

MoveCallback(p) ==
  /\ At(p, "move_callback") /\ call[p].callback \in inbox
  /\ Go(p, "settle")
  /\ inbox' = inbox \ {call[p].callback}
  /\ filed' = filed \cup {call[p].callback}
  /\ UNCHANGED <<mailbox, transport, packets, answers, quarantine, ghosts>>

\* The file went between the question and the move: OSError, to the caller.
MoveFails(p) ==
  /\ \/ At(p, "move_task") /\ call[p].task \notin queue
     \/ At(p, "move_callback") /\ call[p].callback \notin inbox
  /\ End(p)
  /\ Disturb({call[p].task})
  /\ UNCHANGED <<mailbox, transport, packets, callbackFiles, calls>>

\* The task state, with the callback id, which is first asked for here.
WriteCollected(p) ==
  /\ At(p, "settle") /\ Answer(p).fault # "callback_id" /\ End(p)
  /\ taskState' = [taskState EXCEPT ![call[p].task] =
                     [status |-> "collected", callback |-> call[p].callback]]
  /\ UNCHANGED <<mailbox, transport, tasks, queue, archive, callbackFiles, ghosts>>

CallbackIdMissing(p) ==
  /\ At(p, "settle") /\ Answer(p).fault = "callback_id" /\ End(p)
  /\ Disturb({call[p].task})
  /\ UNCHANGED <<mailbox, transport, packets, callbackFiles, calls>>

\* The process dies.
HermesCrash(p) ==
  /\ Busy(p) /\ End(p)
  /\ Disturb({call[p].task})
  /\ UNCHANGED <<mailbox, transport, packets, callbackFiles, calls>>

------------------------------------------------------------------------------
NoHermes ==
  /\ TransportInit
  /\ tasks = [t \in Tasks |-> None]
  /\ queue = {} /\ archive = {}
  /\ taskState = [t \in Tasks |-> [status |-> "none", callback |-> None]]
  /\ answers = [c \in Callbacks |-> None]
  /\ inbox = {} /\ filed = {} /\ quarantine = {}
  /\ call = [p \in Procs |-> Idle]
  /\ calls = 0
  /\ disturbed = {}

HermesInit == MailboxInit /\ NoHermes

Creation(p) == WriteTask(p) \/ WriteQueued(p)
Sending(p) == SendInvalid(p) \/ ReadSequence(p) \/ SendInsert(p) \/ SendEnvelope(p)
Checking(p) ==
  FindTask(p) \/ LoadTask(p) \/ ReplayBlocked(p) \/ Validate(p)
    \/ Quarantine(p) \/ WriteQuarantined(p)
Reporting(p) == (\E r \in ReportIds : ReportRow(p, r)) \/ ReportFile(p) \/ ReportNamed(p)
Settling(p) ==
  FindTaskFile(p) \/ MoveTask(p) \/ FindCallback(p) \/ MoveCallback(p) \/ MoveFails(p)
    \/ WriteCollected(p) \/ CallbackIdMissing(p)

\* What a command does once it has begun.
HermesContinue(p) ==
  Creation(p) \/ Sending(p) \/ Checking(p) \/ Reporting(p) \/ Settling(p)

HermesNext ==
  \/ \E p \in Procs :
       \/ \E t \in Tasks, s \in Sessions, bound \in BOOLEAN : CreateTask(p, t, s, bound)
       \/ \E s \in Sessions : CreateRefused(p, s)
       \/ \E c \in Callbacks : Collect(p, c)
       \/ HermesContinue(p)
       \/ HermesCrash(p)
  \/ \E c \in Callbacks, answer \in Answers : RuntimeAnswers(c, answer)
  \/ \E c \in Callbacks : ResidueArchived(c)

HermesSpec == HermesInit /\ [][HermesNext]_hermesVars

------------------------------------------------------------------------------
(* Properties *)

HermesTypeOK ==
  /\ reports \in [ReportIds -> ReportRows \cup {NoReport}]
  /\ files \subseteq ReportIds \X MailboxStates
  /\ sessions \subseteq Sessions
  /\ envelopes \subseteq DOMAIN messages
  /\ tasks \in [Tasks -> Packets \cup {None}]
  /\ queue \subseteq Tasks /\ archive \subseteq Tasks
  /\ taskState \in [Tasks -> TaskStates]
  /\ answers \in [Callbacks -> Answers \cup {None}]
  /\ inbox \cap filed = {} /\ queue \cap archive = {}
  /\ quarantine \subseteq Callbacks
  /\ calls \in 0..MaxCalls
  /\ disturbed \subseteq Tasks

\* A task state that names a callback is written last: whatever died or overlapped,
\* the message of that callback was sent, with its envelope, its report has its
\* file, and the task has left the queue.
CollectedIsComplete ==
  \A t \in Tasks :
    LET c == taskState[t].callback
    IN  c # None =>
          /\ \E i \in SentAbout(ReportOf(c)) : i \in envelopes
          /\ answers[c].report => \E r \in ReportIds : r[1] = t /\ Reported(r) /\ ArtifactExists(r)
          /\ t \in archive \ queue

\* The replay check makes one message and one report of a task's answers, however
\* many there are, unless commands about the task overlapped, died or stopped half
\* way: the check reads what the last step writes.
CollectedOnce ==
  \A t \in {u \in Tasks : tasks[u] # None} \ disturbed :
    /\ \A i, j \in DOMAIN messages :
         (\E c, d \in Callbacks : /\ answers[c] # None /\ answers[c].task = t
                                 /\ answers[d] # None /\ answers[d].task = t
                                 /\ messages[i].about = ReportOf(c)
                                 /\ messages[j].about = ReportOf(d)) => i = j
    /\ \A r, q \in ReportIds :
         r[1] = t /\ q[1] = t /\ Reported(r) /\ Reported(q) => r = q

\* What collect_callback promises of a task, in whatever order its commands overlap
\* and wherever they die: its answer is collected whole, and made known once.
CollectedWholeAndOnce == CollectedIsComplete /\ CollectedOnce

\* Two senders may take the same sequence, but who began after another message was
\* in the table has a larger one: order by sequence is an order that commands saw.
SequencesFollow ==
  \A i, j \in DOMAIN messages :
    messages[i].session = messages[j].session /\ i <= messages[j].after
      => messages[i].sequence < messages[j].sequence
==============================================================================
