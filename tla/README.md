# WSA in TLA+

WSA keeps fictional worlds in SQLite databases and lets authors, and an external
agent runtime, work on them: orchestrator runs produce drafts, drafts become
tickets, and reviewed tickets change a world's canon. It is a command line
program. Each command is a process of its own, several may run at once, and each
may die at any point; they meet in the databases and in files. This directory
models the parts where that matters, checks them with TLC and proves the core
of them with TLAPS.

Paths below are relative to `src/src/wsa/`, those of documents to `src/`.

## 1. The system

| Part | Code | State | Operations | What makes it correct |
|---|---|---|---|---|
| Storage kernel | `workspace.py`, `unit_of_work.py`, `atomic_io.py` | control database, one database per world | one connection per call, commit or rollback; `BEGIN IMMEDIATE` units of work; creation of stores | a transaction happens or does not; a registered world has its store |
| Run store | `run_store.py` | `workflow_runs` (revision, payload, projection status), `workflow_callback_receipts`, `run.json` | register, get, save with compare-and-swap, repair_projection, claim, complete | no update is lost; verdicts told to callers are true; the projection status is true |
| Workflow engine | `workflow_engine.py` | the status in the payload | register, update, interrupt, resume, close | every status comes from the one it replaced by the transition table |
| Orchestrator bridge | `orchestrator_bridge.py`, `participant_selection.py` | the payload: pending hook, accepted outputs, retries, rounds | next, dispatch, approve_prep, submit | one output per turn, for a task of that turn; receipts, outputs and reports agree; retries end, and their advice helps |
| Autonomous orchestrator | `autonomous_orchestrator.py`, `orchestrator_*.py` | the same row, sessions, the report, candidate tickets | start, decide, interrupt, resume, close; the scene filter | rounds are fair, a run reaches its author whole, a decision is made on the run it was made for |
| Runtime loop | `application/runtime_loop_service.py`, `runtime_adapter.py`, `runtime_support.py` | dispatch plan, child process, callback file | plan, execute, cancel | it ends, leaves no process behind, and says what it did |
| Tickets | `ticket_store.py`, `ticket_application.py`, `ticket_revision_store.py`, `application/ticket_revision_service.py` | `tickets`, `ticket_changes`, `ticket_applications`, `commit_log` | create, materialize, amend, split, merge, review, apply | a change is reviewed, and reaches the canon at most once |
| Change drafts | `application/change_draft_service.py`, `_change_draft_*.py`, `proposal_service.py` | the changes of a packet | compose, preview, amend, part, apply | a change is about whom the author named |
| Canon records | `ticket_validation.py`, `ticket_references.py`, `ticket_deep_persistence.py` | entities, facts, edges, dimensions, deep records | check, resolve, write, revise, retire | intervals, dimensions and references hold; a revision changes what its author saw |
| World services | `world_repository_*.py`, `application/world_service.py`, `world_fork_service.py`, `context.py` | none | export, select, import; assemble a context | what is taken out of a changing world is whole, and fit to be told |
| Review inbox, report mailbox | `application/review_service.py`, `reports.py` | `reports`, HTML files | decide on tickets, runs, reports; create, transition | what is checked still holds when it acts; row and file agree |
| Hermes adapter, transport | `hermes_adapter.py`, `transport.py`, `control_repository.py` | task, callback, archive and state files; messages | create_task, collect_callback, archive, quarantine, send | an answer is collected whole and made known once; messages are in order |
| Review cleanup | `review_cleanup.py`, `artifact_routing.py` | audit files | reject_pending_review, archive_callback_residue | only what waits for review is rejected, and the audit is true |
| Migration, restore, update | `migration.py`, `restore.py`, `update.py` | lock files, backups | plan, apply, back up, restore | no upgrade without a backup; a copy that says it is whole is whole |
| Meetings and mock scenes | `meeting.py`, `orchestrator.py` | sessions, rows, files, a marker | run_meeting, run_mock_scene, decide_report | what is unfinished is found; what is decided is logged |
| Startup interview | `startup.py`, `application/startup_source_*.py` | one profile file | ask, answer, batch, set status, summarise, follow up | readiness and questions rest on what was said |

How they interact: `OrchestratorBridge` and `AutonomousOrchestrator` read a run
through `RunStore`, compute the next payload, and save it through
`WorkflowEngine.update` under the revision they read. A hook is dispatched as a
task file, or executed by the runtime loop; its answer is a callback file, which
`submit` binds to a task of the turn, claims, saves and settles. A run that is
finished creates a report; an author's approval creates a candidate ticket; the
ticket is materialized into a packet of changes, amended, split or merged,
reviewed and applied. What tickets wrote is what contexts, scene filters and
exports read.

What is hard:

- *Interleaving.* Every command reads, computes and saves in several
  transactions; another command runs between any two.
- *Crashes.* Claim, save, projection, report, message and receipt are separate writes.
- *Stale reads.* Validation and guards look at rows read in earlier transactions;
  contexts, filters and exports read table by table.
- *Delivery.* The runtime may answer a hook twice, late, for another task, with a
  bad output, or not at all.
- *Deadlines and cancellation* race the exit of an external program.
- *Legal calls in an odd order*: interrupting an interrupted run, skipping an
  entity that a kept change is about, deciding while a meeting is still written.
- *Bulk operations* that stop half way: migration, restore, cleanup.

`PROJECT.json` lists these hazards at their lines, with the properties that
would catch them.

## 2. The modules

```
RunStates   RunRow   ChangeLedger -- Tickets -- TicketsProofs
    \      /   \       (abstract)     \
     \  RunStore \              MCTickets   CanonRecords
      \    |      \                   \       |
   WorkflowEngine  BridgeRuns          \   WorldForks
     |    \           \                 \   /
     |  RunRegister    \             MCTicketRecords
     |  (abstract)      \
  MCWorkflowEngine,      DispatchedTurns
  WorkflowEngineProofs     \  /
                        MCBridgeRuns

Reports  Messages   RunStates         RuntimeLoop  ScriptedRuns  ActorContext
   \  \   /   /        |                    \           |           /
    \  HermesTasks     |                     \          |          /
     \  Gatherings     |                       --- MCAnswers ---
      \---- ReviewCleanup                        /           \
  MCWorkspaceFiles = these + Maintenance,    ChangeDrafts  SceneFilter
                     StartupProfile
```

A run of a component that shares no state with another would be a run of its
own for each; instead an MC module sets several of them side by side. Its
variable `desk` says which one is at work in a behaviour; the others keep their
initial state. So a behaviour is one of exactly one component, and no property
is weakened by it.

Theorems stand in modules of their own, `<module>Proofs`, each beside the component
it is about: `WorkflowEngine`, `BridgeRuns` (with `DispatchedTurns`), `Tickets` (with
`CanonRecords` and `WorldForks`) and `HermesTasks`. `MailboxProofs` is about the two that file and move reports,
`ReviewCleanup` and `Gatherings`, `WorkspaceProofs` about the two that rewrite the files
of a workspace, `Maintenance` and `StartupProfile`, and `AnswersProofs` about five that share no
state, `RuntimeLoop`, `ScriptedRuns`, `SceneFilter`, `ActorContext` and `ChangeDrafts`. `LoopLemmas` has
what they need about loops and sorted lists. Section 4 goes through them. They are about
the component's own specification, `...Spec`, and not about the MC modules, so that
neither bounds nor `desk` come into them.

### Runs of the orchestrator

**RunStates** is the table of statuses and transitions of `workflow_engine.py`.

**RunRow** is the row of a run: `revision` and `payload`, an insert, and
`CompareAndSwap`. `RunStore` adds the projection: `projection_status` and the
revision whose payload `run.json` holds.

**WorkflowEngine** puts processes on top: a call reads the row (`Edit`,
`Interrupt`, `Resume`, `Close`), validates against a second read (`Update`), saves
(`SaveRun`, `SaveConflict`), and projects (`Project` or `ProjectFails`, then
`MarkCurrent` or `MarkFailed`). Other calls register a run, adopt one that only
has a `run.json`, and repair a projection. A payload is abstracted to its
status, its `interrupted_from` and the list of edits it contains, so that a lost
or doubled edit is visible. `acked`, `refused`, `overlap` and `orphan` are
history variables: what callers were told, and whether projections have
overlapped or died since the last save.

**RunRegister** is what the engine promises: an atomic register to which edits
are applied one after the other, each permitted by the table from the status it
replaces. `IsAtomicRegister` is the refinement.

**BridgeRuns** is a run in runtime-bridge mode with everything that touches it:
the runtime that writes callback files (external: modelled from what `submit`
reads), `submit` with claim, finalization (sessions, then report), save,
projection verdict and receipt; prep approval and prep decisions; interrupt,
resume with its second save of the retry hint, close; and `decide` with its two
reads, the report transition, the save and the candidate ticket. Whether an
output passes the quality gate and which participants join a round are choices
here: the next two modules have them.

**DispatchedTurns** is what ties an answer to its turn: dispatch packets with
their receipts, task files that collectors move while a submission scans for
them in two directories, the binding of an answer, the sanitized output, the
quality gate, and the retry context that tells what was wrong.

**ScriptedRuns** is `AutonomousOrchestrator.run`: budgets, sessions, the
participants called round by round because of questions, objections and
uncertainty, the report, the registration and the marker, with a crash between
any two writes; for a scripted run, and for a bridge run up to its author, whom it
reaches complete, or as partial when one call was rejected up to the retry limit.

**RuntimeLoop** is the guided loop around a hook: a plan that may be stale,
launch, polls, deadline, cancellation, SIGTERM and SIGKILL, the checks of what was
printed, the callback file that must not exist yet, and the submission with the
exceptions it turns into a result and those that escape: before the bridge's claim
(`IngestFailed`), between claim and save (`SaveFails`), and after the save, where the
projection or the marker `.wsa_bridge` cannot be written (`MarkerFails`). The external
program may hang, ignore signals, break its pipe or print anything.

**SceneFilter** is `select_scene_entities`: registry, conditions, place and
entities read one after the other while tickets are applied.

### Tickets and the world

**Tickets** is a world's tickets with the canon behind them. Every ticket
operation is one immediate transaction and therefore one action. Rejecting and
holding are not: `Reject` reads the ticket, `RejectUpdate` writes its status
whatever it is by now, `ReadSequence` and `AppendCommit` (or `AppendFails`) log
it. A change is an identity and `world` counts how often it was applied.

**ChangeLedger** is what the tickets promise of a change: proposed once from what is
fresh, revised, split and merged in review, in one packet at a time, and accepted into
the canon or withdrawn with the whole of its packet. The refinement `ChangesLiveOnce`
reads it off `Tickets`: the packets in review are the open rows, each the set of its
changes; the canon is what the world has exactly once. Reviews, keys, receipts, the
log and candidates are stutters.

**ChangeDrafts** is what a change is *about*: flags parsed in groups, names
resolved against world and draft, generated references, previews, amendments,
splits and merges, and the references resolved at application. A list that the code
builds by a loop is here the items at a set of places, in order (`ItemsAt`), so that
lemmas can be stated of it. `EnoughRefs` bounds the numbers of `draft_entity:N`, and
`RoomFor` the ids; both are endless in the code.

**CanonRecords** is what a change *writes*: the checks at preview, review and
application, their order, portable ids, expected revisions, intervals,
dimensions, and the lifecycle of deep records.

**WorldForks** exports a selection of a changing world table by table, and
imports it into the world of `CanonRecords` by that module's tickets. A record
points to others by `subject` and `object`, and knowledge also by `learned`, to the entity
from whom it was learned; `Selected` drops it when that entity is not selected.

**ActorContext** assembles what a participant is told from seven queries without
a common snapshot: status, time, place, hidden and forbidden records, priority
and the two budgets.

### Files of a workspace

**Reports** and **Messages** are the mailbox (row, then HTML file) and the
runtime messages (number, row, envelope file) that others write to.

**HermesTasks** is the file adapter, one action per file or row: creating a task,
collecting an answer, archive, quarantine, replay check.

**ReviewCleanup** is bulk rejection with its archive of residue and its audit,
beside commands that move one report or save one run. `Account(p)` is what a command has
done so far and will write as its audit; `failed` and `died` are history variables, the
accounts of those that ended by an error (`Fails`) or a crash, and wrote none.

**Gatherings** plays a meeting or a mock scene, write by write, while decisions
on its report may already be made.

**Maintenance** is the stores, and the commands that create, plan, back up,
upgrade and restore them, kept apart only by lock files.

**StartupProfile** is the interview's one JSON file, loaded, brought up to date,
changed and written whole by commands that do not lock it, with the progress and
the follow-up questions computed from it.

### Mutants

Definitions that begin with "A faulty ..." are variants of an action with a
plausible mistake. No specification uses them; the list of mutants in
`PROJECT.json` names the property that finds each.

## 3. The runs

All bounds are constants in the `.cfg` files, or definitions `MC...` of the MC
modules that they name.

| Run | Bounds | Shows |
|---|---|---|
| `engine_race` | 2 processes, 2 edits, 2 target statuses besides those of interrupt, resume and close | `AckedEditsAreDurable`, `RefusedEditsLeaveNoTrace`, `ProjectionTruth`, refinement of `RunRegister`, and under fairness `PendingResolves` |
| `bridge_callbacks` | 2 processes, 2 callbacks, 2 turns, 2 participants, 2 rejections allowed, 2 of interrupt, resume, close; dispatch: 2 tasks, 2 answers, 2 turns, 1 submitter | `OneOutputPerTurn`, `ReceiptsAgree`, `ReceiptsFinal`, `HookWhenAwaiting`, `RetryLimitEndsRun`; `DispatchesBind`, `RetryAdviceSuffices` |
| `bridge_decisions` | 2 processes, 1 callback, 3 commands, decisions included | `TicketsOnlyWhenApproved`, `SavedTransitionsAreLegal`, `ReviewHasReport` |
| `bridge_lost_update` | 2 processes, `decide` and `interrupt` | finding 2 |
| `bridge_interrupted_twice` | 2 interrupts | finding 3 |
| `tickets_lifecycle` | 4 tickets, 2 changes, 4 keys, 1 inbox command in progress; records: 4 tickets over 11 change sets; forks: 4 selections of a world of 18 rows that 2 tickets change, 2 imports | `AppliedAtMostOnce`, `ReceiptsExplainWorld`, `ReviewedBeforeApplied`, `NoChangeIsLost`, refinement of `ChangeLedger`; `CanonIsConsistent`, `RevisedAsSeen`; `ForksAreFaithful` |
| `tickets_rejected` | 2 tickets, 1 rejection | finding 4 |
| `workspace_files` | hermes: 1 task, 2 callback files, 2 commands at once, 3 in all; cleanup: 2 reports, 2 runs, 1 left-over file, 2 commands at once, 2 in all; maintenance: control store and 1 world, 2 commands, 2 time stamps, 1 destination, 1 death; startup: 2 questions, 3 commands of 13, 1 death, 3 initial profiles; gatherings: 2 seats, 2 decisions | `CollectedWholeAndOnce`, `SequencesFollow`; `CleanupIsRecorded`, `ReportHasItsFile`; `StoresAreKept`, `CopiesAreWhole`; `StartupIsHonest`; `GatheringsAreRecorded` |
| `answers` | loop: 2 commands, 1 turn; script: 9 budgets, up to 3 participants and 3 rounds, 3 outputs, retry limit 2, 2 rejections; context: 12 records, 4 tickets, 9 requests; drafts: 3 tickets, 3 command lines, 1 import, 1 candidate; scene: 4 entities, 3 tickets, 45 requests | `ExecutionIsAccountedFor` and, under fairness, `ExecutionEnds`; `RunsAreFairAndWhole`; `ToldIsRight`; `DraftsMeanWhatTheySay`; `ScenesAreExplained` |
| `answers_torn_context` | the context of `answers` | finding 5 |
| `answers_skipped_entity` | the drafts of `answers` | finding 6 |
| `answers_untold_ingestion` | the loop of `answers`, 1 command | finding 1: violates `IngestionIsTold` |

Why the bounds are enough. Two processes suffice for every race between a read
and a save, since a conflict involves one stale process and the row. Two edits
make a lost and a doubled one visible. Two turns with two callbacks give a
replay, a second answer and a late answer; two participants make a round end and
a new one begin. `MaxCommands` and its like bound how many commands are given, not
when. Four tickets allow a merge of two packets followed by an amendment or a
rejection; the interaction of ticket transactions is otherwise through statuses
of one source at a time. One inbox command suffices because all other ticket
operations interleave with it. For files, two commands give every overlap, and
one death of each kind every half-done state a later command may find. Budgets
of `ScriptedRuns` lie on both sides of what `participants * rounds` needs, and the
rejections reach `RetryLimit` on one call, or fall on two calls and miss it;
budgets and times of a context lie on both sides of a record's boundary. In a
dispatch one submitter suffices, because two meet only in the row, which is
`BridgeRuns`' subject; `MaxListItems` is 3 there for lists of 2 and 3 fields, as it
is 16 in the code for lists of 5 and 15: a sum of two lists exceeds it, one does
not (`ListsFit`).

`CHECK_DEADLOCK FALSE` is given because all commands may have been given and all
tickets settled: the system rests.

Symmetry: processes and callbacks (`BridgeRuns`), ticket ids, changes and
processes (`Tickets`), commands, callback files and time stamps (`workspace_files`)
are interchangeable; only safety is checked there. The runs with a liveness
property use no symmetry.

Fairness: `Fairness` in `WorkflowEngine` is weak fairness of `Continue(p)`, the
steps of a call that has begun. The operating system runs a process that can go
on, and SQLite's locks are released by it. Nothing obliges anybody to start a
call, so nothing else is fair. A process may die at any step: `PendingResolves`
excuses exactly the projections whose process died. `LoopFairness` is the same of
an execution that has begun, and of the passing of its deadline. The external
program owes nothing, not even to die of SIGTERM, and nobody owes a cancellation;
SIGKILL is a step of the command.

## 4. What is proved

### The engine

`WorkflowEngineProofs` proves, for any set of processes, any bound on edits and
any set of target statuses:

- `TypeCorrect`: `Spec => []TypeOK`
- `AckedDurable`, `RefusedNoTrace`, `ProjectionTrue`: the invariants of
  `engine_race`
- `AtomicRegister`: `Spec => IsAtomicRegister`

The assumptions are those named in the modules: `NoRun` is no payload, `NoState` no
status, targets are statuses, the bound is a number. None of the invariants is
inductive. The inductive invariant `IInv` adds what the code relies on without
saying it: what a process between its read and its save holds is a payload that
extends the row of the revision it read, so that when the compare-and-swap
succeeds the row has not changed since; an edit in progress is in no row and no
verdict; after the save it is in the row; revisions a process knows do
not exceed the row's; and, unless projections overlapped, a process that
projects knows the latest revision. From this each invariant follows, and the
refinement follows because `SaveRun` maps to `Apply` of the edit that the
process was making, with a transition that `Update` validated against the very
row it replaces: had the row changed after the validation, the revision would
have changed too.

### Tickets

`TicketsProofs` proves every property that `tickets_lifecycle` checks of the module
`Tickets`, for any finite set of ticket ids, and any sets of changes, keys and
review commands:

- `TypeCorrect`: `Spec => []TypeOK`
- `AppliedOnce`, `WorldExplained`, `HeirsKnown`: the invariants; the last, that a
  superseded ticket is the parent of another, is proved only
- `ReviewedFirst`, `NothingLost`: the action properties
- `ImplementsLedger`: `Spec => ChangesLiveOnce`, the refinement of `ChangeLedger`

The assumptions: `NoTicket` is no id and no row, the ids are finite (a split
counts its children), ids are keys, the bound on reviews is a number.

`AppliedAtMostOnce` is far from inductive: nothing in it keeps two packets in
review from holding the same change. The inductive invariant `CInv` adds what
keeps them apart. Packets in review hold disjoint changes (`OpenApart`) that
the world does not have (`OpenUnapplied`); a receipt and a review command name a
ticket that exists (`ReceiptsUsed`, `TargetsUsed`); and the receipts explain the
world. It needs no premise about the inbox: a rejection that comes too late
closes a ticket twice, which finding 4 is about, but it never opens one.

The argument goes through one predicate, `LegalTable`, which says what a step
may do to the table: tickets keep their changes and parents, none is reopened,
what a new packet holds is fresh or comes from a packet that the same step
closes, new packets are disjoint, approvals and applications are earned,
superseded tickets get heirs, and what was in review is kept. One lemma per
action shows its step legal (`CreatePacketLegal` to `InboxLegal`); the invariants
then follow from legality alone, except for `Apply`, the only step that changes
the world. `LInv` adds that an approval is in the log of its own ticket.

For the refinement the lemmas also say which tickets leave review and which packets
come in (`Replaces`, `OpensWith`). `Replacement` turns that into what is seen of the packets
and of the fresh changes. It needs that a packet is known by its changes, which
`OpenApart` gives once no packet in review is empty (`NoneEmpty`). Then one lemma per
action names the step of the ledger (`ProposalRefines` to `RejectRefines`): a rejection
withdraws a packet in review, and is a stutter of one that was already decided.

### Records of the canon

`TicketsProofs` also proves, of `CanonRecords`, for any tickets and change sets:

- `CanonStaysConsistent`: `CanonSpec => []CanonIsConsistent`
- `TicketsReviseAsSeen`: `CanonSpec => RevisedAsSeen`

`DraftsAssumption` says that a change set is a sequence of changes, and that `Unseen` is
no state of a record. Nothing is assumed of what the changes say.

A ticket is checked as a whole, against the world as it is and against itself, and then
applied change by change to a world that it is changing. So the argument is about all
its changes at once. `Sound` collects what the checks establish (`ValidIsSound`): each
deep record is about a row of the world or about what another change of the same
import brings, spans of one dimension agree in their type, and intervals are none that
end before they begin. `Reached` is the invariant of the loop: the rows that were there
are still there, with their tables; what the changes done so far bring is there; each
dimension is an old one or that of a change; each deep record is about what an old
record or a change was about; and `IntervalsHold` and `SpansFitDimensions` hold
already. A reference need not resolve half way. After the last change everything is
brought, and it does (`ReachedIsCoherent`). So the sort by `PORTABLE_APPLY_ORDER` matters
for the change_refs of facts and edges, and not for this; all that is needed of it is that
it loses no change (`SortedIs`, by `RanksTaken`). The loop goes by `LoopInduction`. A
change that fails ends in a rollback, so nothing is claimed of it.

For `RevisedAsSeen` the invariant (`Remembered`) says that what a person saw of a record
is, from then on, the `expected` of the change that revises it. No ticket revises a record
twice, hence a look remembers one state of each; and whoever looks again captures
only where nothing was captured. The application compares with the row as the loop
has left it, but also once before, in the check that all of its changes pass.

### Forks

And it proves `ForksStayFaithful`: `ForkSpec => []ForksAreFaithful`, for any exported
world, any tickets of that world, any selections and any number of importing tickets.
`SourceAssumption` says of the exported world what its tables and checks keep: an id is
one record for ever, ids are no world's and not 0, intervals end after they begin, a
dimension has one type, deep records are not about the world, knowledge is about facts
as long as these are there. It does not say that a record's neighbours exist: a row may
name an id that no row has.

- *Nothing is lost.* The invariant counts the tables that have been read; of these all
  that was there from the start is exported (`ReadOn`). Entities are read first, so that the
  queries entity by entity miss none of them. `SelectionIsFaithful` carries this over
  the selection: the rounds of `Dependencies` end when nothing is added, since each
  round before that adds an entity (`DependenciesClose`).
  Knowledge is kept if its source is selected; that a source be selected because
  of it is what the guide says, and the code does not (section 5).
- *It arrives.* What a selection keeps, it keeps with what that refers to (`Chosen`), however
  torn the export was. So an import of it passes every check (`ChosenIsValid`). The
  sort puts entities before the facts and edges that name them by `change_ref`
  (`ImportSorted`), and the loop of the application has the invariant `Landed`: the
  records so far are in the world, each as it was, and stand for themselves. Here the
  order does matter, unlike for `CanonIsConsistent`.
- *Whole, and once.* Every ticket of `ForkSpec` is an import of the same export
  (`OnlyImports`). What the first brings makes the check of the second fail. An export of a
  whole world may be one that no world accepts; then nothing is applied.

### Bridge runs

`BridgeRunsProofs` is for any number of commands, callbacks, turns, rounds and
participants, any limit on retries and any commands given:

- `TypeCorrect`, and the invariants `OneOutput`, `LimitEndsRun`, `ReportReady`,
  `TicketsApproved`
- `HookWaits`: while no prep review can be held, `[]HookWhenAwaiting`
- `ReceiptsTrue` and `NoStaleSave`: without `decide`, `[]ReceiptsAgree`, and whatever
  is saved was computed from the row that it replaces
- `VerdictsFinal`, `TransitionsLegal`: the action properties

The assumptions are those on the constants, and `NoValueAssumption`: what stands for
nothing is no callback, no payload and no process. The inductive invariant says
what a call in flight holds: a revision that the row has had, and, if it
still has it, the payload that the row holds; between save and receipt, the output
that the row accepted; before the save of a final turn, a report and closed sessions.
The two premises are the code's own defects, not conveniences. Holding a prep review
interrupts the run without `interrupted_from`, so that a resumed run awaits a callback
without a hook. And `decide` saves, under the revision that it read second, the
payload that it read first (finding 2): an output may be accepted, receipted, and
overwritten. `TicketsApproved` needs no premise: `decide` can only bring
back what it read, and what it read was no approval.

### Dispatched turns

`BridgeRunsProofs` also proves `AnswersBind`: `DispatchSpec => []DispatchesBind`, for any
set of tasks, answers, turns and submitters. The hard part is the search for a task's
file, which looks in the queue, then in the archive, while collectors move
files from one to the other. The invariant says of a submission in its search that
what it must find it has found, or it is in the archive, or it is in the queue and the
queue was not looked at yet. That is what the order of the two directories gives: in
the other order the theorem is false. Files move one way and are in neither only
before they are written. An answer counts once because a submission compared its file,
callback id and task with those of the run, and while nobody has saved the run since,
that still holds.

`AdviceSuffices`: `DispatchSpec => []RetryAdviceSuffices`. Lists of fields are given by
the places of the fields in the list of all that is asked for, so that the first `n`
items of a list are those with fewer than `n` before them. `ListsFit` is a fact of the
workflow profiles: neither list is longer than what a retry context keeps of one.
`FieldsAssumption` and `OutputsAssumption` say that required fields are known, that nobody
asks for `canon_mutation`, and that an output is the record the model makes of it.
`AdviceSound` says that the advice of a run is of the output it last rejected.

### The runtime loop

`AnswersProofs` proves `ExecutionTold`: `ExecutionIsAccountedFor`, for any set of
commands and turns. The invariant reads the progress that an execution reports as
its memory of what it did: at each place it says whether a program was started, whether
it is known to be gone, and what of its output was checked, so that wherever the
execution returns or raises, result and program agree. One way out is excepted, and
remembered in `did` as "unmarked": finding 1.

### Runs and their rounds

`AnswersProofs` proves `RunsFairAndWhole`: `ScriptSpec => []RunsAreFairAndWhole`, for any
requests and any answers. `AsksAssumption` says that a request has participants, a
mode and three numbers, which may be too small or negative; `OutputsAssumption`, that an
answer is unsure or not, risky or not, and names whomever it likes, who need not exist.

The invariant `ScriptInv` has a part for each thing that the code keeps in step. Of the
floor: those called in this round are those before its index, each earlier round called
at most everybody and the first one everybody, so that the calls so far are at most
`n * (round - 1) + index`. Of the voices: answers come in the order of the calls, all
calls but the awaited one are answered, and who was not heard asks for nothing. Of the
command: the place it is at tells what it has done, a session at a time. Two arguments
carry it. `BudgetFits`: the smallest of rounds, turns and `calls \div n`, times `n`,
is within the calls. And a later round may select fewer than all, by objections and
questions, but never one whom the first round missed, because the first is over only
when everybody was called; `NextHookSound` goes through the ways a round may end.

A run that is not partial reaches its author with every call answered and everybody
heard. Where the retry limit cuts a run short, the theorem claims less, and says how
much: the package is marked as partial, its report warns, its sessions are closed, the
retries were used up, and one call, the last, has no answer.

A list of participants in ascending order is defined by counting who is smaller;
`AscendingLists` shows that such a list has everybody of the set, once. There is no
induction theorem that the provers can apply to an operator, so this goes by
the least counterexample (`LeastExists`, from the well-foundedness of `<`).

### The context of an actor

`AnswersProofs` proves `ActorsAreToldRight`: `ContextSpec => []ToldIsRight`, for any
records, tickets and requests. `RecAssumption` says that there are finitely many records,
whose ids are in order, and that nothing has a negative weight; `RequestsAssumption`, that
budgets are numbers.

The invariant `ContextInv` says what the queries that are done have found: a record that
no ticket touched is among the rows exactly if it is visible and one of these queries
returns it, whatever happened to other records between the queries. The rest is about
`_apply_budget`, a sort and a loop. `RanksTaken` shows that a list sorted by counting what
comes before each record has every record, once. `LoopInduction` gives the loop its
invariant `Fair`: nothing is told twice, what is told weighs what the counters say and is
within the budget, and no record left out fits behind those told before it.
Weights are sums over sets of records; they are stated as numbers of units (characters,
tokens), so that `UnitsAdd` is a fact of cardinalities.

Both lemmas are in `LoopLemmas`, and inductions over data. They go by the least
counterexample (`LeastExists`), stated of a set of numbers; and that a recursive
function is what its definition says, by the least length at which it would not exist
(`LoopExists`).

### What authors write

`AnswersProofs` proves `DraftsStayMeant`: `DraftsSpec => []DraftsMeanWhatTheySay`, for any
refs, flags, imports, candidates, revisions, partitions and number of tickets.
`AuthoringAssumption` says that ids and the refs that are generated are used once, that
flags have the fields of their kind, and that what comes from outside (an import, the
payload of a candidate) names nobody as looked up before. `Blank`, the empty text, is a
constant, since the provers take no literal for a text of its own.

The property is about two moments, when a name is resolved and when the ticket is applied,
and what may happen between them: other tickets are applied, entities get the name, the
ticket is amended, merged or split. The invariant `DraftsInv` carries it from one to the
other:

- *Kindred*: what is said of a name is about an entity of the world that has the name,
  the only one of those whom the author saw; or, if the author saw none, about an entity
  of the change set itself. The first stays true since entities are only added, with ids of
  their own (`WorldGrows`); the second since amendments and merges keep the entities of
  their sources (`KeptIsKindred`, `MergedIsWhole`), unless one is skipped.
- *Ordered*: a reference comes after the entity it names, and that is the last of that ref
  before it (`LastNamed`). The resolution brings it about, by putting entities first
  (`NormalizedIsWhole`). A merge lines up lists whose refs may coincide, since each
  numbers its own; it keeps the order inside each list, so the last entity of a ref before
  a change is still that of its own ticket. This is why the application must look up refs
  as it goes on, and not collect them before.

`NewFactsAreKept` and `OrderedIsFound` conclude. Tickets whose changes were parted, by a
split or by a revision that skips an entity, are excepted, as finding 6 says they must be.
The order of an imported ticket is its own, hence only *Kindred* is claimed of it.
What is claimed of applying a draft excepts refs of facts' objects that nobody looks up before.

### Who may be in a scene

`AnswersProofs` proves `FilterExplains`: `FilterSpec => []ScenesAreExplained`, for any
names, worlds, tickets, requests and limits. `FilterAssumption` says that those whom a
world or a ticket makes active exist, and that conditions are numbered. The invariant
`FilterInv` relates what was read to the history of what held. What holds now has held,
and a place found by its name remains one. Each candidate met, at some moment, every
condition applied so far; and as long as no ticket was applied, nobody else did.
Conditions are applied or still to be read exactly if their dimension was in the
registry when that was read: were the contract built with the registry read again,
as the mutant does, a condition could be neither applied nor told as a gap. `CutAtLimit`
shows that the list, if it leaves anybody out, has exactly as many as the limit says.

### The file adapter

`HermesTasksProofs` is for any number of tasks, callback files, sessions and commands:

- `CollectedRight`: `HermesSpec => []CollectedWholeAndOnce`
- `MessagesFollow`: `HermesSpec => []SequencesFollow`
- `Layers`: the inductive invariant, `HermesSpec => [](Basic /\ Ordered /\ Once)`

`NoneAssumption` says that what stands for nothing is no callback, answer or packet, and
`NoReportAssumption` the same of reports. The invariant has three layers, each
inductive given those before it. `Basic` says for each place a command may be at what
it has done: in particular that after the message is sent its report has a file, and
after the task's file was looked for it is in the archive and never comes back, for
its creator is gone. `Ordered` says of the INSERT that is due that its number exceeds
those its SELECT saw, and of a message that it saw only earlier ones; then a number
read before the transaction may be taken twice, but never goes backwards. `Once` is about
tasks that nothing disturbed: one command at most is busy with the task, and it
knows, by where it is, whether a report or a message was made of an answer; when it
is past the replay check none was. The replay check and the last write are far
apart, and this layer says what lies between.

### Review cleanup

`MailboxProofs` proves `CleanupRecorded` and `ReportsHaveTheirFiles` for any reports,
runs, left-over files and commands. `MovesAssumption` says that moves lead to mailbox
states. A listing is stale when it is used; the invariant says what it still means: a
run whose revision is the listed one has the listed payload, so that the
compare-and-swap rejects only what awaits its author. For reports nothing is
compared, and `ReportHasItsFile` excludes overlaps: the invariant lists the files that
a report has while one command moves it, by how far the command is. A file in the
archive or in an audit was listed for this world.

That the audits are complete is a statement about what they miss. Each step of a bulk
command puts what it changes into its own account, or ends the command and leaves the
account among those that `failed` or `died` (`StepTold`); so what bulk commands have
rejected or archived is always in an account (`CompleteKept`), and only an account that
reaches `WriteAudit` becomes an audit. What the change log says beyond that, of approved
reports and of commands that fail, is not so (section 5).

### Meetings and scenes

`MailboxProofs` also proves `GatheringsRecorded`: `GatheringsAreRecorded` for any number
of seats, of commands that decide and of decisions. `MinutesAssumption` says that the
report is one of the reports and that seats are counted.

What must hold of an agenda is `AgendaSound`: each message row is followed by its
envelope; the report, its file and the name of the file are three items in a row and
occur once; every seat answers; the marker is last and occurs once; a scene writes
its receipt before everything that must not go unnoticed. `Agendas` proves it of both
agendas, whatever the seats, part by part: `Joined` says what two parts keep when one
follows the other, `Frame` what remains when the report and the marker come
in, and `EachSeatPart` what holds of the five items of each seat.

The inductive invariant `GatheringInv` has three parts. `PlaySound`: what the agenda
says up to the place of the command is done, and nothing else is. `DecideSound`: a
decision is about a report that exists, and only an approval that was logged makes a
candidate. `CalmSound` is about decisions that neither overlap nor die: it says, by
where a decision is, what row, files and log are, so that each hands the next a
report whose row, file and last log agree.

### Maintenance

`WorkspaceProofs` proves `StoresKept` and `CopiesWhole` for any worlds, commands,
time stamps, destinations and deaths. The lock files are not used in the proof: they
delay commands, and what is promised does not rest on them. It rests on these. Who
creates a world has it to itself until it is listed. A planned store is old, or
somebody upgraded it after a backup. What a command copied of a store that is still
old is old. A destination is filled from a whole, sealed backup. No two jobs
share a world that is being made, a backup or a destination.

### Startup interview

`WorkspaceProofs` also proves `StartupTruthful`: `StartupIsHonest` for any number of
editors and questions, any commands, deaths, and profiles that other versions left. Its
assumptions are on the constants:

- `OldProfilesAssumption`: what another version left in a profile was given to it. What
  the answer meant is recorded, or can be told from its text, or from its choice and the
  mode, or from its choice and the label that it has in the lists of a mode.
- `StartupCommandsAssumption`: the commands are those of the command line, and a
  follow-up reads finitely many sources.
- `StartupAssumption`: there are fewer than 200 questions (the program has 10 of its
  own). The progress is a rounded percentage: of 200 questions one that is open would
  not be seen, and the summary would say that all is decided.

The inductive invariant `StartupSound` is about two kinds of profile. The file is a
`LeftProfile`, for a command may not have brought it up to date yet, and what a command
has in its hands is an `HonestProfile`, in which the meaning, the origin and the frame of
every answer are recorded, and true. `BroughtUp` leads from the first to the second: the
upgrade infers the mode of an old answer from its label, and `LabelsTellModes` says that
what is inferred is what was meant. `PerformedIsHonest` says that every command keeps an
honest profile honest, whatever another has written meanwhile: the records of what was
given and approved only grow. `TrueSummary` and `GroundedFollowUp` say of one honest
profile what the property says of all that are told.

### Only model-checked

- The liveness of `PendingResolves` and `ExecutionEnds`, which is out of the proof
  system's reach.
- Type invariants other than those of `WorkflowEngine`, `Tickets`, `BridgeRuns` and
  `RuntimeLoop`: what the proofs need of them is part of their inductive invariants.

What the findings say is refuted by TLC, of the instance that the run names.

## 5. Findings

Each is a run that ends in a violation, of a sentence of the repository.

1. `application/runtime_loop_service.py:191`: `ingest_failed` is told of an answer that
   the run has taken, when the marker `.wsa_bridge` (`orchestrator_bridge.py:500`) cannot
   be written after the durable save.
2. `autonomous_orchestrator.py:1145`: `decide` reads payload and revision
   separately, so the compare-and-swap accepts a stale payload. In the run a submission
   whose rejection ends the run at its retry limit is undone by a `retry`.
3. `workflow_engine.py:117`: interrupting twice forgets where to resume.
4. `application/review_service.py:176`: a rejection that races an application
   marks an applied ticket rejected.
5. `context.py:58`: a context assembled while tickets are applied may tell a fact
   that was never both visible and not forbidden.
6. `application/_change_draft_references.py:55`: a revision that skips an entity
   and adds another gives the new one the old reference, and with it the facts
   that were kept.

`bridge_callbacks` leaves out `decide`: with its lost update, a run may await a
callback without a hook.

Two more sentences of the repository do not hold. No run is given to them: the models do
what the code does, and the properties claim less than the sentences, and say so:

- *Forks.* docs/en/USAGE_GUIDE.md:177 says that "Selective exports include outgoing
  entity dependencies". The loop of `selective_export` does not follow knowledge to the
  entity it was learned from, and `application/world_fork_service.py:153` drops such knowledge
  if that entity is not selected otherwise. `Selected` does the same, and
  `ForksLoseNothing` claims knowledge only with its source.
- *Cleanup.* change_log/v0.2.14-review-cleanup-lifecycle.html:117 says "Approved reports
  are excluded.", and line 151 that the audit "records what changed". A report approved
  since the listing (`review_cleanup.py:98`) is rejected all the same: `UpdateMoved`
  looks at no status. A command that fails, for instance because a rejected run cannot be
  projected (`review_cleanup.py:382`), leaves no audit of what it did: `Fails`.
  `CleanupIsRecorded` claims neither, and says in `Accounts` where the audits end.

What the models show besides, without a sentence of the repository against it:

- *Projections.* `_project` marks whatever the row has become (`run_store.py:273`). Of two
  overlapping saves the first has written `run.json` and not yet marked it when the second
  saves; the mark calls the new row current. If the second dies before it projects,
  `run.json` stays behind the row, and nothing tells so. `ProjectionTruth` excepts
  projections that overlapped.
- *Runs.* Holding a prep review interrupts the run without `interrupted_from`
  (`application/review_service.py:273`), so that resuming it awaits a callback for a
  hook that does not exist. A deterministic callback id whose save failed leaves
  its turn stuck: the file exists and is not overwritten. An approval that dies
  after the save leaves no ticket; two approvals may create two.
- *Dispatch.* The stdio program's own receipt passes as "legacy_compatibility" if
  no task was issued for the turn, and is refused if one was. A task file being
  written counts as none. `_bounded_code_list` truncates to 16 before it removes
  duplicates, so the `supply_fields` of a long list may lack its last field; the
  retry context as a whole still says all that is wrong (`RetryAdviceSuffices`
  reads its three lists together). A retry of a turn needs a new task id.
- *Rounds.* An objection that names another participant selects it in every later
  round.
- *Hermes.* A missing callback id is noticed at the last step of collecting, when
  report and message exist. The last write of `create_task` may overwrite a
  collected state. A quarantine after completion erases the callback's id.
- *Maintenance.* A lock left by a crash blocks every later command, `migrate --apply`
  included, although docs/en/RELEASE_AND_MIGRATION.md:7 speaks of rerunning. Two
  migrations at once write one lock file, which the first to end removes. `init_workspace` that
  dies between file and schema leaves a control store without a version, which
  blocks planning for ever. A world created between planning and the copy of
  the control store leaves a backup that restore refuses. A failed restore leaves
  its destination, which blocks a second attempt.
- *Records.* A deep record that names a change_ref but brings no portable id makes
  others resolve it to a new id, which no row has (`ticket_application.py:139`).
- *Tickets.* A ticket whose fact comes before its entity passes review and can
  never be applied, unless it is amended; an "id:" reference and the object "ref:" of
  a fact are not looked up before application, so a merge may put such a fact before the
  entity it names. Splits and merges renumber
  references. A merged ticket that is amended names itself as root
  (`ticket_store.py:266`): the lineage is only displayed, and not modelled.
- *Forks.* An export of a whole world cannot be imported if it holds an edge whose
  object is the world, a fact whose object is no exported entity, or knowledge
  about scenes, or if it was torn; a selective export drops these silently. It
  keeps facts and edges *about* the world and drops edges *to* it.
- *Contexts.* Ids of hidden records that are left out appear in the receipt of the
  context. Attributions that forbid are themselves told. Hidden facts are withheld
  even from the actor they are about unless it is said to know them.
- *Scenes.* A condition or a place that cannot be resolved restricts nothing and is
  told as a gap. Keys with spaces never match the registry. The number of
  candidates counts inactive entities.
- *Meetings.* An approval and a "retry" at once may leave a rejected report with a
  candidate ticket. A decision between the report's INSERT and the naming of its
  file is overwritten. Unfinished meetings are not diagnosed, only scenes; a mock
  scene that dies early leaves actors and a scene row that no diagnosis reports.
- *Startup.* Commands that only show the profile rewrite it, and ignore the update
  lock. Old questions that were kept count for the minimum frame; a legacy answer
  like "not sure" counts as explicit; `set_status` can make an agent's proposal an
  author's answer.

## 6. Not modelled

- The rest of the command line, the Hermes command catalog, `uninstall.py`,
  `template.py`, artifact maps, report exports and the other diagnostics: parsing,
  formatting, read-only views, and the removal of files the user names.
- The texts of prompts, drafts, contracts and reports; the checks of one field of
  a change alone; HTML.
- The lineage fields of tickets: nothing reads them but displays.
- The update of the package itself, which happens outside the program. The
  preflight and the backup of `update.py`, and the lock that whoever updates sets, are
  in `Maintenance`; its other checks only read.
- Methods of the repositories that insert or select single rows in one
  transaction for the command line.
- Power loss: `atomic_io.py` syncs only on request, and SQLite is trusted to be
  atomic. A crash here is the death of a process.

## 7. Plan

Every safety invariant that a passing run checks has a theorem. What a next step would be:

- a refinement of the life of tickets in `Tickets` by that of `ChangeDrafts`, which have it
  each for themselves, and of the rows of `CanonRecords` by its facts;
- type invariants as theorems of their own, where they are now parts of others;
- the two hazards of `PROJECT.json` that no property covers: `append_commit`, and the lineage
  of merged tickets.
