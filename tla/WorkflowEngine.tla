--------------------------- MODULE WorkflowEngine ----------------------------
(****************************************************************************)
(* RunStore and WorkflowEngine under concurrent callers.                    *)
(*                                                                          *)
(* Every CLI call is a process of its own; the database and the file system *)
(* are all they share.  A call that changes a run reads its row, computes a *)
(* new payload, has WorkflowEngine.update read the row again and validate   *)
(* the transition, saves with a compare-and-swap on the revision it first   *)
(* read, then writes run.json and, in one more transaction, records that it *)
(* did.  Between any two of these steps other calls run, and the process    *)
(* may die.                                                                 *)
(*                                                                          *)
(* One run is modelled: no statement of the store reads or writes two.      *)
(****************************************************************************)
EXTENDS RunStore, RunStates, Sequences

CONSTANTS
  Procs,                \* the calls that may be in progress at the same time
  MaxCalls,             \* bound: writing calls they make between them
  Targets,              \* the statuses that callers of update ask for
  NoState               \* "interrupted_from" of a run never interrupted

ASSUME MaxCallsAssumption == MaxCalls \in Nat
ASSUME TargetsAssumption == Targets \subseteq RUN_STATES
ASSUME NoRunAssumption == NoRun \notin
  [status : RUN_STATES, from : RUN_STATES \cup {NoState},
   edits : Seq(1..MaxCalls)]
ASSUME NoValueAssumption == NoRun \notin
  [status : RUN_STATES, edits : Seq(1..MaxCalls)]

VARIABLES
  pc,                   \* where each call is
  at,                   \* the revision it expects, then the one it projects
  want,                 \* the payload it is about to save
  edit,                 \* the edit it makes; 0 for none
  calls,                \* how many edits have been attempted
  \* The rest is history that no call reads.
  acked,                \* edits whose call learnt that they are durable
  refused,              \* edits whose call was told they were not made
  overlap,              \* projections overlapped since the last save
  orphan                \* a call died while it was projecting

callVars == <<pc, at, want, edit, calls>>
history == <<acked, refused, overlap, orphan>>
vars == <<store, callVars, history>>

Edits == 1..MaxCalls
Payloads == [status : RUN_STATES, from : RUN_STATES \cup {NoState},
             edits : Seq(Edits)]
Steps == {"idle", "adopt", "update", "save", "project", "mark", "fail"}

Projecting(p) == pc[p] \in {"project", "mark", "fail"}

------------------------------------------------------------------------------
(* Steps of a call *)

Goto(p, step) == pc' = [pc EXCEPT ![p] = step]

\* A call that ends forgets what it read.
Return(p) ==
  /\ Goto(p, "idle")
  /\ at' = [at EXCEPT ![p] = 0]
  /\ want' = [want EXCEPT ![p] = NoRun]
  /\ edit' = [edit EXCEPT ![p] = 0]
  /\ UNCHANGED calls

\* The call raises, and its caller knows the edit was not made.
Refuse(p) ==
  /\ Return(p)
  /\ refused' = refused \cup {edit[p]}
  /\ UNCHANGED <<store, acked, overlap, orphan>>

\* store.get, and the caller computes the payload to save: one edit more, a
\* status and an interrupted_from.  RunStore.get is one SELECT, so revision and
\* payload belong together.
Start(p, status, from) ==
  /\ pc[p] = "idle"
  /\ Registered
  /\ calls < MaxCalls
  /\ calls' = calls + 1
  /\ edit' = [edit EXCEPT ![p] = calls + 1]
  /\ at' = [at EXCEPT ![p] = revision]
  /\ want' = [want EXCEPT ![p] =
                [status |-> status, from |-> from,
                 edits |-> Append(payload.edits, calls + 1)]]
  /\ Goto(p, "update")
  /\ UNCHANGED <<store, history>>

\* The callers of update that choose the status themselves: approve_prep,
\* submit, decide, the prep decisions and the review cleanup.
Edit(p) == \E s \in Targets : Start(p, s, payload.from)

\* interrupt: permitted from "interrupted" too, because it is the same status.
Interrupt(p) ==
  /\ Registered
  /\ Permits(payload.status, "interrupted")
  /\ Start(p, "interrupted", payload.status)

\* resume: returns the record as it is unless the run is interrupted.
Resume(p) ==
  /\ Registered
  /\ payload.status = "interrupted"
  /\ Start(p, IF payload.from = NoState THEN "awaiting_callback"
                                        ELSE payload.from, payload.from)

\* close: returns the record as it is when the run is closed.
Close(p) ==
  /\ Registered
  /\ payload.status # "closed"
  /\ Permits(payload.status, "closed")
  /\ Start(p, "closed", payload.from)

\* A faulty update, for the checks to reject: it saves without validating.
UpdateUnvalidated(p) ==
  /\ pc[p] = "update"
  /\ Goto(p, "save")
  /\ UNCHANGED <<store, at, want, edit, calls, history>>

\* update: read the row again and validate against the status found there.
Update(p) ==
  /\ pc[p] = "update"
  /\ Permits(payload.status, want[p].status)
  /\ Goto(p, "save")
  /\ UNCHANGED <<store, at, want, edit, calls, history>>

\* update: ValueError, invalid workflow transition.
UpdateInvalid(p) ==
  /\ pc[p] = "update"
  /\ ~Permits(payload.status, want[p].status)
  /\ Refuse(p)

OthersProject(p) == \E q \in Procs \ {p} : Projecting(q)

\* Entering _project after a transaction that made the projection pending.
EnterProjection(p) ==
  /\ Goto(p, "project")
  /\ overlap' = OthersProject(p)
  /\ orphan' = FALSE

SaveRun(p) ==
  /\ pc[p] = "save"
  /\ Save(want[p], at[p])
  /\ at' = [at EXCEPT ![p] = revision']
  /\ EnterProjection(p)
  /\ UNCHANGED <<want, edit, calls, acked, refused>>

SaveConflict(p) ==
  /\ pc[p] = "save"
  /\ Stale(at[p])
  /\ Refuse(p)

Project(p) ==
  /\ pc[p] = "project"
  /\ WriteRunJson(at[p])
  /\ Goto(p, "mark")
  /\ UNCHANGED <<at, want, edit, calls, history>>

ProjectFails(p) ==
  /\ pc[p] = "project"
  /\ Goto(p, "fail")
  /\ UNCHANGED <<store, at, want, edit, calls, history>>

\* The caller learns that its edit is durable: save returned, or it raised
\* ProjectionWriteError.  Register and repair carry no edit.
Acknowledge(p) ==
  acked' = IF edit[p] = 0 THEN acked ELSE acked \cup {edit[p]}

MarkCurrent(p) ==
  /\ pc[p] = "mark"
  /\ SetProjection("current")
  /\ Return(p)
  /\ Acknowledge(p)
  /\ UNCHANGED <<refused, overlap, orphan>>

\* A faulty handler, for the checks to reject: it tells the caller that the
\* durable edit was not made.
MarkFailedAsRefused(p) ==
  /\ pc[p] = "fail"
  /\ SetProjection("failed")
  /\ Return(p)
  /\ refused' = refused \cup {edit[p]}
  /\ UNCHANGED <<acked, overlap, orphan>>

\* A faulty handler, for the checks to reject: it ignores the failed write.
MarkFailedAsCurrent(p) ==
  /\ pc[p] = "fail"
  /\ SetProjection("current")
  /\ Return(p)
  /\ Acknowledge(p)
  /\ UNCHANGED <<refused, overlap, orphan>>

\* A faulty handler of a failed write, for the checks to reject: it raises and
\* leaves the status as it was.
ForgetFailed(p) ==
  /\ pc[p] = "fail"
  /\ UNCHANGED store
  /\ Return(p)
  /\ Acknowledge(p)
  /\ UNCHANGED <<refused, overlap, orphan>>

MarkFailed(p) ==
  /\ pc[p] = "fail"
  /\ SetProjection("failed")
  /\ Return(p)
  /\ Acknowledge(p)
  /\ UNCHANGED <<refused, overlap, orphan>>

------------------------------------------------------------------------------
(* Calls without an edit *)

NewPayload(s) == [status |-> s, from |-> NoState, edits |-> <<>>]

\* register, by the command that creates the run, for a path without run.json.
Register(p) ==
  /\ pc[p] = "idle"
  /\ runJson = 0
  /\ \E s \in InitialStates : Insert(NewPayload(s), "pending")
  /\ at' = [at EXCEPT ![p] = 1]
  /\ EnterProjection(p)
  /\ UNCHANGED <<want, edit, calls, acked, refused>>

\* find_bridge_run and find_orchestrator_run: no row, but a run.json of an
\* earlier release.  They read the file and register it without projecting.
FindUnregistered(p) ==
  /\ pc[p] = "idle"
  /\ ~Registered
  /\ runJson = 1
  /\ Goto(p, "adopt")
  /\ UNCHANGED <<store, at, want, edit, calls, history>>

Adopt(p) ==
  /\ pc[p] = "adopt"
  /\ \E s \in InitialStates : Insert(NewPayload(s), "not_requested")
  /\ Goto(p, "idle")
  /\ UNCHANGED <<at, want, edit, calls, history>>

\* Another call registered the run since: ValueError, already registered.
AdoptRefused(p) ==
  /\ pc[p] = "adopt"
  /\ Registered
  /\ Goto(p, "idle")
  /\ UNCHANGED <<store, at, want, edit, calls, history>>

\* repair_projection: get, then _project with what was read.
Repair(p) ==
  /\ pc[p] = "idle"
  /\ Registered
  /\ at' = [at EXCEPT ![p] = revision]
  /\ Goto(p, "project")
  /\ overlap' = (overlap \/ OthersProject(p))
  /\ UNCHANGED <<store, want, edit, calls, acked, refused, orphan>>

\* The process dies: what it had not written is gone.
Crash(p) ==
  /\ pc[p] # "idle"
  /\ Return(p)
  /\ orphan' = (orphan \/ Projecting(p))
  /\ UNCHANGED <<store, acked, refused, overlap>>

------------------------------------------------------------------------------
Init ==
  /\ revision = 0
  /\ payload = NoRun
  /\ projection = "none"
  /\ runJson \in {0, 1}
  /\ pc = [p \in Procs |-> "idle"]
  /\ at = [p \in Procs |-> 0]
  /\ want = [p \in Procs |-> NoRun]
  /\ edit = [p \in Procs |-> 0]
  /\ calls = 0
  /\ acked = {}
  /\ refused = {}
  /\ overlap = FALSE
  /\ orphan = FALSE

Begin(p) ==
  \/ Register(p) \/ FindUnregistered(p) \/ Repair(p)
  \/ Edit(p) \/ Interrupt(p) \/ Resume(p) \/ Close(p)

Continue(p) ==
  \/ Adopt(p) \/ AdoptRefused(p)
  \/ Update(p) \/ UpdateInvalid(p)
  \/ SaveRun(p) \/ SaveConflict(p)
  \/ Project(p) \/ ProjectFails(p) \/ MarkCurrent(p) \/ MarkFailed(p)

Next == \E p \in Procs : Begin(p) \/ Continue(p) \/ Crash(p)

Spec == Init /\ [][Next]_vars

\* A call that has begun goes on: the operating system runs the process.
\* Nobody is obliged to make a call, and nothing obliges a process to die.
Fairness == \A p \in Procs : WF_vars(Continue(p))

FairSpec == Spec /\ Fairness

------------------------------------------------------------------------------
(* Correctness *)

\* The shape of the state.
TypeOK ==
  /\ revision \in Nat
  /\ payload \in Payloads \cup {NoRun}
  /\ projection \in ProjectionStates
  /\ runJson \in Nat
  /\ pc \in [Procs -> Steps]
  /\ at \in [Procs -> Nat]
  /\ want \in [Procs -> Payloads \cup {NoRun}]
  /\ edit \in [Procs -> 0..MaxCalls]
  /\ calls \in 0..MaxCalls
  /\ acked \subseteq Edits
  /\ refused \subseteq Edits
  /\ overlap \in BOOLEAN
  /\ orphan \in BOOLEAN

EditsOf(v) == {v.edits[i] : i \in DOMAIN v.edits}
DurableEdits == IF payload = NoRun THEN {} ELSE EditsOf(payload)

\* An edit whose call returned, or raised ProjectionWriteError ("Raised after DB
\* state is durable"), is part of the run for good, whatever other calls and
\* crashes do.
AckedEditsAreDurable == acked \subseteq DurableEdits

\* A call that was told "revision changed" or "invalid workflow transition" left
\* nothing behind: nobody may retry it and find its edit there twice.
RefusedEditsLeaveNoTrace == refused \cap DurableEdits = {}

\* The calls together implement one atomic register: although each of them
\* validates outside the transaction that saves, no update is lost or applied
\* twice and every status the table sees came from the status it replaced.
RunRegisterOf == INSTANCE RunRegister WITH
  value <- IF payload = NoRun THEN NoRun
           ELSE [status |-> payload.status, edits |-> payload.edits]

IsAtomicRegister == RunRegisterOf!Spec

\* When no projections overlapped since the last save, "current" is true: run.json holds
\* the payload of the row, also after crashes, failed writes and repairs.
ProjectionTruth ==
  (~overlap /\ projection = "current") => runJson = revision

\* A saved payload does not stay "pending" unless the call projecting it died.
PendingResolves ==
  (projection = "pending" /\ ~orphan) ~> (projection # "pending" \/ orphan)

==============================================================================
