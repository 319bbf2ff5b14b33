------------------------------ MODULE RunStore -------------------------------
(****************************************************************************)
(* The durable record of one orchestrator run: its row, what the row says   *)
(* of its run.json projection, and the projection itself, a file beside the *)
(* database that no transaction covers.                                     *)
(****************************************************************************)
EXTENDS RunRow

VARIABLES
  projection,           \* workflow_runs.projection_status
  runJson               \* the revision whose payload run.json holds; 0: none

store == <<revision, payload, projection, runJson>>

ProjectionStates == {"none", "not_requested", "pending", "current", "failed"}

\* A faulty register, for the checks to reject: the status that no reader knows.
InsertUnknown(p, status) ==
  /\ InsertRow(p)
  /\ projection' = "requested"
  /\ UNCHANGED runJson

\* register, with or without the projection that follows it.
Insert(p, status) ==
  /\ InsertRow(p)
  /\ projection' = status
  /\ UNCHANGED runJson

\* save: the same UPDATE makes the projection pending.
Save(p, expected) ==
  /\ CompareAndSwap(p, expected)
  /\ projection' = "pending"
  /\ UNCHANGED runJson

\* _project: the atomic replacement of run.json with the payload of revision r.
WriteRunJson(r) ==
  /\ runJson' = r
  /\ UNCHANGED <<revision, payload, projection>>

\* _project: the separate transaction that records how the projection went,
\* whatever revision the row has by then.
SetProjection(status) ==
  /\ projection' = status
  /\ UNCHANGED <<revision, payload, runJson>>
==============================================================================
