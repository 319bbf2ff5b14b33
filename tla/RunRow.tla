------------------------------- MODULE RunRow --------------------------------
(****************************************************************************)
(* The row of one orchestrator run in the control database's workflow_runs  *)
(* table.  Every operator below is one SQLite transaction: the unit between *)
(* which another process of the CLI may run, or this one may die.  What a   *)
(* payload holds is left to the modules that extend this one.               *)
(****************************************************************************)
EXTENDS Naturals

CONSTANT NoRun          \* the payload of a run that has no row

VARIABLES
  revision,             \* workflow_runs.revision; 0 when there is no row
  payload               \* workflow_runs.payload (and .status, always equal)

row == <<revision, payload>>

Registered == revision # 0

\* register: the INSERT, under BEGIN IMMEDIATE and after its existence check.
InsertRow(p) ==
  /\ ~Registered
  /\ revision' = 1
  /\ payload' = p

\* A faulty save, for the checks to reject: the UPDATE without the comparison
\* of revisions.
SaveUnchecked(p, expected) ==
  /\ Registered
  /\ revision' = revision + 1
  /\ payload' = p

\* save: the compare-and-swap, one BEGIN IMMEDIATE transaction.
CompareAndSwap(p, expected) ==
  /\ Registered
  /\ revision = expected
  /\ revision' = revision + 1
  /\ payload' = p

\* save when another writer was first: ConcurrentRunUpdateError.
Stale(expected) == revision # expected
==============================================================================
