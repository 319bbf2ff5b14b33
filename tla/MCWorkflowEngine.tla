-------------------------- MODULE MCWorkflowEngine ---------------------------
(* Instance of WorkflowEngine for TLC: the constants are in the .cfg files. *)
EXTENDS WorkflowEngine

CONSTANTS p1, p2
==============================================================================
