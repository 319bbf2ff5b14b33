---------------------------- MODULE MCBridgeRuns -----------------------------
(****************************************************************************)
(* The bridge for TLC: what commands make of its run, and what ties an       *)
(* answer to the turn that was dispatched.  They share no state here: "desk" *)
(* says which of them is at work.  The constants are in the .cfg files.      *)
(****************************************************************************)
EXTENDS BridgeRuns, DispatchedTurns, TLC

CONSTANTS p1, p2, c1, c2, c3, Desks

VARIABLE desk

\* Commands and callback ids are interchangeable.  No liveness is checked here.
Symmetry == Permutations(Procs) \cup Permutations(Callbacks)
ProcSymmetry == Permutations(Procs)

\* One participant in two rounds.  What it says, in more fields than a retry context
\* keeps: all, or next to nothing of use.
MCRoutes == <<"s1", "s1">>
MCRequired == <<"gaps", "uncertainty">>
MCExpected == <<"gaps", "answer", "scene_beat">>
MCKnownFields == Elements(MCRequired) \cup {"answer", "canon_mutation"}
MCReplyOutputs ==
  {[given |-> MCKnownFields \ {"canon_mutation"}, empty |-> {"scene_beat"}, labelled |-> TRUE],
   [given |-> {"canon_mutation", "chatter"}, empty |-> {}, labelled |-> FALSE]}

BridgeInit ==
  /\ desk \in Desks
  /\ Init /\ DispatchInit
  /\ desk = "dispatch" => payload = CHOOSE new \in InitialRuns : TRUE
BridgeNext ==
  /\ UNCHANGED desk
  /\ \/ desk = "bridge" /\ Next /\ UNCHANGED dispatchVars
     \/ desk = "dispatch" /\ DispatchNext /\ UNCHANGED vars

BridgeSpec == BridgeInit /\ [][BridgeNext]_<<desk, vars, dispatchVars>>
==============================================================================
