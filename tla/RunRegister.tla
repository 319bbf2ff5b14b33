----------------------------- MODULE RunRegister -----------------------------
(****************************************************************************)
(* What the run store promises to its callers: an orchestrator run is one   *)
(* atomic register.  Every accepted edit is derived from the value it       *)
(* replaces, is applied at most once, and moves the run along its           *)
(* transition table.                                                        *)
(****************************************************************************)
EXTENDS RunStates, Sequences

CONSTANTS Edits,        \* the identities of the edits that callers may make
          NoRun

VARIABLES value         \* the run: its status and the edits it consists of

EditsOf(v) == {v.edits[i] : i \in DOMAIN v.edits}

Init == value = NoRun

Create ==
  /\ value = NoRun
  /\ \E s \in InitialStates : value' = [status |-> s, edits |-> <<>>]

Apply(e, s) ==
  /\ value # NoRun
  /\ e \notin EditsOf(value)
  /\ Permits(value.status, s)
  /\ value' = [status |-> s, edits |-> Append(value.edits, e)]

Next ==
  \/ Create
  \/ \E e \in Edits, s \in RUN_STATES : Apply(e, s)

Spec == Init /\ [][Next]_value
==============================================================================
