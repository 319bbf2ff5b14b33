------------------------------ MODULE RunStates ------------------------------
(****************************************************************************)
(* The workflow states of an orchestrator run and the transition table that *)
(* WorkflowEngine enforces on every update of a run.                        *)
(****************************************************************************)

RUN_STATES ==
  {"awaiting_prep_review", "awaiting_callback", "awaiting_author_review",
   "canonization_pending", "retry_requested", "interrupted", "rejected",
   "closed"}

ALLOWED_TRANSITIONS ==
  [awaiting_prep_review   |-> {"awaiting_callback", "interrupted", "closed"},
   awaiting_callback      |-> {"awaiting_callback", "awaiting_author_review",
                               "interrupted", "closed"},
   awaiting_author_review |-> {"awaiting_author_review",
                               "canonization_pending", "retry_requested",
                               "interrupted", "rejected", "closed"},
   canonization_pending   |-> {"closed"},
   retry_requested        |-> {"awaiting_callback", "interrupted", "closed"},
   interrupted            |-> RUN_STATES \ {"interrupted"},
   rejected               |-> {},
   closed                 |-> {}]

\* _validate_transition: a state may always be written over itself, whatever
\* the table says.
Permits(previous, target) ==
  \/ target = previous
  \/ target \in ALLOWED_TRANSITIONS[previous]

\* The states a run is registered in: a bridge run before or after its prep
\* review, a deterministic run already finished.
InitialStates ==
  {"awaiting_prep_review", "awaiting_callback", "awaiting_author_review"}
==============================================================================
