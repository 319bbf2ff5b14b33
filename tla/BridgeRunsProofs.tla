--------------------------- MODULE BridgeRunsProofs ---------------------------
(****************************************************************************)
(* Proofs about BridgeRuns for any number of commands, callbacks, turns,     *)
(* rounds and participants; and about DispatchedTurns for any number of      *)
(* tasks, answers, fields and processes that submit.                         *)
(*                                                                          *)
(* Three of the properties need the absence of a command that breaks them:   *)
(* "decide", which saves what it read under a revision it read later, and    *)
(* "prep", whose hold forgets the status to resume to.  The parts of the     *)
(* invariant that they break are stated under that condition; all the rest   *)
(* is proved with every command there is.                                   *)
(****************************************************************************)
EXTENDS BridgeRuns, DispatchedTurns, FiniteSetTheorems, TLAPS

------------------------------------------------------------------------------
(* The inductive invariant, in parts. *)

Decisions == {"approve", "retry", "hold"}
Kinds ==
  {"none", "submit", "approve_prep", "prep", "interrupt", "resume", "hint", "close"}
    \cup Decisions

\* A command that holds a payload it means to save.
InFlight(p) == pc[p] \in {"claim", "sessions", "report", "update", "save"}
Holds(p) == InFlight(p) \/ pc[p] \in {"revision", "decide_report"}

\* A submission that has claimed its callback and not settled it.
Owning(p) ==
  /\ task[p].kind = "submit"
  /\ pc[p] \in {"sessions", "report", "update", "save", "project", "complete", "failed"}

\* What a command is doing fits where it is.
TaskFits(p) ==
  /\ at[p] <= revision
  /\ task[p].kind = "submit"
       => task[p].callback \in Callbacks /\ answers[task[p].callback] # NoAnswer
  /\ pc[p] \in {"claim", "sessions", "report", "complete", "failed"}
       => task[p].kind = "submit"
  /\ pc[p] \in {"revision", "decide_report"} => task[p].kind \in Decisions
  /\ pc[p] = "ticket" => task[p].kind = "approve"
  /\ task[p].kind \in Decisions => "decide" \in Commands

\* The outputs of a payload answer the turns in order, and are good.
OutputsSound(r) ==
  \A i \in DOMAIN r.outputs :
    /\ answers[r.outputs[i]] # NoAnswer
    /\ answers[r.outputs[i]].turn = i
    /\ answers[r.outputs[i]].good

\* Before its prep review is approved, also while it is interrupted, a run has not begun.
AtPrep(r) ==
  \/ r.status = "awaiting_prep_review"
  \/ r.next_action = "review_prep_report"
  \/ r.status = "interrupted" /\ r.from = "awaiting_prep_review"
PrepSound(r) ==
  AtPrep(r) => ~r.pending /\ r.outputs = <<>> /\ r.round = 1 /\ r.rejections = 0

\* A run that awaits a callback, or will when it is resumed, has rejections left.
Awaits(r) ==
  \/ r.status = "awaiting_callback"
  \/ r.status = "interrupted" /\ r.from \in {"awaiting_callback", NoState}
LimitSound(r) == Awaits(r) => r.rejections < RetryLimit

\* And it has a hook, unless holding a prep review has made it forget its status.
HookSound(r) ==
  "prep" \notin Commands =>
    /\ r.status = "awaiting_callback" => r.pending
    /\ r.status = "interrupted"
         => r.from # NoState /\ (r.from = "awaiting_callback" => r.pending)

\* What holds of a payload by itself, whoever saves it.
Steady(r) == r \in Runs /\ PrepSound(r) /\ LimitSound(r) /\ HookSound(r)

\* A payload that is, was or will be with its author has a report.
InReview == {"awaiting_author_review", "canonization_pending", "retry_requested"}
ReportKnown(r) == r.from \in InReview \/ r.report # 0 => reports # <<>>
ReportMade(r) == r.status \in InReview => reports # <<>>

\* What a command means to save is sound, and has its report when it is due.
WantSound(p) ==
  /\ Holds(p) => Steady(want[p]) /\ OutputsSound(want[p]) /\ ReportKnown(want[p])
  /\ Holds(p) /\ task[p].kind = "approve" => want[p].status = "canonization_pending"
  /\ pc[p] \in {"update", "save"} => ReportMade(want[p])
  /\ pc[p] = "report" => sessions = "closed"

\* A validated transition starts from the row that the save replaces.
Validated(p) ==
  pc[p] = "save" /\ at[p] = revision => Permits(payload.status, want[p].status)

\* After an approval is saved, nothing but close moves the run.
Over == {"canonization_pending", "closed"}
Approving(p) ==
  pc[p] \in {"project", "ticket"} /\ task[p].kind = "approve" => payload.status \in Over

OutputsOf(r) == {r.outputs[i] : i \in DOMAIN r.outputs}

\* Without decide, what a command holds is derived from the row of the revision it
\* expects; besides its own callback it holds none that the row does not have.
Derived(p) ==
  "decide" \notin Commands /\ InFlight(p) =>
    /\ task[p].read = at[p]
    /\ at[p] = revision => /\ payload.submitted \subseteq want[p].submitted
                           /\ OutputsOf(payload) \subseteq OutputsOf(want[p])
    /\ \A c \in want[p].submitted \ payload.submitted :
         task[p].kind = "submit" /\ c = task[p].callback
    /\ \A c \in OutputsOf(want[p]) \ OutputsOf(payload) :
         /\ task[p].kind = "submit" /\ c = task[p].callback
         /\ answers[c].good
    /\ task[p].kind = "submit" =>
         /\ task[p].callback \in want[p].submitted
         /\ answers[task[p].callback].good => task[p].callback \in OutputsOf(want[p])

\* Without decide, a callback is in the row once its owner has saved it, and no sooner.
Ingests(p) ==
  "decide" \notin Commands /\ Owning(p) =>
    LET c == task[p].callback IN
    /\ InFlight(p) => c \notin payload.submitted \cup OutputsOf(payload)
    /\ pc[p] \in {"project", "complete"} =>
         /\ c \in payload.submitted
         /\ answers[c].good <=> c \in OutputsOf(payload)
    /\ pc[p] = "failed" /\ c \in payload.submitted => c \in unprojected

\* All that concerns one command.
Fine(p) ==
  /\ TaskFits(p) /\ WantSound(p) /\ Validated(p) /\ Approving(p)
  /\ Owning(p) => receipts[task[p].callback] = "claimed"
  /\ Derived(p) /\ Ingests(p)

\* The row is sound.
RowSound ==
  /\ revision # 0
  /\ Steady(payload) /\ OutputsSound(payload)
  /\ ReportKnown(payload) /\ ReportMade(payload)
  /\ reports # <<>> => sessions = "closed"
  /\ tickets > 0 => payload.status \in Over

\* Without decide, the receipts agree with the row; of the unclaimed it knows nothing.
ReceiptsSound ==
  "decide" \notin Commands =>
    /\ ReceiptsAgree
    /\ \A c \in Callbacks :
         receipts[c] = "none" => c \notin payload.submitted \cup OutputsOf(payload)

\* One submission at most owns a callback.
OneOwner ==
  \A p, q \in Procs :
    Owning(p) /\ Owning(q) /\ task[p].callback = task[q].callback => p = q

TaskType ==
  task \in [Procs -> [kind : Kinds, callback : Callbacks \cup {NoAnswer}, read : Nat]]

IInv ==
  /\ TypeOK /\ TaskType
  /\ RowSound /\ ReceiptsSound /\ OneOwner
  /\ \A p \in Procs : Fine(p)

------------------------------------------------------------------------------
(* Lemmas about the payloads *)

\* A payload may be written over itself: Permits lets any status stand, and the
\* author's statuses once approved go to closed only.
LEMMA PermitsOver ==
  ASSUME NEW s \in RUN_STATES, NEW t \in RUN_STATES, Permits(s, t), s \in Over
  PROVE  t \in Over
BY DEF Permits, ALLOWED_TRANSITIONS, Over, RUN_STATES

\* Handing out a hook touches the hook, the round and the next action only, and
\* a run with no output in its first round always gets one.
LEMMA HookLemma ==
  ASSUME NEW r \in Runs, NEW n \in WithNextHook(r)
  PROVE  /\ n \in Runs
         /\ n.status = r.status /\ n.from = r.from /\ n.report = r.report
         /\ n.outputs = r.outputs /\ n.submitted = r.submitted
         /\ r.pending => n = r
         /\ ~r.pending /\ n.pending
              => n.rejections = 0 /\ n.next_action = "run_next_hermes_hook"
         /\ ~n.pending => n.next_action = "author_review"
         /\ r.outputs = <<>> /\ r.round = 1 => n.pending
<1>1. CASE r.pending
  BY <1>1 DEF WithNextHook, Runs
<1>2. CASE ~r.pending /\ (Len(r.outputs) >= MaxActorCalls \/ r.round > MaxRounds)
  <2>1. n = [r EXCEPT !.next_action = "author_review"]
    BY <1>2 DEF WithNextHook
  <2>2. ~(r.outputs = <<>> /\ r.round = 1)
    BY <1>2, BoundsAssumption
  <2> QED
    BY <1>2, <2>1, <2>2 DEF Runs
<1>3. CASE ~r.pending /\ ~(Len(r.outputs) >= MaxActorCalls \/ r.round > MaxRounds)
  <2>1. PICK m \in RoundSizes(r) : n = HookIn(r, m)
    BY <1>3 DEF WithNextHook
  <2>2. m \in 0..Participants
    BY BoundsAssumption DEF RoundSizes, Runs
  <2>3. n \in Runs
    <3> DEFINE index == IF r.index >= m THEN 0 ELSE r.index
               last == index + 1 >= m
               round == IF last THEN r.round + 1 ELSE r.round
               next == IF last THEN 0 ELSE index + 1
               active == IF last THEN 0 ELSE m
    <3>1. /\ round \in Nat /\ next \in Nat
          /\ active \in 0..Participants
      BY <2>2, BoundsAssumption DEF Runs
    <3>2. n = [r EXCEPT !.pending = TRUE, !.rejections = 0,
                        !.next_action = "run_next_hermes_hook",
                        !.round = round, !.index = next, !.active = active]
      BY <2>1 DEF HookIn
    <3> HIDE DEF index, last, round, next, active
    <3> QED
      BY <3>1, <3>2 DEF Runs
  <2> QED
    BY <1>3, <2>1, <2>3 DEF HookIn, Runs
<1> QED
  BY <1>1, <1>2, <1>3

\* An accepted callback extends the outputs and the submissions by itself.
LEMMA AcceptedLemma ==
  ASSUME NEW r \in Runs, NEW c \in Callbacks, NEW n \in Accepted(r, c)
  PROVE  /\ Steady(n)
         /\ n.from = r.from /\ n.report = r.report
         /\ n.outputs = Append(r.outputs, c) /\ n.submitted = r.submitted \cup {c}
         /\ n.status \in {"awaiting_callback", "awaiting_author_review"}
<1> DEFINE taken == [r EXCEPT !.submitted = @ \cup {c},
                              !.retry = FALSE,
                              !.pending = FALSE,
                              !.outputs = Append(@, c)]
<1>1. /\ taken \in Runs
      /\ ~taken.pending /\ taken.from = r.from /\ taken.report = r.report
      /\ taken.outputs = Append(r.outputs, c) /\ taken.submitted = r.submitted \cup {c}
  <2>1. /\ Append(r.outputs, c) \in Seq(Callbacks)
        /\ r.submitted \cup {c} \in SUBSET Callbacks
    BY DEF Runs
  <2> QED
    BY <2>1 DEF Runs
<1>2. PICK m \in WithNextHook(taken) :
        n = IF m.pending THEN [m EXCEPT !.status = "awaiting_callback",
                                        !.next_action = "run_next_hermes_hook"]
                         ELSE Finalized(m)
  BY DEF Accepted
<1> HIDE DEF taken
<1>3. /\ m \in Runs
      /\ m.from = r.from /\ m.report = r.report
      /\ m.outputs = Append(r.outputs, c) /\ m.submitted = r.submitted \cup {c}
      /\ m.pending => m.rejections = 0
  BY <1>1, HookLemma
<1>4. CASE m.pending
  <2>1. n = [m EXCEPT !.status = "awaiting_callback",
                      !.next_action = "run_next_hermes_hook"]
    BY <1>2, <1>4
  <2>2. n \in Runs
    BY <1>3, <2>1 DEF Runs, RUN_STATES
  <2>3. /\ n.status = "awaiting_callback" /\ n.next_action = "run_next_hermes_hook"
        /\ n.pending /\ n.rejections = 0
        /\ n.from = m.from /\ n.report = m.report
        /\ n.outputs = m.outputs /\ n.submitted = m.submitted
    BY <1>3, <1>4, <2>1 DEF Runs
  <2>4. Steady(n)
    BY <2>2, <2>3, BoundsAssumption
       DEF Steady, PrepSound, AtPrep, LimitSound, Awaits, HookSound
  <2> QED
    BY <1>3, <2>3, <2>4
<1>5. CASE ~m.pending
  <2>1. n = [m EXCEPT !.status = "awaiting_author_review",
                      !.next_action = "author_review", !.drafted = TRUE]
    BY <1>2, <1>5 DEF Finalized
  <2>2. n \in Runs
    BY <1>3, <2>1 DEF Runs, RUN_STATES
  <2> QED
    BY <1>3, <2>1, <2>2
       DEF Steady, Runs, PrepSound, AtPrep, LimitSound, Awaits, HookSound
<1> QED
  BY <1>4, <1>5

\* A rejected callback is recorded; its hook stays, unless the run is over.
LEMMA RejectedLemma ==
  ASSUME NEW r \in Runs, r.pending, NEW c \in Callbacks
  PROVE  LET n == Rejected(r, c) IN
         /\ Steady(n)
         /\ n.from = r.from /\ n.report = r.report
         /\ n.outputs = r.outputs /\ n.submitted = r.submitted \cup {c}
         /\ n.status \in {"awaiting_callback", "awaiting_author_review"}
<1> DEFINE n == Rejected(r, c)
           again == [r EXCEPT !.submitted = @ \cup {c},
                              !.rejections = @ + 1,
                              !.retry = TRUE,
                              !.status = "awaiting_callback",
                              !.next_action = "retry_current_hermes_hook"]
<1>1. /\ again \in Runs
      /\ again.from = r.from /\ again.report = r.report
      /\ again.outputs = r.outputs /\ again.submitted = r.submitted \cup {c}
      /\ again.status = "awaiting_callback" /\ again.pending
      /\ again.next_action = "retry_current_hermes_hook"
  <2>1. /\ r.rejections + 1 \in Nat
        /\ r.submitted \cup {c} \in SUBSET Callbacks
    BY DEF Runs
  <2> QED
    BY <2>1 DEF Runs, RUN_STATES
<1>2. n = IF again.rejections >= RetryLimit THEN Finalized(again) ELSE again
  BY DEF Rejected
<1> HIDE DEF n, again
<1>3. CASE again.rejections >= RetryLimit
  <2>1. n = [again EXCEPT !.status = "awaiting_author_review",
                          !.next_action = "author_review", !.drafted = TRUE]
    BY <1>2, <1>3 DEF Finalized
  <2>2. n \in Runs
    BY <1>1, <2>1 DEF Runs, RUN_STATES
  <2>3. /\ Steady(n)
        /\ n.from = r.from /\ n.report = r.report
        /\ n.outputs = r.outputs /\ n.submitted = r.submitted \cup {c}
        /\ n.status \in {"awaiting_callback", "awaiting_author_review"}
    BY <1>1, <2>1, <2>2
       DEF Steady, Runs, PrepSound, AtPrep, LimitSound, Awaits, HookSound
  <2> QED
    BY <2>3 DEF n
<1>4. CASE ~(again.rejections >= RetryLimit)
  <2>1. n = again /\ again.rejections < RetryLimit
    BY <1>1, <1>2, <1>4, BoundsAssumption DEF Runs
  <2>2. /\ Steady(n)
        /\ n.from = r.from /\ n.report = r.report
        /\ n.outputs = r.outputs /\ n.submitted = r.submitted \cup {c}
        /\ n.status \in {"awaiting_callback", "awaiting_author_review"}
    BY <1>1, <2>1
       DEF Steady, PrepSound, AtPrep, LimitSound, Awaits, HookSound
  <2> QED
    BY <2>2 DEF n
<1> QED
  BY <1>3, <1>4

------------------------------------------------------------------------------
(* Lemmas about the steps that commands share *)

\* A step of command p moves no other command.
Alone(p) ==
  \A q \in Procs \ {p} :
    /\ pc'[q] = pc[q] /\ task'[q] = task[q]
    /\ at'[q] = at[q] /\ want'[q] = want[q]

\* The variables of the commands keep their types.
LocalType ==
  /\ pc \in [Procs -> Steps] /\ TaskType
  /\ at \in [Procs -> Nat] /\ want \in [Procs -> Runs \cup {NoRun}]

LEMMA GotoLemma ==
  ASSUME LocalType, NEW p \in Procs, NEW step \in Steps, Goto(p, step),
         UNCHANGED <<task, at, want>>
  PROVE  /\ LocalType' /\ Alone(p)
         /\ pc'[p] = step
         /\ task'[p] = task[p] /\ at'[p] = at[p] /\ want'[p] = want[p]
BY DEF LocalType, TaskType, Goto, Alone

LEMMA TakeLemma ==
  ASSUME LocalType, revision \in Nat, NEW p \in Procs, NEW kind \in Kinds,
         NEW c \in Callbacks \cup {NoAnswer}, NEW r \in Runs, NEW step \in Steps,
         Take(p, kind, c, r, step)
  PROVE  /\ LocalType' /\ Alone(p)
         /\ pc'[p] = step
         /\ task'[p] = [kind |-> kind, callback |-> c, read |-> revision]
         /\ at'[p] = revision /\ want'[p] = r
<1>1. [kind |-> kind, callback |-> c, read |-> revision]
        \in [kind : Kinds, callback : Callbacks \cup {NoAnswer}, read : Nat]
  OBVIOUS
<1> QED
  BY <1>1 DEF LocalType, TaskType, Take, Goto, Alone

\* A command that has returned concerns nobody.
LEMMA ReturnLemma ==
  ASSUME LocalType, revision' \in Nat, NEW p \in Procs, Return(p)
  PROVE  /\ LocalType' /\ Alone(p)
         /\ Fine(p)'
         /\ ~Owning(p)'
<1>1. NoTask \in [kind : Kinds, callback : Callbacks \cup {NoAnswer}, read : Nat]
  BY DEF NoTask, Kinds
<1>2. /\ LocalType' /\ Alone(p)
      /\ pc'[p] = "idle" /\ task'[p].kind = "none" /\ at'[p] = 0
  <2>1. pc' \in [Procs -> Steps] /\ pc'[p] = "idle"
    BY DEF LocalType, Return, Goto, Steps
  <2> QED
    BY <1>1, <2>1 DEF LocalType, TaskType, Return, Goto, Alone, NoTask
<1>3. TaskFits(p)'
  BY <1>2 DEF TaskFits, Decisions
<1> QED
  BY <1>2, <1>3
     DEF Fine, Decisions, WantSound, Holds, InFlight, Validated, Approving,
         Owning, Derived, Ingests

\* What a step of p must not take away from the other commands.
Grows ==
  /\ reports # <<>> => reports' # <<>>
  /\ sessions = "closed" => sessions' = "closed"
  /\ unprojected \subseteq unprojected'

\* A step of p that leaves the row and the receipts of others alone leaves them fine.
LEMMA OthersLemma ==
  ASSUME IInv, NEW p \in Procs, Alone(p), UNCHANGED <<revision, payload, answers>>, Grows,
         \A q \in Procs \ {p} : Owning(q)
            => receipts'[task[q].callback] = receipts[task[q].callback]
  PROVE  \A q \in Procs \ {p} : Fine(q)'
<1> SUFFICES ASSUME NEW q \in Procs \ {p} PROVE Fine(q)'
  OBVIOUS
<1>1. /\ Fine(q)
      /\ pc'[q] = pc[q] /\ task'[q] = task[q] /\ at'[q] = at[q] /\ want'[q] = want[q]
  BY DEF IInv, Alone
<1>2. /\ InFlight(q)' = InFlight(q) /\ Holds(q)' = Holds(q) /\ Owning(q)' = Owning(q)
  BY <1>1 DEF InFlight, Holds, Owning
<1>3. TaskFits(q)'
  BY <1>1 DEF Fine, TaskFits
<1>4. WantSound(q)'
  BY <1>1, <1>2
     DEF Fine, WantSound, Grows, OutputsSound, ReportKnown, ReportMade
<1>5. Validated(q)' /\ Approving(q)'
  BY <1>1 DEF Fine, Validated, Approving
<1>6. Owning(q)' => receipts'[task'[q].callback] = "claimed"
  BY <1>1, <1>2 DEF Fine
<1>7. Derived(q)'
  BY <1>1, <1>2 DEF Fine, Derived
<1>8. Ingests(q)'
  BY <1>1, <1>2 DEF Fine, Ingests, Grows
<1> QED
  BY <1>3, <1>4, <1>5, <1>6, <1>7, <1>8 DEF Fine

\* A callback gets a second owner from no step that claims it only when unclaimed.
LEMMA OwnerLemma ==
  ASSUME IInv, NEW p \in Procs, Alone(p),
         Owning(p)' => \/ Owning(p) /\ task'[p].callback = task[p].callback
                       \/ receipts[task'[p].callback] = "none"
  PROVE  OneOwner'
<1> SUFFICES ASSUME NEW q \in Procs, NEW s \in Procs, Owning(q)', Owning(s)',
                    task'[q].callback = task'[s].callback, q # s
             PROVE  FALSE
  BY DEF OneOwner
<1>1. \A t \in Procs \ {p} : Owning(t)' => Owning(t) /\ task'[t].callback = task[t].callback
  BY DEF Alone, Owning
<1>2. \A t \in Procs : Owning(t) => receipts[task[t].callback] = "claimed"
  BY DEF IInv, Fine
<1>3. OneOwner
  BY DEF IInv
<1>4. CASE q = p
  BY <1>1, <1>2, <1>3, <1>4 DEF OneOwner
<1>5. CASE s = p
  BY <1>1, <1>2, <1>3, <1>5 DEF OneOwner
<1>6. CASE q # p /\ s # p
  BY <1>1, <1>3, <1>6 DEF OneOwner
<1> QED
  BY <1>4, <1>5, <1>6

\* A step that moves only p, leaves it fine, and keeps what others rely on preserves
\* the invariant.
LEMMA SideStep ==
  ASSUME IInv, NEW p \in Procs, Alone(p), LocalType', Fine(p)',
         UNCHANGED <<row, external>>, Grows,
         receipts' \in [Callbacks -> {"none", "claimed", "accepted", "rejected",
                                      "state_update_failed"}],
         reports' \in Seq({"inbox", "approved", "rejected", "pending_review"}),
         sessions' \in {"open", "closed"},
         reports' # <<>> => sessions' = "closed",
         tickets' \in Nat, tickets' > 0 => payload.status \in Over,
         given' \in 0..MaxCommands,
         unprojected' \subseteq Callbacks \cup {NoAnswer},
         \A q \in Procs \ {p} : Owning(q)
            => receipts'[task[q].callback] = receipts[task[q].callback],
         Owning(p)' => \/ Owning(p) /\ task'[p].callback = task[p].callback
                       \/ receipts[task'[p].callback] = "none",
         ReceiptsSound'
  PROVE  IInv'
<1>1. UNCHANGED <<revision, payload, answers>>
  BY DEF row, external
<1>2. TypeOK' /\ TaskType'
  BY <1>1 DEF IInv, TypeOK, LocalType
<1>3. RowSound'
  BY <1>1 DEF IInv, RowSound, OutputsSound, ReportKnown, ReportMade, Grows
<1>4. OneOwner'
  BY OwnerLemma
<1>5. \A q \in Procs \ {p} : Fine(q)'
  BY <1>1, OthersLemma
<1> QED
  BY <1>2, <1>3, <1>4, <1>5 DEF IInv

\* So does one that changes nothing but p.
LEMMA LocalStep ==
  ASSUME IInv, NEW p \in Procs, Alone(p), LocalType', Fine(p)',
         UNCHANGED <<row, external, side>>,
         given' \in 0..MaxCommands,
         unprojected \subseteq unprojected',
         unprojected' \subseteq Callbacks \cup {NoAnswer},
         Owning(p)' => Owning(p) /\ task'[p].callback = task[p].callback
  PROVE  IInv'
<1>1. UNCHANGED <<revision, payload, answers, receipts, reports, sessions, tickets>>
  BY DEF row, external, side
<1>2. Grows
  BY <1>1 DEF Grows
<1>3. ReceiptsSound'
  BY <1>1 DEF IInv, ReceiptsSound, ReceiptsAgree, Outputs
<1>4. TypeOK /\ RowSound
  BY DEF IInv
<1> QED
  BY <1>1, <1>2, <1>3, <1>4, SideStep DEF TypeOK, RowSound

\* A command that just returns preserves it.
LEMMA ReturnStep ==
  ASSUME IInv, NEW p \in Procs, Return(p),
         UNCHANGED <<row, external, side, given>>,
         unprojected \subseteq unprojected',
         unprojected' \subseteq Callbacks \cup {NoAnswer}
  PROVE  IInv'
<1>1. LocalType /\ revision' \in Nat /\ given' \in 0..MaxCommands
  BY DEF IInv, TypeOK, LocalType, row
<1>2. LocalType' /\ Alone(p) /\ Fine(p)' /\ ~Owning(p)'
  BY <1>1, ReturnLemma
<1> QED
  BY <1>1, <1>2, LocalStep

\* So does one that goes elsewhere with what it has, when that is fine there.
LEMMA GotoStep ==
  ASSUME IInv, NEW p \in Procs, NEW step \in Steps, Goto(p, step),
         UNCHANGED <<task, at, want, row, external, side, given>>,
         unprojected \subseteq unprojected',
         unprojected' \subseteq Callbacks \cup {NoAnswer},
         Fine(p)', Owning(p)' => Owning(p)
  PROVE  IInv'
<1>1. LocalType /\ given' \in 0..MaxCommands
  BY DEF IInv, TypeOK, LocalType
<1>2. LocalType' /\ Alone(p) /\ task'[p] = task[p]
  BY <1>1, GotoLemma
<1> QED
  BY <1>1, <1>2, LocalStep

------------------------------------------------------------------------------
(* Taking up a command *)

\* What a command other than decide may want to save, given the row it has read.
Offers(kind, c, r) ==
  /\ Steady(r) /\ OutputsSound(r) /\ ReportKnown(r)
  /\ kind \in Kinds \ Decisions
  /\ IF kind = "submit"
     THEN /\ c \in Callbacks /\ answers[c] # NoAnswer
          /\ r.submitted = payload.submitted \cup {c}
          /\ OutputsOf(r) = IF answers[c].good THEN OutputsOf(payload) \cup {c}
                                               ELSE OutputsOf(payload)
     ELSE /\ c = NoAnswer
          /\ ReportMade(r)
          /\ r.submitted = payload.submitted /\ r.outputs = payload.outputs

LEMMA TakeStep ==
  ASSUME IInv, NEW p \in Procs, NEW kind, NEW c, NEW r,
         Offers(kind, c, r),
         Take(p, kind, c, r, IF kind = "submit" THEN "claim" ELSE "update"),
         UNCHANGED <<row, external, side, unprojected>>,
         given' \in 0..MaxCommands
  PROVE  IInv'
<1> DEFINE step == IF kind = "submit" THEN "claim" ELSE "update"
<1>1. LocalType /\ revision \in Nat
  BY DEF IInv, TypeOK, LocalType
<1>2. /\ kind \in Kinds /\ c \in Callbacks \cup {NoAnswer} /\ r \in Runs /\ step \in Steps
  BY DEF Offers, Steady, Steps
<1>3. /\ LocalType' /\ Alone(p)
      /\ pc'[p] = step
      /\ task'[p] = [kind |-> kind, callback |-> c, read |-> revision]
      /\ at'[p] = revision /\ want'[p] = r
  BY <1>1, <1>2, TakeLemma
<1>4. UNCHANGED <<revision, payload, answers, receipts, reports, sessions, tickets>>
  BY DEF row, external, side
<1>5. TaskFits(p)'
  BY <1>1, <1>3, <1>4 DEF TaskFits, Offers
<1>6. WantSound(p)'
  BY <1>3, <1>4
     DEF WantSound, Offers, Decisions, OutputsSound, ReportKnown, ReportMade
<1>7. Validated(p)' /\ Approving(p)' /\ ~Owning(p)'
  BY <1>3 DEF Validated, Approving, Owning
<1>8. Derived(p)'
  BY <1>3, <1>4 DEF Derived, Offers, OutputsOf
<1>9. Ingests(p)'
  BY <1>7 DEF Ingests
<1>10. Fine(p)'
  BY <1>5, <1>6, <1>7, <1>8, <1>9 DEF Fine
<1>11. unprojected' = unprojected /\ unprojected \subseteq Callbacks \cup {NoAnswer}
  BY DEF IInv, TypeOK
<1> QED
  BY <1>3, <1>7, <1>10, <1>11, LocalStep

\* What the invariant says of the row, as the commands below need it.
LEMMA RowFacts ==
  ASSUME IInv
  PROVE  /\ payload \in Runs /\ revision \in Nat
         /\ PrepSound(payload) /\ LimitSound(payload) /\ HookSound(payload)
         /\ OutputsSound(payload) /\ ReportKnown(payload) /\ ReportMade(payload)
         /\ given \in 0..MaxCommands
         /\ \A c \in Callbacks :
              answers[c] # NoAnswer => answers[c] \in [turn : Nat, good : BOOLEAN]
BY DEF IInv, TypeOK, RowSound, Steady

\* A command that changes no outputs, submissions or report offers a sound payload if
\* the parts about its status hold.
LEMMA OfferLemma ==
  ASSUME IInv, NEW kind \in Kinds \ Decisions, kind # "submit", NEW r \in Runs,
         PrepSound(r), LimitSound(r), HookSound(r), ReportMade(r),
         r.from \in InReview => payload.from \in InReview \/ payload.status \in InReview,
         r.report = payload.report,
         r.submitted = payload.submitted, r.outputs = payload.outputs
  PROVE  Offers(kind, NoAnswer, r)
<1>1. OutputsSound(payload) /\ ReportKnown(payload) /\ ReportMade(payload)
  BY RowFacts
<1>2. OutputsSound(r)
  BY <1>1 DEF OutputsSound
<1>3. ReportKnown(r)
  BY <1>1 DEF ReportKnown, ReportMade
<1> QED
  BY <1>2, <1>3 DEF Offers, Steady

LEMMA ApprovePrepInv ==
  ASSUME IInv, NEW p \in Procs, ApprovePrep(p)
  PROVE  IInv'
<1> DEFINE begun == [payload EXCEPT !.status = "awaiting_callback",
                                    !.next_action = "run_next_hermes_hook"]
<1>1. PICK r \in WithNextHook(begun) : Take(p, "approve_prep", NoAnswer, r, "update")
  BY DEF ApprovePrep
<1>2. payload \in Runs /\ payload.next_action = "review_prep_report"
  BY RowFacts DEF ApprovePrep
<1>3. ~payload.pending /\ payload.outputs = <<>> /\ payload.round = 1
  BY <1>2, RowFacts DEF PrepSound, AtPrep
<1>4. /\ begun \in Runs
      /\ begun.status = "awaiting_callback" /\ begun.from = payload.from
      /\ begun.report = payload.report /\ begun.submitted = payload.submitted
      /\ begun.outputs = <<>> /\ begun.round = 1 /\ ~begun.pending
  BY <1>2, <1>3 DEF Runs, RUN_STATES
<1> HIDE DEF begun
<1>5. /\ r \in Runs
      /\ r.status = "awaiting_callback" /\ r.from = payload.from
      /\ r.report = payload.report /\ r.submitted = payload.submitted
      /\ r.outputs = payload.outputs
      /\ r.pending /\ r.rejections = 0 /\ r.next_action = "run_next_hermes_hook"
  BY <1>3, <1>4, HookLemma
<1>6. PrepSound(r) /\ LimitSound(r) /\ HookSound(r) /\ ReportMade(r)
  BY <1>5, BoundsAssumption
     DEF PrepSound, AtPrep, LimitSound, Awaits, HookSound, ReportMade, InReview
<1>7. Offers("approve_prep", NoAnswer, r)
  BY <1>5, <1>6, OfferLemma DEF Kinds, Decisions
<1>8. /\ UNCHANGED <<row, external, side, unprojected>>
      /\ given' \in 0..MaxCommands
  BY RowFacts DEF ApprovePrep
<1> QED
  BY <1>1, <1>7, <1>8, TakeStep

LEMMA PrepDecisionInv ==
  ASSUME IInv, NEW p \in Procs, PrepDecision(p)
  PROVE  IInv'
<1>1. PICK r \in {[payload EXCEPT !.status = "interrupted", !.next_action = "resume"],
                  [payload EXCEPT !.next_action = "refine_prep_request"],
                  [payload EXCEPT !.status = "closed",
                                  !.next_action = "start_new_run_with_revised_frame"]} :
             Take(p, "prep", NoAnswer, r, "update")
  BY DEF PrepDecision
<1>2. payload \in Runs /\ payload.status = "awaiting_prep_review"
  BY RowFacts DEF PrepDecision
<1>3. /\ ~payload.pending /\ payload.outputs = <<>> /\ payload.round = 1
      /\ payload.rejections = 0
  BY <1>2, RowFacts DEF PrepSound, AtPrep
<1>4. /\ r \in Runs
      /\ r.status \in {"interrupted", "awaiting_prep_review", "closed"}
      /\ r.from = payload.from /\ r.report = payload.report
      /\ r.submitted = payload.submitted /\ r.outputs = payload.outputs
      /\ r.pending = payload.pending /\ r.round = payload.round
      /\ r.rejections = payload.rejections
  BY <1>1, <1>2 DEF Runs, RUN_STATES
<1>5. PrepSound(r) /\ LimitSound(r) /\ HookSound(r) /\ ReportMade(r)
  BY <1>3, <1>4, BoundsAssumption
     DEF PrepDecision, Command,
         PrepSound, LimitSound, Awaits, HookSound, ReportMade, InReview
<1>6. Offers("prep", NoAnswer, r)
  BY <1>4, <1>5, OfferLemma DEF Kinds, Decisions
<1>7. /\ UNCHANGED <<row, external, side, unprojected>>
      /\ given' \in 0..MaxCommands
  BY RowFacts, BoundsAssumption DEF PrepDecision, Command, Others
<1> QED
  BY <1>1, <1>6, <1>7, TakeStep

LEMMA InterruptInv ==
  ASSUME IInv, NEW p \in Procs, Interrupt(p)
  PROVE  IInv'
<1> DEFINE r == [payload EXCEPT !.from = payload.status,
                                !.status = "interrupted",
                                !.next_action = "resume"]
<1>1. Take(p, "interrupt", NoAnswer, r, "update")
  BY DEF Interrupt
<1>2. payload \in Runs
  BY RowFacts
<1>3. /\ r \in Runs
      /\ r.status = "interrupted" /\ r.from = payload.status /\ r.next_action = "resume"
      /\ r.report = payload.report
      /\ r.submitted = payload.submitted /\ r.outputs = payload.outputs
      /\ r.pending = payload.pending /\ r.round = payload.round
      /\ r.rejections = payload.rejections
      /\ r.from \in RUN_STATES
  BY <1>2 DEF Runs, RUN_STATES
<1> HIDE DEF r
<1>4. PrepSound(r)
  BY <1>3, RowFacts DEF PrepSound, AtPrep
<1>5. LimitSound(r) /\ HookSound(r) /\ ReportMade(r)
  BY <1>3, RowFacts, NoValueAssumption DEF LimitSound, Awaits, HookSound, ReportMade, InReview
<1>6. Offers("interrupt", NoAnswer, r)
  BY <1>3, <1>4, <1>5, OfferLemma DEF Kinds, Decisions
<1>7. /\ UNCHANGED <<row, external, side, unprojected>>
      /\ given' \in 0..MaxCommands
  BY RowFacts, BoundsAssumption DEF Interrupt, Command, Others
<1> QED
  BY <1>1, <1>6, <1>7, TakeStep

LEMMA ResumeInv ==
  ASSUME IInv, NEW p \in Procs, Resume(p)
  PROVE  IInv'
<1> DEFINE r == Resumed(payload)
           back == [payload EXCEPT !.status =
                      IF payload.from = NoState THEN "awaiting_callback" ELSE payload.from]
<1>1. Take(p, "resume", NoAnswer, r, "update")
  BY DEF Resume
<1>2. payload \in Runs /\ payload.status = "interrupted"
  BY RowFacts DEF Resume
<1>3. /\ back \in Runs
      /\ back.status = IF payload.from = NoState THEN "awaiting_callback" ELSE payload.from
      /\ back.next_action = payload.next_action
  BY <1>2 DEF Runs, RUN_STATES
<1>4. /\ NextActionOf(back) \in {"review_prep_report", "run_next_hermes_hook",
                                  "author_review", payload.next_action}
      /\ NextActionOf(back) = "review_prep_report"
           => \/ back.status = "awaiting_prep_review"
              \/ payload.next_action = "review_prep_report"
  BY <1>3 DEF NextActionOf
<1>5. r = [back EXCEPT !.next_action = NextActionOf(back)]
  BY DEF Resumed
<1> HIDE DEF r
<1>6. /\ r \in Runs
      /\ r.status = back.status /\ r.from = payload.from
      /\ r.report = payload.report
      /\ r.submitted = payload.submitted /\ r.outputs = payload.outputs
      /\ r.pending = payload.pending /\ r.round = payload.round
      /\ r.rejections = payload.rejections
      /\ r.next_action = NextActionOf(back)
  <2>1. NextActionOf(back) \in {"review_prep_report", "run_next_hermes_hook", "author_review",
                  "retry_current_hermes_hook", "resume", "refine_prep_request",
                  "start_new_run_with_revised_frame", "none"}
    BY <1>2, <1>4 DEF Runs
  <2>2. /\ back.from = payload.from /\ back.report = payload.report
        /\ back.submitted = payload.submitted /\ back.outputs = payload.outputs
        /\ back.pending = payload.pending /\ back.round = payload.round
        /\ back.rejections = payload.rejections
    BY <1>2 DEF Runs
  <2> HIDE DEF back
  <2>3. r \in Runs
    BY <1>3, <1>5, <2>1 DEF Runs
  <2> QED
    BY <1>3, <1>5, <2>2, <2>3 DEF Runs
<1> HIDE DEF back
<1>7. PrepSound(r)
  BY <1>2, <1>3, <1>4, <1>6, RowFacts DEF PrepSound, AtPrep
<1>8. LimitSound(r) /\ HookSound(r)
  BY <1>2, <1>3, <1>6, RowFacts, NoValueAssumption
     DEF LimitSound, Awaits, HookSound, RUN_STATES
<1>9. ReportMade(r)
  BY <1>3, <1>6, RowFacts DEF ReportMade, ReportKnown, InReview
<1>10. Offers("resume", NoAnswer, r)
  BY <1>6, <1>7, <1>8, <1>9, OfferLemma DEF Kinds, Decisions
<1>11. /\ UNCHANGED <<row, external, side, unprojected>>
       /\ given' \in 0..MaxCommands
  BY RowFacts, BoundsAssumption DEF Resume, Command, Others
<1> QED
  BY <1>1, <1>10, <1>11, TakeStep

LEMMA HintInv ==
  ASSUME IInv, NEW p \in Procs, ResumeHint(p) \/ Hint(p)
  PROVE  IInv'
<1>1. CASE HintDue(payload) /\ Take(p, "hint", NoAnswer, Hinted(payload), "update")
  <2> DEFINE r == Hinted(payload)
  <2>1. payload \in Runs /\ payload.status = "awaiting_callback"
    BY <1>1, RowFacts DEF HintDue
  <2>2. /\ r \in Runs
        /\ r.status = "awaiting_callback" /\ r.from = payload.from
        /\ r.next_action = "retry_current_hermes_hook" /\ r.report = payload.report
        /\ r.submitted = payload.submitted /\ r.outputs = payload.outputs
        /\ r.pending = payload.pending /\ r.rejections = payload.rejections
    BY <2>1 DEF Hinted, Runs
  <2> HIDE DEF r
  <2>3. PrepSound(r) /\ LimitSound(r) /\ HookSound(r) /\ ReportMade(r)
    BY <2>1, <2>2, RowFacts
       DEF PrepSound, AtPrep, LimitSound, Awaits, HookSound, ReportMade, InReview
  <2>4. Offers("hint", NoAnswer, r)
    BY <2>2, <2>3, OfferLemma DEF Kinds, Decisions
  <2>5. /\ UNCHANGED <<row, external, side, unprojected>>
        /\ given' \in 0..MaxCommands
    BY RowFacts, BoundsAssumption DEF ResumeHint, Hint, Command, Others
  <2> QED
    BY <1>1, <2>4, <2>5, TakeStep DEF r
<1>2. CASE Hint(p) /\ Return(p)
  BY <1>2, ReturnStep DEF Hint, IInv, TypeOK
<1> QED
  BY <1>1, <1>2 DEF ResumeHint, Hint

LEMMA CloseInv ==
  ASSUME IInv, NEW p \in Procs, Close(p)
  PROVE  IInv'
<1> DEFINE r == [payload EXCEPT !.status = "closed", !.next_action = "none"]
<1>1. Take(p, "close", NoAnswer, r, "update")
  BY DEF Close
<1>2. /\ r \in Runs
      /\ r.status = "closed" /\ r.from = payload.from /\ r.next_action = "none"
      /\ r.report = payload.report
      /\ r.submitted = payload.submitted /\ r.outputs = payload.outputs
  BY RowFacts DEF Runs, RUN_STATES
<1> HIDE DEF r
<1>3. PrepSound(r) /\ LimitSound(r) /\ HookSound(r) /\ ReportMade(r)
  BY <1>2 DEF PrepSound, AtPrep, LimitSound, Awaits, HookSound, ReportMade, InReview
<1>4. Offers("close", NoAnswer, r)
  BY <1>2, <1>3, OfferLemma DEF Kinds, Decisions
<1>5. /\ UNCHANGED <<row, external, side, unprojected>>
      /\ given' \in 0..MaxCommands
  BY RowFacts, BoundsAssumption DEF Close, Command, Others
<1> QED
  BY <1>1, <1>4, <1>5, TakeStep

\* A sequence of callbacks that gains one gains it as an element.
LEMMA AppendLemma ==
  ASSUME NEW s \in Seq(Callbacks), NEW c \in Callbacks
  PROVE  /\ {Append(s, c)[i] : i \in DOMAIN Append(s, c)} = {s[i] : i \in DOMAIN s} \cup {c}
         /\ DOMAIN Append(s, c) = 1..(Len(s) + 1)
         /\ \A i \in 1..Len(s) : Append(s, c)[i] = s[i]
         /\ Append(s, c)[Len(s) + 1] = c
         /\ DOMAIN s = 1..Len(s)
<1>1. /\ DOMAIN s = 1..Len(s) /\ Len(s) \in Nat
      /\ DOMAIN Append(s, c) = 1..(Len(s) + 1)
      /\ \A i \in 1..Len(s) : Append(s, c)[i] = s[i]
      /\ Append(s, c)[Len(s) + 1] = c
  OBVIOUS
<1> QED
  BY <1>1

LEMMA SubmitInv ==
  ASSUME IInv, NEW p \in Procs, NEW c \in Callbacks, Submit(p, c)
  PROVE  IInv'
<1>1. PICK r \in IF answers[c].good THEN Accepted(payload, c) ELSE {Rejected(payload, c)} :
             Take(p, "submit", c, r, "claim")
  BY DEF Submit
<1>2. /\ payload \in Runs /\ payload.pending
      /\ answers[c] # NoAnswer /\ answers[c] \in [turn : Nat, good : BOOLEAN]
      /\ answers[c].turn = Len(payload.outputs) + 1
      /\ payload.outputs \in Seq(Callbacks)
      /\ OutputsSound(payload) /\ ReportKnown(payload)
  BY RowFacts DEF Submit, Turn, Runs
<1>3. /\ Steady(r)
      /\ r.from = payload.from /\ r.report = payload.report
      /\ r.submitted = payload.submitted \cup {c}
      /\ r.outputs = IF answers[c].good THEN Append(payload.outputs, c) ELSE payload.outputs
  <2>1. CASE answers[c].good
    BY <1>1, <1>2, <2>1, AcceptedLemma
  <2>2. CASE ~answers[c].good
    BY <1>1, <1>2, <2>2, RejectedLemma
  <2> QED
    BY <2>1, <2>2
<1>4. OutputsSound(r)
  BY <1>2, <1>3, AppendLemma DEF OutputsSound
<1>5. OutputsOf(r) = IF answers[c].good THEN OutputsOf(payload) \cup {c} ELSE OutputsOf(payload)
  BY <1>2, <1>3, AppendLemma DEF OutputsOf
<1>6. ReportKnown(r)
  BY <1>2, <1>3 DEF ReportKnown
<1>7. Offers("submit", c, r)
  BY <1>2, <1>3, <1>4, <1>5, <1>6 DEF Offers, Kinds, Decisions
<1>8. /\ UNCHANGED <<row, external, side, unprojected>>
      /\ given' \in 0..MaxCommands
  BY RowFacts DEF Submit
<1> QED
  BY <1>1, <1>7, <1>8, TakeStep

LEMMA DecideInv ==
  ASSUME IInv, NEW p \in Procs, NEW d \in DOMAIN DecidedStatus, Decide(p, d)
  PROVE  IInv'
<1> DEFINE r == [payload EXCEPT !.status = DecidedStatus[d]]
           t == [kind |-> d, callback |-> NoAnswer, read |-> revision]
<1>1. /\ payload \in Runs /\ revision \in Nat /\ LocalType
      /\ d \in Decisions /\ "decide" \in Commands
      /\ pc[p] = "idle"
  BY RowFacts DEF IInv, TypeOK, LocalType, DecidedStatus, Decisions, Decide, Command, Idle
<1>2. /\ r \in Runs
      /\ r.status = DecidedStatus[d] /\ r.from = payload.from
      /\ r.next_action = payload.next_action
      /\ r.report = payload.report
      /\ r.outputs = payload.outputs
      /\ r.pending = payload.pending /\ r.round = payload.round
      /\ r.rejections = payload.rejections
  BY <1>1 DEF Runs, DecidedStatus, Decisions, RUN_STATES
<1>3. t \in [kind : Kinds, callback : Callbacks \cup {NoAnswer}, read : Nat]
  BY <1>1 DEF Kinds
<1>4. /\ pc' = [pc EXCEPT ![p] = "revision"]
      /\ task' = [task EXCEPT ![p] = t]
      /\ want' = [want EXCEPT ![p] = r]
      /\ UNCHANGED <<at, row, external, side, unprojected>>
      /\ given' \in 0..MaxCommands
  BY RowFacts, BoundsAssumption DEF Decide, Goto, Command, Others
<1> HIDE DEF r, t
<1>5. /\ LocalType' /\ Alone(p)
      /\ pc'[p] = "revision" /\ task'[p] = t /\ at'[p] = at[p] /\ want'[p] = r
  BY <1>1, <1>2, <1>3, <1>4 DEF LocalType, TaskType, Steps, Alone
<1>6. UNCHANGED <<revision, payload, answers, reports, sessions>>
  BY <1>4 DEF row, external, side
<1>7. t.kind = d /\ r.status \in {"canonization_pending", "retry_requested",
                                   "awaiting_author_review"}
  BY <1>1, <1>2 DEF t, DecidedStatus, Decisions
<1>8. Steady(r)
  BY <1>2, <1>7, RowFacts
     DEF Steady, PrepSound, AtPrep, LimitSound, Awaits, HookSound
<1>9. OutputsSound(r) /\ ReportKnown(r)
  BY <1>2, RowFacts DEF OutputsSound, ReportKnown
<1>10. d = "approve" => r.status = "canonization_pending"
  BY <1>2 DEF DecidedStatus
<1>11. TaskFits(p)'
  BY <1>1, <1>5, <1>6, <1>7 DEF TaskFits, IInv, Fine, Decisions
<1>12. WantSound(p)'
  BY <1>5, <1>6, <1>7, <1>8, <1>9, <1>10
     DEF WantSound, OutputsSound, ReportKnown
<1>13. ~Owning(p)' /\ ~InFlight(p)'
  BY <1>5 DEF Owning, InFlight
<1>14. Fine(p)'
  BY <1>5, <1>11, <1>12, <1>13 DEF Fine, Validated, Approving, Derived, Ingests
<1>15. unprojected' = unprojected /\ unprojected \subseteq Callbacks \cup {NoAnswer}
  BY <1>4 DEF IInv, TypeOK
<1> QED
  BY <1>4, <1>5, <1>13, <1>14, <1>15, LocalStep

------------------------------------------------------------------------------
(* The steps of a command that leave the row alone *)

\* A command that fails returns, or goes where its receipt is settled.
LEMMA FailLemma ==
  ASSUME IInv, NEW p \in Procs, Fail(p), pc[p] \in {"report", "update", "save", "project"},
         UNCHANGED <<row, external, receipts>>, unprojected \subseteq unprojected',
         pc[p] = "project" => task[p].callback \in unprojected'
  PROVE  /\ LocalType' /\ Alone(p) /\ Fine(p)'
         /\ Owning(p)' => Owning(p) /\ task'[p].callback = task[p].callback
<1>1. /\ LocalType /\ revision \in Nat /\ Fine(p)
      /\ UNCHANGED <<revision, payload, answers, receipts>>
  BY DEF IInv, TypeOK, LocalType, row, external
<1>2. CASE task[p].kind = "submit"
  <2>1. /\ LocalType' /\ Alone(p)
        /\ pc'[p] = "failed"
        /\ task'[p] = task[p] /\ at'[p] = at[p] /\ want'[p] = want[p]
    BY <1>1, <1>2, GotoLemma DEF Fail, Steps
  <2>2. Owning(p)
    BY <1>2 DEF Owning
  <2>3. TaskFits(p)'
    BY <1>1, <1>2, <2>1 DEF Fine, TaskFits
  <2>4. Ingests(p)'
    BY <1>1, <1>2, <2>1, <2>2 DEF Fine, Ingests, InFlight
  <2> QED
    BY <1>1, <2>1, <2>2, <2>3, <2>4
       DEF Fine, WantSound, Holds, InFlight, Validated, Approving, Derived
<1>3. CASE task[p].kind # "submit"
  BY <1>1, <1>3, ReturnLemma DEF Fail
<1> QED
  BY <1>2, <1>3

\* Update: a validated command may save, an invalid one fails.
LEMMA UpdateInv ==
  ASSUME IInv, NEW p \in Procs, Update(p)
  PROVE  IInv'
<1>1. Fine(p) /\ unprojected \subseteq Callbacks \cup {NoAnswer} /\ LocalType
  BY DEF IInv, TypeOK, LocalType
<1>2. pc[p] = "update" /\ UNCHANGED <<row, external, side, given, unprojected>>
  BY DEF Update
<1>3. UNCHANGED <<revision, payload, answers, reports, sessions, receipts>>
  BY <1>2 DEF row, external, side
<1>4. CASE Fail(p)
  BY <1>1, <1>2, <1>3, <1>4, FailLemma, LocalStep, RowFacts
<1>5. CASE /\ Permits(payload.status, want[p].status)
           /\ Goto(p, "save") /\ UNCHANGED <<task, at, want>>
  <2>1. /\ pc'[p] = "save"
        /\ task'[p] = task[p] /\ at'[p] = at[p] /\ want'[p] = want[p]
    BY <1>1, <1>5, GotoLemma DEF Steps
  <2>2. TaskFits(p)' /\ WantSound(p)'
    BY <1>1, <1>2, <1>3, <2>1
       DEF Fine, TaskFits, WantSound, Holds, InFlight, OutputsSound, ReportKnown, ReportMade
  <2>3. Validated(p)' /\ Approving(p)'
    BY <1>3, <1>5, <2>1 DEF Validated, Approving
  <2>4. Derived(p)' /\ Ingests(p)' /\ (Owning(p)' => Owning(p))
    BY <1>1, <1>2, <1>3, <2>1 DEF Fine, Derived, Ingests, InFlight, Owning
  <2>5. Fine(p)'
    BY <1>1, <1>3, <2>1, <2>2, <2>3, <2>4 DEF Fine
  <2> QED
    BY <1>1, <1>2, <1>5, <2>4, <2>5, GotoStep DEF Steps
<1> QED
  BY <1>4, <1>5 DEF Update

\* A save that finds another revision fails; so does one whose projection fails.
LEMMA FailInv ==
  ASSUME IInv, NEW p \in Procs, SaveConflict(p) \/ ProjectFails(p)
  PROVE  IInv'
<1>1. /\ Fail(p) /\ pc[p] \in {"save", "project"}
      /\ UNCHANGED <<row, external, side, given>>
      /\ unprojected \subseteq unprojected'
      /\ unprojected' \subseteq unprojected \cup {task[p].callback}
      /\ pc[p] = "project" => task[p].callback \in unprojected'
  BY DEF SaveConflict, ProjectFails
<1>2. /\ task[p].callback \in Callbacks \cup {NoAnswer}
      /\ unprojected \subseteq Callbacks \cup {NoAnswer}
  BY DEF IInv, TypeOK, TaskType
<1>3. UNCHANGED receipts
  BY <1>1 DEF side
<1> QED
  BY <1>1, <1>2, <1>3, FailLemma, LocalStep, RowFacts

\* After its projection a command settles, makes a ticket, hints, or returns.
LEMMA ProjectedInv ==
  ASSUME IInv, NEW p \in Procs, Projected(p)
  PROVE  IInv'
<1>1. /\ pc[p] = "project" /\ UNCHANGED <<row, external, side, given, unprojected>>
      /\ Fine(p) /\ unprojected \subseteq Callbacks \cup {NoAnswer} /\ LocalType
  BY DEF Projected, IInv, TypeOK, LocalType
<1>2. UNCHANGED <<revision, payload, answers, receipts>>
  BY <1>1 DEF row, external, side
<1>3. CASE Return(p)
  BY <1>1, <1>3, ReturnStep
<1>4. ASSUME NEW step \in {"complete", "ticket", "hint"},
             Goto(p, step), UNCHANGED <<task, at, want>>,
             step = "complete" => task[p].kind = "submit",
             step = "ticket" => task[p].kind = "approve",
             step = "hint" => task[p].kind = "resume"
      PROVE  IInv'
  <2>1. /\ pc'[p] = step
        /\ task'[p] = task[p] /\ at'[p] = at[p] /\ want'[p] = want[p]
    BY <1>1, <1>4, GotoLemma DEF Steps
  <2>2. TaskFits(p)' /\ Approving(p)'
    BY <1>1, <1>2, <1>4, <2>1 DEF Fine, TaskFits, Approving, Decisions
  <2>3. Ingests(p)' /\ (Owning(p)' => Owning(p))
    BY <1>1, <1>2, <1>4, <2>1 DEF Fine, Ingests, Owning, InFlight
  <2>4. Fine(p)'
    BY <1>1, <1>2, <2>1, <2>2, <2>3
       DEF Fine, WantSound, Holds, InFlight, Validated, Derived, Owning
  <2> QED
    BY <1>1, <1>4, <2>3, <2>4, GotoStep DEF Steps
<1> QED
  BY <1>3, <1>4 DEF Projected

\* Claiming a callback that nobody has claimed makes p its only owner.
LEMMA ClaimInv ==
  ASSUME IInv, NEW p \in Procs, Claim(p)
  PROVE  IInv'
<1> DEFINE c == task[p].callback
           step == IF want[p].status = "awaiting_callback" THEN "update" ELSE "sessions"
<1>1. /\ Fine(p) /\ TypeOK /\ RowSound /\ LocalType /\ pc[p] = "claim"
      /\ receipts[c] = "none"
      /\ receipts' = [receipts EXCEPT ![c] = "claimed"]
      /\ UNCHANGED <<revision, payload, answers, reports, sessions, tickets, given,
                     unprojected>>
  BY DEF IInv, TypeOK, LocalType, Claim, row, external
<1>2. /\ LocalType' /\ Alone(p)
      /\ pc'[p] = step
      /\ task'[p] = task[p] /\ at'[p] = at[p] /\ want'[p] = want[p]
  BY <1>1, GotoLemma DEF Claim, Steps
<1>3. task[p].kind = "submit" /\ c \in Callbacks
  BY <1>1 DEF Fine, TaskFits
<1>4. /\ receipts'[c] = "claimed"
      /\ \A d \in Callbacks \ {c} : receipts'[d] = receipts[d]
      /\ receipts' \in [Callbacks -> {"none", "claimed", "accepted", "rejected",
                                      "state_update_failed"}]
  BY <1>1, <1>3 DEF TypeOK
<1>5. TaskFits(p)' /\ WantSound(p)' /\ Validated(p)' /\ Approving(p)'
  BY <1>1, <1>2, <1>3
     DEF Fine, TaskFits, WantSound, Holds, InFlight, OutputsSound, ReportKnown, ReportMade,
         InReview, Validated, Approving
<1>6. "decide" \notin Commands => c \notin payload.submitted \cup OutputsOf(payload)
  BY <1>1, <1>3 DEF IInv, ReceiptsSound
<1>7. Derived(p)' /\ Ingests(p)'
  BY <1>1, <1>2, <1>3, <1>6 DEF Fine, Derived, Ingests, InFlight
<1>8. Fine(p)'
  BY <1>2, <1>4, <1>5, <1>7 DEF Fine
<1>9. ReceiptsSound'
  BY <1>1, <1>3, <1>4 DEF IInv, ReceiptsSound, ReceiptsAgree, Outputs
<1>10. \A q \in Procs \ {p} : Owning(q) => receipts'[task[q].callback] = receipts[task[q].callback]
  <2> SUFFICES ASSUME NEW q \in Procs, Owning(q)
               PROVE  receipts'[task[q].callback] = receipts[task[q].callback]
    OBVIOUS
  <2>1. /\ receipts[task[q].callback] = "claimed"
        /\ task[q].callback \in Callbacks
    BY DEF IInv, Fine, TaskFits, Owning
  <2> QED
    BY <1>1, <1>4, <2>1
<1> QED
  BY <1>1, <1>2, <1>4, <1>8, <1>9, <1>10, SideStep DEF Grows, row, external, TypeOK, RowSound

\* Closing the sessions, and creating the report, of a run that ends.
LEMMA FinalizeInv ==
  ASSUME IInv, NEW p \in Procs, CloseSessions(p) \/ CreateReport(p)
  PROVE  IInv'
<1>1. /\ Fine(p) /\ TypeOK /\ RowSound /\ LocalType /\ want[p] \in Runs
      /\ UNCHANGED <<row, external, revision, payload, answers, receipts, tickets, task, at,
                     given, unprojected>>
      /\ task[p].kind = "submit" /\ Owning(p)
      /\ PrepSound(want[p]) /\ LimitSound(want[p]) /\ HookSound(want[p])
      /\ OutputsSound(want[p]) /\ ReportKnown(want[p])
  BY DEF IInv, Fine, TaskFits, TypeOK, LocalType, CloseSessions, CreateReport, row, external,
         Owning, WantSound, Holds, InFlight, Steady
<1>2. ReceiptsSound'
  BY <1>1 DEF IInv, ReceiptsSound, ReceiptsAgree, Outputs
<1>3. CASE CloseSessions(p)
  <2> DEFINE step == IF want[p].report = 0 THEN "report" ELSE "update"
  <2>1. /\ pc[p] = "sessions" /\ sessions' = "closed" /\ UNCHANGED <<reports, want>>
        /\ Goto(p, step)
    BY <1>3 DEF CloseSessions
  <2>2. /\ LocalType' /\ Alone(p)
        /\ pc'[p] = step
        /\ task'[p] = task[p] /\ at'[p] = at[p] /\ want'[p] = want[p]
    BY <1>1, <2>1, GotoLemma DEF Steps
  <2>3. TaskFits(p)' /\ Validated(p)' /\ Approving(p)'
    BY <1>1, <2>2 DEF Fine, TaskFits, Validated, Approving
  <2>4. WantSound(p)'
    BY <1>1, <2>1, <2>2
       DEF WantSound, Steady, OutputsSound, ReportKnown, ReportMade, Decisions
  <2>5. Derived(p)' /\ Ingests(p)'
    BY <1>1, <2>1, <2>2 DEF Fine, Derived, Ingests, InFlight, Owning
  <2>6. Fine(p)'
    BY <1>1, <2>2, <2>3, <2>4, <2>5 DEF Fine
  <2> QED
    BY <1>1, <1>2, <2>1, <2>2, <2>6, SideStep DEF Grows, TypeOK, RowSound
<1>4. CASE CreateReport(p)
  <2>1. /\ pc[p] = "report"
        /\ reports' = Append(reports, "inbox")
        /\ want' = [want EXCEPT ![p] = [want[p] EXCEPT !.report = Len(reports')]]
        /\ Goto(p, "update")
        /\ UNCHANGED sessions
    BY <1>4 DEF CreateReport
  <2>2. /\ reports' \in Seq({"inbox", "approved", "rejected", "pending_review"})
        /\ reports' # <<>> /\ Len(reports') \in Nat
    BY <1>1, <2>1 DEF TypeOK
  <2> DEFINE r == [want[p] EXCEPT !.report = Len(reports')]
  <2>3. /\ r \in Runs /\ r.status = want[p].status /\ r.next_action = want[p].next_action
        /\ r.from = want[p].from /\ r.outputs = want[p].outputs
        /\ r.submitted = want[p].submitted /\ r.pending = want[p].pending
        /\ r.round = want[p].round /\ r.rejections = want[p].rejections
    BY <1>1, <2>2 DEF Runs
  <2> HIDE DEF r
  <2>4. /\ LocalType' /\ Alone(p)
        /\ pc'[p] = "update"
        /\ task'[p] = task[p] /\ at'[p] = at[p] /\ want'[p] = r
    BY <1>1, <2>1, <2>3 DEF LocalType, TaskType, Alone, Goto, Steps, r
  <2>5. Steady(r)
    BY <1>1, <2>3 DEF Steady, PrepSound, AtPrep, LimitSound, Awaits, HookSound
  <2>6. TaskFits(p)' /\ Validated(p)' /\ Approving(p)'
    BY <1>1, <2>4 DEF Fine, TaskFits, Validated, Approving
  <2>7. WantSound(p)'
    BY <1>1, <2>2, <2>3, <2>4, <2>5
       DEF WantSound, OutputsSound, ReportKnown, ReportMade, Decisions
  <2>8. Derived(p)' /\ Ingests(p)'
    <3>1. OutputsOf(r) = OutputsOf(want[p])
      BY <2>3 DEF OutputsOf
    <3>2. OutputsOf(want'[p]) = OutputsOf(r) /\ OutputsOf(payload') = OutputsOf(payload)
      BY <1>1, <2>4
    <3> QED
      BY <1>1, <2>1, <2>3, <2>4, <3>1, <3>2 DEF Fine, Derived, Ingests, InFlight, Owning
  <2>9. Fine(p)'
    BY <1>1, <2>4, <2>6, <2>7, <2>8 DEF Fine
  <2>10. sessions = "closed"
    BY <1>1, <2>1 DEF Fine, WantSound
  <2> QED
    BY <1>1, <1>2, <2>1, <2>2, <2>4, <2>9, <2>10, SideStep DEF Grows, TypeOK, RowSound
<1> QED
  BY <1>3, <1>4

\* A report that cannot be created fails the command, whether or not it was stored.
LEMMA ReportFailsInv ==
  ASSUME IInv, NEW p \in Procs, ReportFails(p)
  PROVE  IInv'
<1>1. /\ Fine(p) /\ TypeOK /\ RowSound /\ LocalType
      /\ pc[p] = "report" /\ sessions = "closed"
      /\ UNCHANGED <<row, external, revision, payload, answers, receipts, sessions, tickets,
                     given, unprojected>>
      /\ Return(p) \/ Fail(p)
  BY DEF IInv, Fine, TypeOK, LocalType, ReportFails, row, external, WantSound
<1>2. /\ reports' \in Seq({"inbox", "approved", "rejected", "pending_review"})
      /\ reports # <<>> => reports' # <<>>
  <2>1. reports \in Seq({"inbox", "approved", "rejected", "pending_review"})
    BY <1>1 DEF TypeOK
  <2>2. /\ Append(reports, "inbox") \in Seq({"inbox", "approved", "rejected", "pending_review"})
        /\ Append(reports, "inbox") # <<>>
    BY <2>1
  <2> QED
    BY <2>1, <2>2 DEF ReportFails
<1>3. /\ LocalType' /\ Alone(p) /\ Fine(p)'
      /\ Owning(p)' => Owning(p) /\ task'[p].callback = task[p].callback
  <2>1. revision' \in Nat
    BY <1>1 DEF TypeOK
  <2> QED
    BY <1>1, <2>1, FailLemma, ReturnLemma
<1>4. ReceiptsSound'
  BY <1>1 DEF IInv, ReceiptsSound, ReceiptsAgree, Outputs
<1> QED
  BY <1>1, <1>2, <1>3, <1>4, SideStep DEF Grows, TypeOK, RowSound

\* Settling a receipt: it then tells what became of its callback.
LEMMA SettleInv ==
  ASSUME IInv, NEW p \in Procs, Complete(p) \/ Failed(p)
  PROVE  IInv'
<1> DEFINE c == task[p].callback
<1>1. PICK status \in {"accepted", "rejected", "state_update_failed"} :
        /\ receipts' = [receipts EXCEPT ![c] = status]
        /\ status = "state_update_failed" => pc[p] = "failed"
        /\ status # "state_update_failed"
             => pc[p] = "complete" /\ (status = "accepted" <=> answers[c].good)
  BY DEF Complete, Failed, Settle
<1>2. /\ Fine(p) /\ TypeOK /\ RowSound /\ LocalType /\ Return(p) /\ Owning(p)
      /\ UNCHANGED <<row, external, revision, payload, answers, reports, sessions, tickets,
                     given, unprojected>>
      /\ c \in Callbacks
  BY DEF IInv, Fine, TaskFits, TypeOK, LocalType, Complete, Failed, Settle, row, external, Owning
<1>3. LocalType' /\ Alone(p) /\ Fine(p)' /\ ~Owning(p)'
  <2>1. revision' \in Nat
    BY <1>2 DEF TypeOK
  <2> QED
    BY <1>2, <2>1, ReturnLemma
<1>4. /\ receipts'[c] = status
      /\ \A d \in Callbacks \ {c} : receipts'[d] = receipts[d]
      /\ receipts' \in [Callbacks -> {"none", "claimed", "accepted", "rejected",
                                      "state_update_failed"}]
  BY <1>1, <1>2 DEF TypeOK
<1>5. \A q \in Procs \ {p} : Owning(q) => receipts'[task[q].callback] = receipts[task[q].callback]
  <2> SUFFICES ASSUME NEW q \in Procs \ {p}, Owning(q)
               PROVE  receipts'[task[q].callback] = receipts[task[q].callback]
    OBVIOUS
  <2>1. task[q].callback \in Callbacks \ {c}
    BY <1>2 DEF IInv, OneOwner, Fine, TaskFits, Owning
  <2> QED
    BY <1>4, <2>1
<1>6. ReceiptsSound'
  <2> SUFFICES ASSUME "decide" \notin Commands
               PROVE  /\ ReceiptsAgree'
                      /\ \A d \in Callbacks :
                           receipts'[d] = "none"
                             => d \notin payload.submitted \cup OutputsOf(payload)
    BY <1>2 DEF ReceiptsSound
  <2>1. /\ status # "state_update_failed" => c \in payload.submitted
        /\ status = "accepted" => c \in OutputsOf(payload)
        /\ status = "rejected" => c \notin OutputsOf(payload)
        /\ status = "state_update_failed" /\ c \in payload.submitted => c \in unprojected
    BY <1>1, <1>2 DEF Fine, Ingests
  <2>2. ReceiptsAgree /\ \A d \in Callbacks :
          receipts[d] = "none" => d \notin payload.submitted \cup OutputsOf(payload)
    BY DEF IInv, ReceiptsSound
  <2>3. Outputs = OutputsOf(payload) /\ Outputs' = OutputsOf(payload)
    BY <1>2 DEF Outputs, OutputsOf
  <2> QED
    BY <1>2, <1>4, <2>1, <2>2, <2>3 DEF ReceiptsAgree
<1> QED
  BY <1>2, <1>3, <1>4, <1>5, <1>6, SideStep DEF Grows, TypeOK, RowSound

\* decide: the revision, the report, and the ticket.
LEMMA DecisionInv ==
  ASSUME IInv, NEW p \in Procs, ReadRevision(p) \/ DecideReport(p) \/ CreateTicket(p)
  PROVE  IInv'
<1>1. /\ Fine(p) /\ TypeOK /\ RowSound /\ LocalType
      /\ UNCHANGED <<row, external, revision, payload, answers, receipts, sessions, given,
                     unprojected>>
      /\ task[p].kind \in Decisions /\ "decide" \in Commands
  BY DEF IInv, Fine, TaskFits, TypeOK, LocalType, ReadRevision, DecideReport, CreateTicket,
         row, external, side, Decisions
<1>2. ReceiptsSound'
  BY <1>1 DEF ReceiptsSound
<1>3. CASE ReadRevision(p)
  <2>1. /\ pc[p] = "revision" /\ at' = [at EXCEPT ![p] = revision]
        /\ Goto(p, "decide_report") /\ UNCHANGED <<task, want, reports, tickets, side>>
    BY <1>3 DEF ReadRevision, side
  <2>2. /\ LocalType' /\ Alone(p)
        /\ pc'[p] = "decide_report" /\ at'[p] = revision
        /\ task'[p] = task[p] /\ want'[p] = want[p]
    BY <1>1, <2>1 DEF LocalType, TaskType, TypeOK, Goto, Steps, Alone
  <2>3. TaskFits(p)' /\ WantSound(p)'
    BY <1>1, <2>1, <2>2
       DEF Fine, TypeOK, TaskFits, WantSound, Holds, InFlight, OutputsSound, ReportKnown
  <2>4. ~Owning(p)' /\ ~InFlight(p)'
    BY <2>2 DEF Owning, InFlight
  <2>5. Fine(p)'
    BY <2>2, <2>3, <2>4 DEF Fine, Validated, Approving, Derived, Ingests
  <2> QED
    BY <1>1, <2>1, <2>2, <2>4, <2>5, LocalStep DEF TypeOK
<1>4. CASE DecideReport(p)
  <2>1. /\ pc[p] = "decide_report" /\ reports # <<>>
        /\ reports' = [reports EXCEPT ![1] = ReportStatus[task[p].kind]]
        /\ Goto(p, "update") /\ UNCHANGED <<task, at, want, tickets>>
    BY <1>4 DEF DecideReport
  <2>2. /\ reports' \in Seq({"inbox", "approved", "rejected", "pending_review"})
        /\ reports' # <<>>
    <3>1. ReportStatus[task[p].kind] \in {"approved", "rejected", "pending_review"}
      BY <1>1 DEF ReportStatus, Decisions
    <3>2. reports \in Seq({"inbox", "approved", "rejected", "pending_review"})
      BY <1>1 DEF TypeOK
    <3>3. Len(reports) \in Nat /\ Len(reports) # 0 /\ Len(reports') = Len(reports)
      BY <2>1, <3>2
    <3> QED
      BY <2>1, <3>1, <3>2, <3>3
  <2>3. /\ LocalType' /\ Alone(p)
        /\ pc'[p] = "update"
        /\ task'[p] = task[p] /\ at'[p] = at[p] /\ want'[p] = want[p]
    BY <1>1, <2>1, GotoLemma DEF Steps
  <2>4. TaskFits(p)' /\ WantSound(p)'
    BY <1>1, <2>1, <2>2, <2>3
       DEF Fine, TaskFits, WantSound, Holds, InFlight, OutputsSound, ReportKnown, ReportMade
  <2>5. ~Owning(p)'
    BY <1>1, <2>3 DEF Owning, Decisions
  <2>6. Fine(p)'
    BY <1>1, <2>3, <2>4, <2>5 DEF Fine, Validated, Approving, Derived, Ingests
  <2> QED
    BY <1>1, <1>2, <2>1, <2>2, <2>3, <2>5, <2>6, SideStep DEF Grows, TypeOK, RowSound
<1>5. CASE CreateTicket(p)
  <2>1. /\ pc[p] = "ticket" /\ Return(p) /\ tickets' = tickets + 1 /\ UNCHANGED reports
    BY <1>5 DEF CreateTicket
  <2>2. LocalType' /\ Alone(p) /\ Fine(p)' /\ ~Owning(p)'
    <3>1. revision' \in Nat
      BY <1>1 DEF TypeOK
    <3> QED
      BY <1>1, <2>1, <3>1, ReturnLemma
  <2>3. payload.status \in Over
    BY <1>1, <2>1 DEF Fine, TaskFits, Approving
  <2>4. /\ tickets' \in Nat
        /\ receipts \in [Callbacks -> {"none", "claimed", "accepted", "rejected",
                                       "state_update_failed"}]
        /\ reports \in Seq({"inbox", "approved", "rejected", "pending_review"})
        /\ sessions \in {"open", "closed"} /\ given \in 0..MaxCommands
        /\ unprojected \subseteq Callbacks \cup {NoAnswer}
        /\ reports # <<>> => sessions = "closed"
    BY <1>1, <2>1 DEF TypeOK, RowSound
  <2>5. Grows
    BY <1>1, <2>1 DEF Grows
  <2> QED
    BY <1>1, <1>2, <2>1, <2>2, <2>3, <2>4, <2>5, SideStep
<1> QED
  BY <1>3, <1>4, <1>5

\* A command that is refused, or dies, leaves nothing behind.
LEMMA EndInv ==
  ASSUME IInv, NEW p \in Procs, ClaimReplay(p) \/ NoReport(p) \/ Crash(p)
  PROVE  IInv'
<1>1. unprojected \subseteq Callbacks \cup {NoAnswer}
  BY DEF IInv, TypeOK
<1> QED
  BY <1>1, ReturnStep DEF ClaimReplay, NoReport, Crash

------------------------------------------------------------------------------
(* The steps that others see *)

\* A new answer changes none that a run or a command already has.
LEMMA AnswersInv ==
  ASSUME IInv, NEW c \in Callbacks, RuntimeAnswers(c)
  PROVE  IInv'
<1>1. /\ TypeOK /\ TaskType /\ RowSound /\ ReceiptsSound /\ OneOwner
      /\ UNCHANGED <<revision, payload, receipts, reports, sessions, tickets,
                     pc, task, at, want, given, unprojected>>
      /\ answers[c] = NoAnswer
  BY DEF IInv, RuntimeAnswers, row, side, local
<1>2. PICK good \in BOOLEAN :
        answers' = [answers EXCEPT ![c] = [turn |-> Turn(payload), good |-> good]]
  BY DEF RuntimeAnswers
<1>3. Turn(payload) \in Nat
  BY RowFacts DEF Turn, Runs
<1>4. /\ answers' \in [Callbacks -> [turn : Nat, good : BOOLEAN] \cup {NoAnswer}]
      /\ \A d \in Callbacks : answers[d] # NoAnswer => answers'[d] = answers[d]
  BY <1>1, <1>2, <1>3 DEF TypeOK
<1>5. \A r \in Runs : OutputsSound(r) => OutputsSound(r)'
  <2> SUFFICES ASSUME NEW r \in Runs, OutputsSound(r), NEW i \in DOMAIN r.outputs
               PROVE  /\ answers'[r.outputs[i]] # NoAnswer
                      /\ answers'[r.outputs[i]].turn = i
                      /\ answers'[r.outputs[i]].good
    BY DEF OutputsSound
  <2>1. r.outputs \in Seq(Callbacks)
    BY DEF Runs
  <2>2. r.outputs[i] \in Callbacks
    BY <2>1
  <2> QED
    BY <1>4, <2>2 DEF OutputsSound
<1>6. TypeOK' /\ TaskType' /\ OneOwner'
  BY <1>1, <1>4 DEF TypeOK, TaskType, OneOwner, Owning
<1>7. RowSound'
  BY <1>1, <1>5 DEF RowSound, Steady, ReportKnown, ReportMade
<1>8. ReceiptsSound'
  BY <1>1 DEF ReceiptsSound, ReceiptsAgree, Outputs
<1>9. ASSUME NEW p \in Procs
      PROVE  Fine(p)'
  <2>1. Fine(p)
    BY DEF IInv
  <2>2. TaskFits(p)'
    BY <1>1, <1>4, <2>1 DEF Fine, TaskFits
  <2>3. WantSound(p)'
    <3>1. Holds(p) => Steady(want[p]) /\ OutputsSound(want[p])'
      BY <1>1, <1>5, <2>1 DEF Fine, WantSound, Steady
    <3> QED
      BY <1>1, <2>1, <3>1 DEF Fine, WantSound, Holds, InFlight, ReportKnown, ReportMade
  <2>4. Validated(p)' /\ Approving(p)'
    BY <1>1, <2>1 DEF Fine, Validated, Approving
  <2>5. task[p].kind = "submit" => answers'[task[p].callback] = answers[task[p].callback]
    BY <1>4, <2>1 DEF Fine, TaskFits
  <2>6. Derived(p)'
    BY <1>1, <2>1, <2>5 DEF Fine, Derived, InFlight
  <2>7. Ingests(p)'
    BY <1>1, <2>1, <2>5 DEF Fine, Ingests, InFlight, Owning
  <2>8. Owning(p)' => receipts'[task'[p].callback] = "claimed"
    BY <1>1, <2>1 DEF Fine, Owning
  <2> QED
    BY <2>2, <2>3, <2>4, <2>6, <2>7, <2>8 DEF Fine
<1> QED
  BY <1>6, <1>7, <1>8, <1>9 DEF IInv

\* The save: the row becomes what the command derived from it.
LEMMA SaveInv ==
  ASSUME IInv, NEW p \in Procs, SaveRun(p)
  PROVE  IInv'
<1>1. /\ TypeOK /\ TaskType /\ RowSound /\ LocalType /\ ReceiptsSound /\ OneOwner
      /\ \A q \in Procs : Fine(q)
  BY DEF IInv, TypeOK, LocalType
<1>2. /\ pc[p] = "save" /\ at[p] = revision
      /\ revision' = revision + 1 /\ payload' = want[p]
      /\ UNCHANGED <<answers, receipts, reports, sessions, tickets, given, unprojected>>
      /\ Goto(p, "project") /\ UNCHANGED <<task, at, want>>
      /\ revision \in Nat
  BY <1>1 DEF SaveRun, CompareAndSwap, external, side, TypeOK
<1>3. /\ LocalType' /\ Alone(p)
      /\ pc'[p] = "project"
      /\ task'[p] = task[p] /\ at'[p] = at[p] /\ want'[p] = want[p]
  BY <1>1, <1>2, GotoLemma DEF Steps
<1>4. Holds(p) /\ InFlight(p)
  BY <1>2 DEF Holds, InFlight
<1>5. /\ payload \in Runs /\ want[p] \in Runs
      /\ Steady(want[p]) /\ OutputsSound(want[p])
      /\ ReportKnown(want[p]) /\ ReportMade(want[p])
      /\ Permits(payload.status, want[p].status)
  BY <1>1, <1>2, <1>4 DEF Fine, WantSound, Validated, Steady, RowSound
<1>6. payload.status \in Over => want[p].status \in Over
  BY <1>5, PermitsOver DEF Runs
<1>7. TypeOK' /\ TaskType'
  BY <1>1, <1>2, <1>3, <1>5 DEF TypeOK, LocalType
<1>8. RowSound'
  BY <1>1, <1>2, <1>5, <1>6 DEF RowSound, OutputsSound, ReportKnown, ReportMade
<1>9. OneOwner'
  BY <1>2, <1>3, OwnerLemma DEF Owning
<1>10. "decide" \notin Commands =>
         /\ payload.submitted \subseteq want[p].submitted
         /\ OutputsOf(payload) \subseteq OutputsOf(want[p])
         /\ \A c \in (want[p].submitted \ payload.submitted)
                       \cup (OutputsOf(want[p]) \ OutputsOf(payload)) :
              Owning(p) /\ c = task[p].callback
  BY <1>1, <1>2, <1>4 DEF Fine, Derived, Owning
<1>11. /\ Outputs = OutputsOf(payload) /\ Outputs' = OutputsOf(want[p])
       /\ OutputsOf(payload)' = OutputsOf(want[p])
  BY <1>2 DEF Outputs, OutputsOf
<1>12. ReceiptsSound'
  <2> SUFFICES ASSUME "decide" \notin Commands
               PROVE  /\ ReceiptsAgree'
                      /\ \A c \in Callbacks :
                           receipts[c] = "none"
                             => c \notin want[p].submitted \cup OutputsOf(want[p])
    BY <1>2, <1>11 DEF ReceiptsSound
  <2>1. Owning(p) => receipts[task[p].callback] = "claimed"
    BY <1>1 DEF Fine
  <2>2. ReceiptsAgree /\ \A d \in Callbacks :
          receipts[d] = "none" => d \notin payload.submitted \cup OutputsOf(payload)
    BY <1>1 DEF ReceiptsSound
  <2>3. ReceiptsAgree'
    BY <1>2, <1>10, <1>11, <2>1, <2>2 DEF ReceiptsAgree
  <2> QED
    BY <1>10, <2>1, <2>2, <2>3
<1>13. Fine(p)'
  <2>1. TaskFits(p)'
    BY <1>1, <1>2, <1>3 DEF Fine, TaskFits, TypeOK
  <2>2. Approving(p)'
    BY <1>1, <1>2, <1>3, <1>4 DEF Fine, Approving, WantSound, Over
  <2>3. Ingests(p)'
    <3> SUFFICES ASSUME "decide" \notin Commands, task[p].kind = "submit"
                 PROVE  /\ task[p].callback \in want[p].submitted
                        /\ answers[task[p].callback].good
                              <=> task[p].callback \in OutputsOf(want[p])
      BY <1>2, <1>3, <1>11 DEF Ingests, InFlight, Owning
    <3>1. Owning(p)
      BY <1>2 DEF Owning
    <3> QED
      BY <1>1, <1>4, <3>1 DEF Fine, Derived, Ingests
  <2> QED
    BY <1>1, <1>2, <1>3, <2>1, <2>2, <2>3
       DEF Fine, WantSound, Holds, InFlight, Validated, Derived, Owning
<1>14. ASSUME NEW q \in Procs \ {p}
       PROVE  Fine(q)'
  <2>1. /\ Fine(q)
        /\ pc'[q] = pc[q] /\ task'[q] = task[q] /\ at'[q] = at[q] /\ want'[q] = want[q]
        /\ at[q] <= revision /\ at[q] \in Nat
    BY <1>1, <1>3 DEF Alone, Fine, TaskFits, TypeOK
  <2>2. InFlight(q)' = InFlight(q) /\ Holds(q)' = Holds(q) /\ Owning(q)' = Owning(q)
    BY <2>1 DEF InFlight, Holds, Owning
  <2>3. TaskFits(q)' /\ Validated(q)'
    BY <1>2, <2>1 DEF Fine, TaskFits, Validated
  <2>4. WantSound(q)'
    BY <1>2, <2>1, <2>2
       DEF Fine, WantSound, OutputsSound, ReportKnown, ReportMade
  <2>5. Approving(q)'
    BY <1>2, <1>6, <2>1 DEF Fine, Approving
  <2>6. Derived(q)'
    <3> SUFFICES ASSUME "decide" \notin Commands, InFlight(q)
                 PROVE  Derived(q)'
      BY <2>2 DEF Derived
    <3>1. /\ \A c \in want[q].submitted \ want[p].submitted :
                task[q].kind = "submit" /\ c = task[q].callback
          /\ \A c \in OutputsOf(want[q]) \ OutputsOf(want[p]) :
                task[q].kind = "submit" /\ c = task[q].callback /\ answers[c].good
      BY <1>10, <2>1 DEF Fine, Derived
    <3> QED
      BY <1>2, <1>11, <2>1, <2>2, <3>1 DEF Fine, Derived
  <2>7. Ingests(q)'
    <3> SUFFICES ASSUME "decide" \notin Commands, Owning(q)
                 PROVE  Ingests(q)'
      BY <2>2 DEF Ingests
    <3>1. ~(Owning(p) /\ task[p].callback = task[q].callback)
      BY <1>1 DEF OneOwner
    <3>2. /\ task[q].callback \in want[p].submitted <=> task[q].callback \in payload.submitted
          /\ task[q].callback \in OutputsOf(want[p])
               <=> task[q].callback \in OutputsOf(payload)
      BY <1>10, <3>1
    <3> QED
      BY <1>2, <1>11, <2>1, <2>2, <3>2 DEF Fine, Ingests
  <2> QED
    BY <1>2, <2>1, <2>2, <2>3, <2>4, <2>5, <2>6, <2>7 DEF Fine
<1> QED
  BY <1>7, <1>8, <1>9, <1>12, <1>13, <1>14 DEF IInv

------------------------------------------------------------------------------
(* The invariant *)

\* A registered run satisfies it, whichever way it begins.
LEMMA InitInv == Init => IInv
<1> SUFFICES ASSUME Init PROVE IInv
  OBVIOUS
<1>1. /\ NewRun \in Runs
      /\ PrepSound(NewRun) /\ LimitSound(NewRun) /\ HookSound(NewRun)
      /\ NewRun.outputs = <<>> /\ NewRun.round = 1 /\ ~NewRun.pending
      /\ NewRun.from = NoState /\ NewRun.report = 0 /\ NewRun.submitted = {}
  <2>1. <<>> \in Seq(Callbacks) /\ 0 \in 0..Participants /\ {} \in SUBSET Callbacks
    BY BoundsAssumption
  <2>2. NewRun \in Runs
    BY <2>1 DEF NewRun, Runs, RUN_STATES
  <2> QED
    BY <2>2 DEF NewRun, PrepSound, LimitSound, Awaits, HookSound
<1>2. /\ Steady(payload) /\ payload.outputs = <<>> /\ payload.submitted = {}
      /\ payload.from = NoState /\ payload.report = 0
      /\ payload.status \in {"awaiting_prep_review", "awaiting_callback"}
  <2>1. CASE payload = NewRun
    BY <1>1, <2>1 DEF Steady, NewRun
  <2>2. CASE payload \in WithNextHook([NewRun EXCEPT !.status = "awaiting_callback"])
    <3> DEFINE begun == [NewRun EXCEPT !.status = "awaiting_callback"]
    <3>1. /\ begun \in Runs
          /\ begun.status = "awaiting_callback" /\ begun.from = NoState
          /\ begun.report = 0 /\ begun.submitted = {}
          /\ begun.outputs = <<>> /\ begun.round = 1 /\ ~begun.pending
      BY <1>1 DEF Runs, RUN_STATES
    <3>2. payload \in WithNextHook(begun)
      BY <2>2
    <3> HIDE DEF begun
    <3>3. /\ payload \in Runs
          /\ payload.status = "awaiting_callback" /\ payload.from = NoState
          /\ payload.report = 0 /\ payload.submitted = {} /\ payload.outputs = <<>>
          /\ payload.pending /\ payload.rejections = 0
          /\ payload.next_action = "run_next_hermes_hook"
      BY <3>1, <3>2, HookLemma
    <3> QED
      BY <3>3, BoundsAssumption
         DEF Steady, PrepSound, AtPrep, LimitSound, Awaits, HookSound
  <2> QED
    BY <2>1, <2>2 DEF Init, InitialRuns
<1>3. TypeOK
  BY <1>2, BoundsAssumption DEF Init, TypeOK, Steady, Steps
<1>4. TaskType
  BY DEF Init, TaskType, NoTask, Kinds
<1>5. RowSound
  BY <1>2, NoValueAssumption
     DEF Init, RowSound, OutputsSound, ReportKnown, ReportMade, InReview, RUN_STATES
<1>6. ReceiptsSound
  BY <1>2 DEF Init, ReceiptsSound, ReceiptsAgree, OutputsOf
<1>7. \A p \in Procs : ~Owning(p) /\ Fine(p)
  BY DEF Init, NoTask, Owning, Fine, TaskFits, WantSound, Holds, InFlight, Validated, Approving,
         Derived, Ingests, Decisions
<1> QED
  BY <1>3, <1>4, <1>5, <1>6, <1>7 DEF IInv, OneOwner

\* Every step preserves it.
LEMMA NextInv == IInv /\ [Next]_vars => IInv'
<1> SUFFICES ASSUME IInv, [Next]_vars PROVE IInv'
  OBVIOUS
<1>1. CASE UNCHANGED vars
  BY <1>1
     DEF vars, row, external, side, local, IInv, TypeOK, TaskType, RowSound, OutputsSound,
         ReportKnown, ReportMade, ReceiptsSound, ReceiptsAgree, Outputs, OneOwner, Owning,
         Fine, TaskFits, WantSound, Holds, InFlight, Validated, Approving, Derived, Ingests
<1>2. CASE \E c \in Callbacks : RuntimeAnswers(c)
  BY <1>2, AnswersInv
<1>3. ASSUME NEW p \in Procs,
             Submission(p) \/ Control(p) \/ Decision(p) \/ Store(p) \/ Crash(p)
      PROVE  IInv'
  <2>1. CASE Submission(p)
    BY <2>1, SubmitInv, ClaimInv, EndInv, FinalizeInv, ReportFailsInv, SettleInv DEF Submission
  <2>2. CASE Control(p)
    BY <2>2, ApprovePrepInv, PrepDecisionInv, InterruptInv, ResumeInv, HintInv, CloseInv
       DEF Control
  <2>3. CASE Decision(p)
    BY <2>3, DecideInv, DecisionInv, EndInv DEF Decision
  <2>4. CASE Store(p)
    BY <2>4, UpdateInv, SaveInv, FailInv, ProjectedInv DEF Store
  <2>5. CASE Crash(p)
    BY <2>5, EndInv
  <2> QED
    BY <1>3, <2>1, <2>2, <2>3, <2>4, <2>5
<1> QED
  BY <1>1, <1>2, <1>3 DEF Next

------------------------------------------------------------------------------
(* Theorems *)

\* IInv is an invariant.
THEOREM Inductive == Spec => []IInv
  BY InitInv, NextInv, PTL DEF Spec

\* The state keeps its shape, whatever commands are given and wherever they die.
THEOREM TypeCorrect == Spec => []TypeOK
<1>1. IInv => TypeOK
  BY DEF IInv
<1> QED
  BY <1>1, Inductive, PTL

\* The outputs that submit accepts answer the turns in order, one each, and are good.
THEOREM OneOutput == Spec => []OneOutputPerTurn
<1>1. IInv => OneOutputPerTurn
  BY DEF IInv, RowSound, OutputsSound, OneOutputPerTurn
<1> QED
  BY <1>1, Inductive, PTL

\* A run that waits for a callback has rejections left: _reject_callback ends it in time.
THEOREM LimitEndsRun == Spec => []RetryLimitEndsRun
<1>1. IInv => RetryLimitEndsRun
  BY DEF IInv, RowSound, Steady, LimitSound, Awaits, RetryLimitEndsRun
<1> QED
  BY <1>1, Inductive, PTL

\* The author is asked only about a run whose report exists and whose sessions are over.
THEOREM ReportReady == Spec => []ReviewHasReport
<1>1. IInv => ReviewHasReport
  BY DEF IInv, RowSound, ReportMade, InReview, ReviewHasReport
<1> QED
  BY <1>1, Inductive, PTL

\* decide makes tickets for a run that is approved, and stays so or is closed.
THEOREM TicketsApproved == Spec => []TicketsOnlyWhenApproved
<1>1. IInv => TicketsOnlyWhenApproved
  BY DEF IInv, RowSound, Over, TicketsOnlyWhenApproved
<1> QED
  BY <1>1, Inductive, PTL

\* While no prep review can be held, a run that waits for a callback has its hook.
THEOREM HookWaits == "prep" \notin Commands => (Spec => []HookWhenAwaiting)
<1> SUFFICES ASSUME "prep" \notin Commands PROVE Spec => []HookWhenAwaiting
  OBVIOUS
<1>1. IInv => HookWhenAwaiting
  BY DEF IInv, RowSound, Steady, HookSound, HookWhenAwaiting
<1> QED
  BY <1>1, Inductive, PTL

\* Without decide, claim_callback and complete_callback tell the truth about the row.
THEOREM ReceiptsTrue == "decide" \notin Commands => (Spec => []ReceiptsAgree)
<1> SUFFICES ASSUME "decide" \notin Commands PROVE Spec => []ReceiptsAgree
  OBVIOUS
<1>1. IInv => ReceiptsAgree
  BY DEF IInv, ReceiptsSound
<1> QED
  BY <1>1, Inductive, PTL

\* The verdict of complete_callback on a callback never changes.
THEOREM VerdictsFinal == Spec => ReceiptsFinal
<1>1. IInv /\ [Next]_vars
        => [\A c \in Callbacks :
              receipts[c] \notin {"none", "claimed"} => receipts'[c] = receipts[c]]_vars
  <2> SUFFICES ASSUME IInv, Next, NEW c \in Callbacks, receipts[c] \notin {"none", "claimed"}
               PROVE  receipts'[c] = receipts[c]
    OBVIOUS
  <2>1. receipts \in [Callbacks -> {"none", "claimed", "accepted", "rejected",
                                    "state_update_failed"}]
    BY DEF IInv, TypeOK
  <2>2. ASSUME NEW p \in Procs, Claim(p)
        PROVE  receipts'[c] = receipts[c]
    BY <2>1, <2>2 DEF Claim
  <2>3. ASSUME NEW p \in Procs, Complete(p) \/ Failed(p)
        PROVE  receipts'[c] = receipts[c]
    <3>1. receipts[task[p].callback] = "claimed"
      BY <2>3 DEF IInv, Fine, TaskFits, Owning, Complete, Failed
    <3> QED
      BY <2>1, <2>3, <3>1 DEF Complete, Failed, Settle
  <2>4. CASE UNCHANGED receipts
    BY <2>4
  <2> QED
    BY <2>2, <2>3, <2>4
       DEF Next, RuntimeAnswers, Submission, Submit, ClaimReplay, CloseSessions, CreateReport,
           ReportFails, Control, ApprovePrep, PrepDecision, Interrupt, Resume, ResumeHint, Hint,
           Close, Decision, Decide, ReadRevision, DecideReport, NoReport, CreateTicket, Store,
           Update, SaveRun, SaveConflict, Projected, ProjectFails, Crash, Others, side
<1> QED
  BY <1>1, Inductive, PTL DEF Spec, ReceiptsFinal

\* Only saves change the row.
LEMMA OthersKeepRow ==
  ASSUME Next, \A p \in Procs : ~SaveRun(p)
  PROVE  UNCHANGED row
BY DEF Next, RuntimeAnswers, Submission, Submit, Claim, ClaimReplay, CloseSessions,
       CreateReport, ReportFails, Complete, Failed, Settle, Control, ApprovePrep, PrepDecision,
       Interrupt, Resume, ResumeHint, Hint, Close, Decision, Decide, ReadRevision, DecideReport,
       NoReport, CreateTicket, Store, Update, SaveConflict, Projected, ProjectFails, Crash,
       Others

\* Each status that RunStore.save writes is permitted by the one it replaces, although
\* the transition was validated before the transaction.
THEOREM TransitionsLegal == Spec => SavedTransitionsAreLegal
<1>1. IInv /\ [Next]_vars => [Permits(payload.status, payload'.status)]_vars
  <2> SUFFICES ASSUME IInv, Next PROVE Permits(payload.status, payload'.status)
    OBVIOUS
  <2>1. ASSUME NEW p \in Procs, SaveRun(p)
        PROVE  Permits(payload.status, payload'.status)
    BY <2>1 DEF SaveRun, CompareAndSwap, IInv, Fine, Validated
  <2>2. CASE \A p \in Procs : ~SaveRun(p)
    BY <2>2, OthersKeepRow DEF row, Permits
  <2> QED
    BY <2>1, <2>2
<1> QED
  BY <1>1, Inductive, PTL DEF Spec, SavedTransitionsAreLegal

\* Without decide, whatever RunStore.save writes was computed from the row it replaces.
THEOREM NoStaleSave == "decide" \notin Commands => (Spec => StaleUpdatesAreRejected)
<1> SUFFICES ASSUME "decide" \notin Commands PROVE Spec => StaleUpdatesAreRejected
  OBVIOUS
<1>1. IInv /\ [Next]_vars => [\A p \in Procs : SaveRun(p) => task[p].read = revision]_vars
  BY DEF SaveRun, CompareAndSwap, IInv, Fine, Derived, InFlight
<1> QED
  BY <1>1, Inductive, PTL DEF Spec, StaleUpdatesAreRejected

------------------------------------------------------------------------------
(* Answers to dispatched turns: the inductive invariant, in parts. *)

Records ==
  [file : Replies, id : CallbackNames, task : Dispatches \cup {NoDispatch},
   receipt : Dispatches \cup {NoDispatch}, turn : Nat, before : SUBSET Dispatches]
Submissions ==
  [at : {"idle", "search", "bind", "save"}, file : Replies \cup {NoReply}, board : Nat,
   searched : {0, 1, 2}, found : SUBSET Dispatches, before : SUBSET Dispatches]

\* The fields of the run that the invariant is about; the others are lists of fields.
BoardType ==
  board \in [turn : Nat, revision : Nat, submitted : SUBSET Records,
             retry : {board.retry}, rejected : {board.rejected}]

Types ==
  /\ BoardType
  /\ issued \in [Dispatches -> TaskFiles \cup {NoDispatch}]
  /\ reply \in [Replies -> Answers \cup {NoReply}]
  /\ submission \in [Submitters -> Submissions]

\* A task is named only once its file is written.
RepliesSound ==
  \A c \in Replies : reply[c] # NoReply =>
    {reply[c].task, reply[c].receipt} \subseteq Written \cup {NoDispatch}

Filed(t, k) == t \in InPlace(k, {"queue", "archive"})

\* The tasks that a submission must find: those that were there when it began, and the
\* one that an honest answer is about.
Sought(x) ==
  x.before \cup {t \in Dispatches : t = reply[x.file].task /\ Honest(reply[x.file])}

\* They are found, or still to be found in the archive.
SearchSound(x) ==
  /\ x.file \in Replies /\ reply[x.file] # NoReply
  /\ \A t \in Sought(x) \cup x.found : Filed(t, reply[x.file].turn)
  /\ x.searched = 1 => \A t \in Sought(x) \ x.found : issued[t].place = "archive"
  /\ x.searched = 2 => Sought(x) \subseteq x.found
  /\ x.at = "search" <=> x.searched # 2
  /\ x.at = "save" => Binds(reply[x.file], x.found)

\* While nobody has saved the run since, the answer is new.
New(x) ==
  /\ x.board <= board.revision
  /\ x.board = board.revision =>
       \A y \in board.submitted :
         /\ y.file # x.file /\ y.id # reply[x.file].id
         /\ y.task # reply[x.file].task \/ y.task = NoDispatch

SubmissionSound(x) == x.at # "idle" => SearchSound(x) /\ New(x)

BoardSound ==
  /\ \A x \in board.submitted :
       x.before # {} => x.task \in Written /\ x.receipt = x.task /\ issued[x.task].turn = x.turn
  /\ \A x, y \in board.submitted :
       x # y => x.file # y.file /\ x.id # y.id /\ (x.task # y.task \/ x.task = NoDispatch)

DispatchInv ==
  /\ Types /\ RepliesSound /\ BoardSound
  /\ \A s \in Submitters : SubmissionSound(submission[s])

------------------------------------------------------------------------------
(* What one step leaves the processes that take no part in it *)

\* What was said stays said; a task file stays with its turn, and moves to the archive if
\* at all; the run is left alone or has a new revision.
Moves ==
  /\ \A c \in Replies : reply[c] # NoReply => reply'[c] = reply[c]
  /\ \A t \in Written :
       /\ issued'[t] # NoDispatch /\ issued'[t].turn = issued[t].turn
       /\ issued'[t].place \in {issued[t].place, "archive"}
  /\ board' = board \/ board'.revision > board.revision

LEMMA Facts ==
  ASSUME DispatchInv
  PROVE  /\ BoardType /\ issued \in [Dispatches -> TaskFiles \cup {NoDispatch}]
         /\ reply \in [Replies -> Answers \cup {NoReply}]
         /\ submission \in [Submitters -> Submissions]
         /\ board.turn \in Nat /\ board.revision \in Nat /\ board.submitted \subseteq Records
         /\ \A c \in Replies : reply[c] # NoReply => reply[c] \in Answers
         /\ \A t \in Dispatches : issued[t] # NoDispatch => issued[t] \in TaskFiles
         /\ \A s \in Submitters : submission[s] \in Submissions
BY DEF DispatchInv, Types, BoardType

LEMMA WrittenKept ==
  ASSUME DispatchInv, Moves
  PROVE  /\ Written \subseteq Written'
         /\ \A t \in Dispatches, k \in Nat : Filed(t, k) => Filed(t, k)'
<1>1. ASSUME NEW t \in Written
      PROVE  /\ t \in Written'
             /\ issued'[t].turn = issued[t].turn
             /\ issued[t].place \in {"queue", "archive"}
             /\ issued'[t].place \in {"queue", "archive"}
  <2>1. t \in Dispatches /\ issued[t] # NoDispatch /\ issued[t].place # "torn"
    BY DEF Written
  <2>2. issued[t] \in TaskFiles
    BY <2>1, Facts
  <2>3. issued[t].place \in {"queue", "archive"}
    BY <2>1, <2>2 DEF TaskFiles, Places
  <2> QED
    BY <2>1, <2>3 DEF Moves, Written
<1> QED
  BY <1>1 DEF Filed, InPlace

LEMMA HonestKept ==
  ASSUME DispatchInv, Moves, NEW c \in Replies, reply[c] # NoReply
  PROVE  reply'[c] = reply[c] /\ (Honest(reply[c])' <=> Honest(reply[c]))
<1>1. reply'[c] = reply[c]
  BY DEF Moves
<1>2. reply[c].task = NoDispatch \/ reply[c].task \in Written
  BY DEF DispatchInv, RepliesSound
<1>3. reply[c].task # NoDispatch => issued'[reply[c].task].turn = issued[reply[c].task].turn
  BY <1>2 DEF Moves
<1> QED
  BY <1>1, <1>3 DEF Honest

LEMMA Kept ==
  ASSUME DispatchInv, Moves, BoardType', NEW x \in Submissions, SubmissionSound(x)
  PROVE  SubmissionSound(x)'
<1> SUFFICES ASSUME x.at # "idle"
             PROVE  SearchSound(x)' /\ New(x)'
  BY DEF SubmissionSound
<1>1. /\ SearchSound(x) /\ New(x) /\ x.file \in Replies /\ reply[x.file] # NoReply
      /\ x.board \in Nat /\ x.found \subseteq Dispatches /\ x.before \subseteq Dispatches
      /\ Sought(x) \subseteq Dispatches
  BY DEF SubmissionSound, SearchSound, Submissions, Sought
<1>2. reply'[x.file] = reply[x.file] /\ (Honest(reply[x.file])' <=> Honest(reply[x.file]))
  BY <1>1, HonestKept
<1>3. Sought(x)' = Sought(x)
  BY <1>2 DEF Sought
<1>4. reply[x.file] \in Answers /\ reply[x.file].turn \in Nat
  BY <1>1, Facts DEF Answers
<1>5. \A t \in Sought(x) \cup x.found : Filed(t, reply[x.file].turn) /\ t \in Written
  BY <1>1 DEF SearchSound, Filed, InPlace
<1>6. \A t \in Sought(x) \cup x.found : Filed(t, reply[x.file].turn)'
  <2>1. \A t \in Sought(x) \cup x.found : t \in Dispatches
    BY <1>1
  <2> QED
    BY <1>2, <1>4, <1>5, <2>1, WrittenKept DEF Filed, InPlace, Written
<1>7. x.searched = 1 => \A t \in Sought(x) \ x.found : issued'[t].place = "archive"
  BY <1>1, <1>5 DEF SearchSound, Moves
<1>8. SearchSound(x)'
  BY <1>1, <1>2, <1>3, <1>6, <1>7, Zenon DEF SearchSound, Binds
<1>9. New(x)'
  <2>1. CASE board' = board
    BY <1>1, <1>2, <2>1 DEF New
  <2>2. CASE board'.revision > board.revision
    BY <1>1, <2>2, Facts DEF New, BoardType
  <2> QED
    BY <2>1, <2>2 DEF Moves
<1> QED
  BY <1>8, <1>9

\* What is known of a process after a step is known of what it is doing then.
LEMMA FineNext ==
  ASSUME NEW s \in Submitters, NEW y, submission'[s] = y, SubmissionSound(y)'
  PROVE  SubmissionSound(submission[s])'
BY DEF SubmissionSound, SearchSound, New, Sought, Honest, Filed, InPlace, Written, Binds

\* A step of one process, and of none.
LEMMA StepOf ==
  ASSUME DispatchInv, Types', Moves, RepliesSound', BoardSound',
         NEW s \in Submitters, NEW y \in Submissions,
         submission' = [submission EXCEPT ![s] = y], SubmissionSound(y)'
  PROVE  DispatchInv'
<1>1. ASSUME NEW p \in Submitters
      PROVE  SubmissionSound(submission[p])'
  <2>1. CASE p = s
    <3>1. submission'[s] = y
      BY Facts
    <3>2. SubmissionSound(submission[s])'
      BY <3>1, FineNext
    <3> QED
      BY <2>1, <3>2
  <2>2. CASE p # s
    <3>1. submission'[p] = submission[p]
      BY <2>2, Facts
    <3>2. SubmissionSound(submission[p]) /\ submission[p] \in Submissions /\ BoardType'
      BY Facts DEF DispatchInv, Types
    <3>3. PICK z \in Submissions : z = submission[p] /\ SubmissionSound(z)
      BY <3>2
    <3>4. SubmissionSound(z)'
      BY <3>2, <3>3, Kept
    <3>5. submission'[p] = z
      BY <3>1, <3>3
    <3> QED
      BY <3>4, <3>5, FineNext
  <2> QED
    BY <2>1, <2>2
<1> QED
  BY <1>1 DEF DispatchInv

LEMMA StepOfNone ==
  ASSUME DispatchInv, Types', Moves, RepliesSound', BoardSound', submission' = submission
  PROVE  DispatchInv'
<1>1. ASSUME NEW p \in Submitters
      PROVE  SubmissionSound(submission[p])'
  <2>1. PICK z \in Submissions : z = submission[p] /\ SubmissionSound(z)
    BY Facts DEF DispatchInv
  <2>2. SubmissionSound(z)'
    BY <2>1, Kept DEF Types
  <2>3. submission'[p] = z
    BY <2>1
  <2> QED
    BY <2>2, <2>3, FineNext
<1> QED
  BY <1>1 DEF DispatchInv

\* No one is at work on an answer.
LEMMA IdleFine ==
  NoSubmission \in Submissions /\ SubmissionSound(NoSubmission)'
BY DEF NoSubmission, Submissions, SubmissionSound

------------------------------------------------------------------------------
(* Tasks and answers *)

\* What a step that only moves task files owes.
LEMMA FilesStep ==
  ASSUME DispatchInv, UNCHANGED <<board, reply, submission>>,
         issued' \in [Dispatches -> TaskFiles \cup {NoDispatch}],
         \A t \in Written :
           /\ issued'[t] # NoDispatch /\ issued'[t].turn = issued[t].turn
           /\ issued'[t].place \in {issued[t].place, "archive"}
  PROVE  DispatchInv'
<1>1. Types' /\ Moves
  BY DEF DispatchInv, Types, BoardType, Moves
<1>2. Written \subseteq Written'
  BY <1>1, WrittenKept
<1>3. RepliesSound'
  BY <1>2 DEF DispatchInv, RepliesSound
<1>4. BoardSound'
  BY <1>2 DEF DispatchInv, BoardSound
<1> QED
  BY <1>1, <1>3, <1>4, StepOfNone

LEMMA TaskRecords ==
  ASSUME DispatchInv, NEW t \in Dispatches, issued[t] # NoDispatch
  PROVE  /\ issued[t] \in TaskFiles
         /\ issued[t] = [turn |-> issued[t].turn, place |-> issued[t].place]
         /\ issued[t].turn \in Nat
BY Facts DEF TaskFiles

LEMMA DispatchStep ==
  ASSUME DispatchInv, NEW t \in Dispatches, NEW hook \in HandedOut, Dispatch(t, hook)
  PROVE  DispatchInv'
<1> DEFINE f == [turn |-> hook.turn, place |-> "torn"]
<1>1. f \in TaskFiles
  BY DEF HandedOut, PromptPacket, TaskFiles, Places
<1> HIDE DEF f
<1>2. issued' = [issued EXCEPT ![t] = f] /\ issued[t] = NoDispatch
  BY DEF Dispatch, f
<1>3. issued' \in [Dispatches -> TaskFiles \cup {NoDispatch}]
  BY <1>1, <1>2, Facts
<1>4. ASSUME NEW d \in Written
      PROVE  issued'[d] = issued[d] /\ issued[d] # NoDispatch
  BY <1>2, Facts DEF Written
<1> QED
  BY <1>3, <1>4, FilesStep DEF Dispatch

LEMMA WriteStep ==
  ASSUME DispatchInv, NEW t \in Dispatches, WriteDispatched(t)
  PROVE  DispatchInv'
<1> DEFINE f == [issued[t] EXCEPT !.place = "queue"]
<1>1. f \in TaskFiles /\ t \notin Written
  BY TaskRecords DEF WriteDispatched, TaskFiles, Places, Written
<1>2. issued' = [issued EXCEPT ![t] = f]
  BY DEF WriteDispatched
<1> HIDE DEF f
<1>3. issued' \in [Dispatches -> TaskFiles \cup {NoDispatch}]
  BY <1>1, <1>2, Facts
<1>4. ASSUME NEW d \in Written
      PROVE  issued'[d] = issued[d] /\ issued[d] # NoDispatch
  BY <1>1, <1>2, Facts DEF Written
<1> QED
  BY <1>3, <1>4, FilesStep DEF WriteDispatched

LEMMA CollectStep ==
  ASSUME DispatchInv, NEW c \in Replies, CollectReply(c)
  PROVE  DispatchInv'
<1> DEFINE t == reply[c].task
           f == [issued[t] EXCEPT !.place = "archive"]
<1>1. t \in Written
  BY DEF CollectReply, Honest, DispatchInv, RepliesSound
<1>2. t \in Dispatches /\ issued[t] # NoDispatch
  BY <1>1 DEF Written
<1>3. issued' = [issued EXCEPT ![t] = f]
  BY DEF CollectReply
<1> HIDE DEF t
<1>4. f \in TaskFiles /\ f.turn = issued[t].turn /\ f.place = "archive"
  BY <1>2, TaskRecords DEF TaskFiles, Places
<1> HIDE DEF f
<1>5. issued' \in [Dispatches -> TaskFiles \cup {NoDispatch}]
  BY <1>3, <1>4, Facts
<1>6. ASSUME NEW d \in Written
      PROVE  /\ issued'[d] # NoDispatch /\ issued'[d].turn = issued[d].turn
             /\ issued'[d].place \in {issued[d].place, "archive"}
  <2>1. d \in Dispatches /\ issued[d] # NoDispatch
    BY DEF Written
  <2>2. CASE d = t
    <3>1. issued'[d] = f
      BY <1>2, <1>3, <2>2, Facts
    <3> QED
      BY <1>4, <2>2, <3>1, NothingAssumption
  <2>3. CASE d # t
    <3>1. issued'[d] = issued[d]
      BY <1>3, <2>1, <2>3, Facts
    <3> QED
      BY <2>1, <3>1
  <2> QED
    BY <2>2, <2>3
<1> QED
  BY <1>5, <1>6, FilesStep DEF CollectReply

LEMMA ReplyStep ==
  ASSUME DispatchInv, NEW c \in Replies, NEW hook \in HandedOut, NEW id \in CallbackNames,
         NEW output \in ReplyOutputs, NEW t \in Dispatches \cup {NoDispatch},
         NEW receipt \in Dispatches \cup {NoDispatch}, ReplyTo(c, hook, id, t, receipt, output)
  PROVE  DispatchInv'
<1> DEFINE a == [id |-> id, task |-> t, receipt |-> receipt, turn |-> hook.turn,
                 session |-> hook.session, output |-> output]
<1>1. hook.turn \in Nat /\ hook.session \in Elements(Routes)
  BY DEF HandedOut, PromptPacket, Elements
<1>2. a \in Answers /\ a.task = t /\ a.receipt = receipt
  BY <1>1 DEF Answers
<1>3. reply' = [reply EXCEPT ![c] = a] /\ reply[c] = NoReply
  BY DEF ReplyTo
<1>4. UNCHANGED <<board, issued, submission>> /\ Written' = Written
  BY DEF ReplyTo, Written
<1> HIDE DEF a
<1>5. Types' /\ Moves
  BY <1>2, <1>3, <1>4, Facts DEF DispatchInv, Types, BoardType, Moves, Written
<1>6. RepliesSound'
  <2> SUFFICES ASSUME NEW d \in Replies, reply'[d] # NoReply
               PROVE  {reply'[d].task, reply'[d].receipt} \subseteq Written \cup {NoDispatch}
    BY <1>4 DEF RepliesSound
  <2>1. CASE d = c
    BY <1>2, <1>3, <2>1, Facts DEF ReplyTo
  <2>2. CASE d # c
    <3>1. reply'[d] = reply[d]
      BY <1>3, <2>2, Facts
    <3> QED
      BY <3>1 DEF DispatchInv, RepliesSound
  <2> QED
    BY <2>1, <2>2
<1>7. BoardSound'
  BY <1>4 DEF DispatchInv, BoardSound
<1> QED
  BY <1>4, <1>5, <1>6, <1>7, StepOfNone

------------------------------------------------------------------------------
(* submit *)

\* What a step of one process that leaves the run, the tasks and the answers alone owes.
LEMMA SubmitStep ==
  ASSUME DispatchInv, UNCHANGED <<board, issued, reply>>, NEW s \in Submitters,
         NEW y \in Submissions, submission' = [submission EXCEPT ![s] = y], SubmissionSound(y)
  PROVE  DispatchInv'
<1>1. Types' /\ Moves
  BY Facts DEF DispatchInv, Types, BoardType, Moves, Written
<1>2. RepliesSound' /\ BoardSound' /\ BoardType'
  BY <1>1 DEF DispatchInv, RepliesSound, BoardSound, Types, Written
<1>3. SubmissionSound(y)'
  BY <1>1, <1>2, Kept
<1> QED
  BY <1>1, <1>2, <1>3, StepOf

LEMMA BeginStep ==
  ASSUME DispatchInv, NEW s \in Submitters, NEW c \in Replies, BeginSubmit(s, c)
  PROVE  DispatchInv'
<1> DEFINE before == InPlace(board.turn, {"queue", "archive"})
           y == [NoSubmission EXCEPT !.at = "search", !.file = c, !.board = board.revision,
                                     !.before = before]
<1>1. submission' = [submission EXCEPT ![s] = y] /\ UNCHANGED <<board, issued, reply>>
  BY DEF BeginSubmit
<1>2. before \subseteq Dispatches /\ \A t \in before : Filed(t, board.turn)
  BY DEF InPlace, Written, Filed
<1> HIDE DEF before
<1>3. /\ y \in Submissions /\ y.at = "search" /\ y.file = c /\ y.board = board.revision
      /\ y.before = before /\ y.searched = 0 /\ y.found = {}
  BY <1>2, Facts DEF NoSubmission, Submissions
<1> HIDE DEF y
<1>4. reply[c] # NoReply /\ reply[c].turn = board.turn
  BY DEF BeginSubmit
<1>5. ASSUME Honest(reply[c]), reply[c].task \in Dispatches
      PROVE  Filed(reply[c].task, board.turn)
  <2>1. reply[c].task \in Written /\ issued[reply[c].task].turn = board.turn
    BY <1>4, <1>5 DEF Honest, DispatchInv, RepliesSound
  <2>2. issued[reply[c].task].place \in {"queue", "archive"}
    BY <2>1, TaskRecords DEF Written, TaskFiles, Places
  <2> QED
    BY <2>1, <2>2 DEF Filed, InPlace
<1>6. SearchSound(y)
  BY <1>2, <1>3, <1>4, <1>5 DEF SearchSound, Sought
<1>7. New(y)
  <2>1. ASSUME NEW x \in board.submitted
        PROVE  /\ x.file # c /\ x.id # reply[c].id
               /\ x.task # reply[c].task \/ x.task = NoDispatch
    BY DEF BeginSubmit, UsedBefore
  <2> QED
    BY <1>3, <2>1, Facts DEF New
<1> QED
  BY <1>1, <1>3, <1>6, <1>7, SubmitStep DEF SubmissionSound

LEMMA DiesStep ==
  ASSUME DispatchInv, NEW s \in Submitters, SubmissionDies(s)
  PROVE  DispatchInv'
BY IdleFine, SubmitStep DEF SubmissionDies, EndSubmission, SubmissionSound, NoSubmission

\* A directory is searched.  What had to be found and is not in the queue has been
\* archived: a file is never in neither.
LEMMA SearchStep ==
  ASSUME DispatchInv, NEW s \in Submitters, SearchTasks(s)
  PROVE  DispatchInv'
<1> DEFINE x == submission[s]
           n == x.searched + 1
           more == InPlace(ReplyOf(s).turn, {SearchOrder[n]})
           y == [x EXCEPT !.found = @ \cup more, !.searched = n,
                          !.at = IF n = Len(SearchOrder) THEN "bind" ELSE "search"]
<1>1. UNCHANGED <<board, issued, reply>>
  BY DEF SearchTasks
<1>2. submission' = [submission EXCEPT ![s] = y]
  BY Facts DEF SearchTasks
<1>3. x \in Submissions /\ x.at = "search" /\ SearchSound(x) /\ New(x)
  BY Facts DEF SearchTasks, DispatchInv, SubmissionSound
<1>4. x.searched \in {0, 1} /\ n \in {1, 2} /\ Len(SearchOrder) = 2
  BY <1>3 DEF SearchSound, Submissions, SearchOrder
<1>5. SearchOrder[1] = "queue" /\ SearchOrder[2] = "archive"
  BY DEF SearchOrder
<1>6. reply[x.file] = ReplyOf(s) /\ reply[x.file] # NoReply /\ x.file \in Replies
  BY <1>3 DEF ReplyOf, SearchSound
<1>7. more \subseteq Dispatches /\ \A t \in more : Filed(t, reply[x.file].turn)
  BY <1>4, <1>5, <1>6 DEF InPlace, Written, Filed
<1>8. \A t \in Dispatches : Filed(t, reply[x.file].turn) /\ issued[t].place = SearchOrder[n]
                              => t \in more
  BY <1>6 DEF Filed, InPlace
<1> HIDE DEF more
<1>9. /\ y \in Submissions /\ y.at = IF n = 2 THEN "bind" ELSE "search"
      /\ y.file = x.file /\ y.board = x.board /\ y.searched = n
      /\ y.found = x.found \cup more /\ y.before = x.before
  BY <1>3, <1>4, <1>7 DEF Submissions
<1> HIDE DEF y
<1>10. Sought(y) = Sought(x) /\ Sought(x) \subseteq Dispatches
  BY <1>3, <1>9 DEF Sought, Submissions
<1>11. \A t \in Sought(x) : Filed(t, reply[x.file].turn)
  BY <1>3 DEF SearchSound
<1>12. \A t \in Sought(x) : issued[t].place \in {"queue", "archive"}
  BY <1>11 DEF Filed, InPlace
<1>13. n = 1 => \A t \in Sought(y) \ y.found : issued[t].place = "archive"
  BY <1>5, <1>8, <1>9, <1>10, <1>11, <1>12
<1>14. n = 2 => Sought(y) \subseteq y.found
  <2> SUFFICES ASSUME n = 2, NEW t \in Sought(x), t \notin x.found
               PROVE  t \in more
    BY <1>9, <1>10
  <2>1. issued[t].place = "archive"
    BY <1>3, <1>4 DEF SearchSound
  <2> QED
    BY <1>5, <1>8, <1>10, <1>11, <2>1
<1>15. \A t \in Sought(y) \cup y.found : Filed(t, reply[y.file].turn)
  BY <1>3, <1>7, <1>9, <1>10 DEF SearchSound
<1>16. (y.at = "search" <=> y.searched # 2) /\ y.at # "save"
  BY <1>4, <1>9
<1>17. (y.searched = 1 <=> n = 1) /\ (y.searched = 2 <=> n = 2)
  BY <1>9
<1>18. y.file \in Replies /\ reply[y.file] # NoReply
  BY <1>6, <1>9
<1> HIDE DEF n
<1>19. SearchSound(y)
  BY <1>13, <1>14, <1>15, <1>16, <1>17, <1>18 DEF SearchSound
<1>20. New(y)
  BY <1>3, <1>9 DEF New
<1> QED
  BY <1>1, <1>2, <1>9, <1>19, <1>20, SubmitStep DEF SubmissionSound

LEMMA BindStep ==
  ASSUME DispatchInv, NEW s \in Submitters, BindReply(s)
  PROVE  DispatchInv'
<1> DEFINE x == submission[s]
           y == [x EXCEPT !.at = "save"]
<1>1. UNCHANGED <<board, issued, reply>>
  BY DEF BindReply
<1>2. x \in Submissions /\ x.at = "bind" /\ SearchSound(x) /\ New(x)
  BY Facts DEF BindReply, DispatchInv, SubmissionSound
<1>3. CASE submission' = [submission EXCEPT ![s] = NoSubmission]
  BY <1>1, <1>3, IdleFine, SubmitStep DEF SubmissionSound, NoSubmission
<1>4. CASE submission' = [submission EXCEPT ![s] = y] /\ Binds(ReplyOf(s), x.found)
  <2>1. /\ y \in Submissions /\ y.at = "save" /\ y.file = x.file /\ y.board = x.board
        /\ y.searched = x.searched /\ y.found = x.found /\ y.before = x.before
    BY <1>2 DEF Submissions
  <2>2. submission' = [submission EXCEPT ![s] = y]
    BY <1>4
  <2>3. reply[y.file] = ReplyOf(s)
    BY <2>1 DEF ReplyOf
  <2> HIDE DEF y
  <2>4. Sought(y) = Sought(x) /\ y.searched = 2
    BY <1>2, <2>1 DEF Sought, SearchSound, Submissions
  <2>5. SearchSound(y)
    BY <1>2, <1>4, <2>1, <2>3, <2>4 DEF SearchSound
  <2>6. New(y)
    BY <1>2, <2>1 DEF New
  <2> QED
    BY <1>1, <2>1, <2>2, <2>5, <2>6, SubmitStep DEF SubmissionSound
<1>5. \/ submission' = [submission EXCEPT ![s] = NoSubmission]
      \/ submission' = [submission EXCEPT ![s] = y] /\ Binds(ReplyOf(s), x.found)
  BY Facts DEF BindReply, EndSubmission
<1> QED
  BY <1>3, <1>4, <1>5

\* What is recorded when the run was not saved meanwhile.
LEMMA RecordSound ==
  ASSUME DispatchInv, NEW s \in Submitters, submission[s].at = "save"
  PROVE  LET r == CallbackRecord(s) IN
         /\ r \in Records
         /\ r.before # {} =>
              r.task \in Written /\ r.receipt = r.task /\ issued[r.task].turn = r.turn
         /\ submission[s].board = board.revision =>
              \A z \in board.submitted :
                /\ z.file # r.file /\ z.id # r.id
                /\ z.task # r.task \/ z.task = NoDispatch
<1> DEFINE x == submission[s]
           r == CallbackRecord(s)
<1>1. x \in Submissions /\ x.at = "save" /\ SearchSound(x) /\ New(x)
  BY Facts DEF DispatchInv, SubmissionSound
<1>2. x.file \in Replies /\ ReplyOf(s) = reply[x.file] /\ reply[x.file] \in Answers
  BY <1>1, Facts DEF SearchSound, ReplyOf
<1>3. /\ r \in Records /\ r.file = x.file /\ r.id = reply[x.file].id
      /\ r.task = reply[x.file].task /\ r.receipt = reply[x.file].receipt
      /\ r.turn = reply[x.file].turn /\ r.before = x.before
  BY <1>1, <1>2 DEF CallbackRecord, Records, Answers, Submissions
<1> HIDE DEF r
<1>4. ASSUME r.before # {}
      PROVE  r.task \in Written /\ r.receipt = r.task /\ issued[r.task].turn = r.turn
  <2>1. x.before # {} /\ x.before \subseteq x.found /\ Binds(reply[x.file], x.found)
    BY <1>1, <1>3, <1>4 DEF SearchSound, Sought, Submissions
  <2>2. r.task \in x.found /\ r.receipt = r.task
    BY <1>3, <2>1 DEF Binds
  <2>3. Filed(r.task, r.turn)
    BY <1>1, <1>3, <2>2 DEF SearchSound
  <2> QED
    BY <2>2, <2>3 DEF Filed, InPlace
<1>5. ASSUME x.board = board.revision, NEW z \in board.submitted
      PROVE  z.file # r.file /\ z.id # r.id /\ (z.task # r.task \/ z.task = NoDispatch)
  BY <1>1, <1>3, <1>5 DEF New
<1> QED
  BY <1>3, <1>4, <1>5 DEF r

LEMMA SaveStep ==
  ASSUME DispatchInv, NEW s \in Submitters, SaveSubmission(s)
  PROVE  DispatchInv'
<1> DEFINE r == CallbackRecord(s)
<1>1. /\ UNCHANGED <<issued, reply>> /\ submission' = [submission EXCEPT ![s] = NoSubmission]
      /\ submission[s].at = "save" /\ Written' = Written
  BY DEF SaveSubmission, EndSubmission, Written
<1>2. RepliesSound'
  BY <1>1 DEF DispatchInv, RepliesSound
<1>3. CASE board' = board
  BY <1>1, <1>3, IdleFine, SubmitStep DEF SubmissionSound, NoSubmission
<1>4. CASE board' # board
  <2> DEFINE output == Sanitized(ReplyOf(s).output)
             gate == QualityGate(output)
             saved == [board EXCEPT !.revision = @ + 1, !.submitted = @ \cup {r}]
  <2>1. /\ submission[s].board = board.revision
        /\ \/ board' = [saved EXCEPT !.turn = @ + 1, !.retry = NoAdvice]
           \/ board' = [saved EXCEPT !.retry = RetryContext(gate), !.rejected = output]
    BY <1>4 DEF SaveSubmission
  <2> HIDE DEF gate, output, r
  <2>2. /\ r \in Records
        /\ r.before # {} =>
              r.task \in Written /\ r.receipt = r.task /\ issued[r.task].turn = r.turn
        /\ \A z \in board.submitted :
             /\ z.file # r.file /\ z.id # r.id
             /\ z.task # r.task \/ z.task = NoDispatch
    BY <1>1, <2>1, RecordSound DEF r
  <2>3. board.submitted \cup {r} \in SUBSET Records /\ board.revision + 1 \in Nat
    BY <2>2, Facts
  <2>4. /\ saved \in [turn : Nat, revision : Nat, submitted : SUBSET Records,
                      retry : {board.retry}, rejected : {board.rejected}]
        /\ saved.revision = board.revision + 1 /\ saved.submitted = board.submitted \cup {r}
    BY <2>3, Facts, Zenon DEF BoardType
  <2> HIDE DEF saved
  <2>5. BoardType' /\ board'.revision = board.revision + 1
        /\ board'.submitted = board.submitted \cup {r}
    <3>1. CASE board' = [saved EXCEPT !.turn = @ + 1, !.retry = NoAdvice]
      <4>1. board' \in [turn : Nat, revision : Nat, submitted : SUBSET Records,
                        retry : {NoAdvice}, rejected : {board.rejected}]
        <5>1. saved.turn + 1 \in Nat
          BY <2>4
        <5> QED
          BY <2>4, <3>1, <5>1, Zenon
      <4> QED
        BY <2>4, <3>1, <4>1 DEF BoardType
    <3>2. CASE board' = [saved EXCEPT !.retry = RetryContext(gate), !.rejected = output]
      <4>1. board' \in [turn : Nat, revision : Nat, submitted : SUBSET Records,
                        retry : {RetryContext(gate)}, rejected : {output}]
        BY <2>4, <3>2
      <4> QED
        BY <2>4, <3>2, <4>1 DEF BoardType
    <3> QED
      BY <2>1, <3>1, <3>2
  <2>6. Types' /\ Moves
    BY <1>1, <2>5, IdleFine, Facts DEF DispatchInv, Types, Moves, Written
  <2>7. BoardSound'
    <3>1. \A x \in board'.submitted :
            x.before # {} =>
              x.task \in Written /\ x.receipt = x.task /\ issued[x.task].turn = x.turn
      BY <2>2, <2>5 DEF DispatchInv, BoardSound
    <3>2. \A x, y \in board.submitted :
            x # y => x.file # y.file /\ x.id # y.id /\ (x.task # y.task \/ x.task = NoDispatch)
      BY DEF DispatchInv, BoardSound
    <3>3. \A x, y \in board'.submitted :
            x # y => x.file # y.file /\ x.id # y.id /\ (x.task # y.task \/ x.task = NoDispatch)
      BY <2>2, <2>5, <3>2
    <3> QED
      BY <1>1, <3>1, <3>3 DEF BoardSound
  <2> QED
    BY <1>1, <1>2, <2>6, <2>7, IdleFine, StepOf
<1> QED
  BY <1>3, <1>4

------------------------------------------------------------------------------
(* The theorems *)

LEMMA Start == DispatchInit => DispatchInv
<1> SUFFICES ASSUME DispatchInit PROVE DispatchInv
  OBVIOUS
<1>1. Types
  BY DEF DispatchInit, Types, BoardType, NoSubmission, Submissions
<1>2. RepliesSound /\ BoardSound
  BY DEF DispatchInit, RepliesSound, BoardSound
<1>3. \A s \in Submitters : SubmissionSound(submission[s])
  BY DEF DispatchInit, SubmissionSound, NoSubmission
<1> QED
  BY <1>1, <1>2, <1>3 DEF DispatchInv

LEMMA Stutter == DispatchInv /\ UNCHANGED dispatchVars => DispatchInv'
<1> SUFFICES ASSUME DispatchInv, UNCHANGED dispatchVars PROVE DispatchInv'
  OBVIOUS
<1>1. UNCHANGED <<board, reply, submission, issued>>
  BY DEF dispatchVars
<1>2. \A t \in Written : issued[t] # NoDispatch
  BY DEF Written
<1> QED
  BY <1>1, <1>2, Facts, FilesStep

LEMMA EveryStep == DispatchInv /\ [DispatchNext]_dispatchVars => DispatchInv'
BY Stutter, DispatchStep, WriteStep, CollectStep, ReplyStep, BeginStep, SearchStep, BindStep,
   SaveStep, DiesStep
   DEF DispatchNext

\* The invariant holds of everything that runtime and bridge can do with dispatched turns
\* (hermes.py, autonomous_orchestrator.py).
THEOREM DispatchInductive == DispatchSpec => []DispatchInv
BY Start, EveryStep, PTL DEF DispatchSpec

LEMMA Bound == DispatchInv => DispatchesBind
<1> SUFFICES ASSUME DispatchInv PROVE DispatchesBind
  OBVIOUS
<1>1. AnswersAreBound
  <2>1. \A t \in Written : t # NoDispatch
    BY NothingAssumption DEF Written
  <2> QED
    BY <2>1 DEF DispatchInv, BoardSound, AnswersAreBound
<1>2. HonestAnswersBind
  <2> SUFFICES ASSUME NEW s \in Submitters, submission[s].at = "bind", Honest(ReplyOf(s))
               PROVE  Binds(ReplyOf(s), submission[s].found)
    BY DEF HonestAnswersBind
  <2>1. SearchSound(submission[s]) /\ submission[s] \in Submissions
    BY Facts DEF DispatchInv, SubmissionSound
  <2>2. submission[s].searched = 2 /\ Sought(submission[s]) \subseteq submission[s].found
    BY <2>1 DEF SearchSound
  <2>3. ReplyOf(s) \in Answers
    BY <2>1, Facts DEF SearchSound, ReplyOf
  <2>4. ReplyOf(s).task \in Dispatches
    BY <2>3 DEF Honest, Answers
  <2>5. ReplyOf(s).task \in Sought(submission[s])
    BY <2>4 DEF Sought, ReplyOf
  <2> QED
    BY <2>2, <2>5 DEF Binds, Honest
<1> QED
  BY <1>1, <1>2 DEF DispatchesBind

\* An answer counts once, and only for the task that was issued for its turn if there was
\* one, whatever is archived while the directories are searched; and an answer as its task
\* packet asks for it is never refused for want of its task (_issued_dispatch_tasks,
\* _validate_callback_binding, _validate_callback_unique).
THEOREM AnswersBind == DispatchSpec => []DispatchesBind
BY DispatchInductive, Bound, PTL
------------------------------------------------------------------------------
(* What a retry context asks for *)

\* The run keeps the output that was rejected, and the advice that was made of it.
AdviceSound ==
  board.retry # NoAdvice =>
    \E output \in ReplyOutputs :
      /\ board.rejected = Sanitized(output)
      /\ board.retry = RetryContext(QualityGate(Sanitized(output)))

LEMMA AdviceStart == DispatchInit => AdviceSound
BY DEF DispatchInit, AdviceSound

LEMMA AdviceStep ==
  ASSUME DispatchInv, AdviceSound, [DispatchNext]_dispatchVars
  PROVE  AdviceSound'
<1>1. CASE board' = board
  BY <1>1 DEF AdviceSound
<1>2. CASE \E s \in Submitters : SaveSubmission(s)
  <2>1. PICK s \in Submitters : SaveSubmission(s)
    BY <1>2
  <2> DEFINE output == ReplyOf(s).output
             gate == QualityGate(Sanitized(output))
             saved == [board EXCEPT !.revision = @ + 1, !.submitted = @ \cup {CallbackRecord(s)}]
  <2>2. output \in ReplyOutputs
    <3>1. submission[s].at = "save"
      BY <2>1 DEF SaveSubmission
    <3>2. SearchSound(submission[s])
      BY <3>1 DEF DispatchInv, SubmissionSound
    <3>3. ReplyOf(s) \in Answers
      BY <3>2, Facts DEF SearchSound, ReplyOf
    <3> QED
      BY <3>3 DEF Answers
  <2>3. \/ board' = board
        \/ board' = [saved EXCEPT !.turn = @ + 1, !.retry = NoAdvice]
        \/ board' = [saved EXCEPT !.retry = RetryContext(gate), !.rejected = Sanitized(output)]
    BY <2>1 DEF SaveSubmission
  <2>4. board \in [turn : Nat, revision : Nat, submitted : SUBSET Records,
                   retry : {board.retry}, rejected : {board.rejected}]
    BY Facts DEF BoardType
  <2> HIDE DEF gate, output
  <2>5. CASE board' = [saved EXCEPT !.turn = @ + 1, !.retry = NoAdvice]
    <3>1. board'.retry = NoAdvice
      BY <2>4, <2>5, Zenon
    <3> QED
      BY <3>1 DEF AdviceSound
  <2>6. CASE board' = [saved EXCEPT !.retry = RetryContext(gate), !.rejected = Sanitized(output)]
    <3>1. board'.retry = RetryContext(gate) /\ board'.rejected = Sanitized(output)
      BY <2>4, <2>6
    <3> QED
      BY <2>2, <3>1, Zenon DEF AdviceSound, gate
  <2> QED
    BY <1>1, <2>3, <2>5, <2>6
<1>3. board' = board \/ \E s \in Submitters : SaveSubmission(s)
  BY DEF DispatchNext, dispatchVars, Dispatch, WriteDispatched, ReplyTo, CollectReply,
         BeginSubmit, SearchTasks, BindReply, SubmissionDies
<1> QED
  BY <1>1, <1>2, <1>3

\* A list that is no longer than the bound is kept whole.
LEMMA BoundedWhole ==
  ASSUME NEW a \in Nat, NEW n \in Nat, n <= MaxListItems, NEW S \in SUBSET ((a + 1)..(a + n))
  PROVE  Bounded(S) = S
<1> SUFFICES ASSUME NEW i \in S
             PROVE  Cardinality({j \in S : j < i}) < MaxListItems
  BY DEF Bounded
<1>1. MaxListItems \in Nat /\ i \in Int /\ a + 1 <= i /\ i <= a + n
  BY FieldsAssumption
<1>2. IsFiniteSet((a + 1)..(i - 1)) /\ Cardinality((a + 1)..(i - 1)) <= i - 1 - a
  <2>1. a + 1 \in Int /\ i - 1 \in Int
    BY <1>1
  <2>2. /\ IsFiniteSet((a + 1)..(i - 1))
        /\ Cardinality((a + 1)..(i - 1)) =
             IF a + 1 > i - 1 THEN 0 ELSE (i - 1) - (a + 1) + 1
    BY <2>1, FS_Interval
  <2> QED
    BY <1>1, <2>2
<1>3. {j \in S : j < i} \subseteq (a + 1)..(i - 1)
  <2>1. ASSUME NEW j \in S, j < i
        PROVE  j \in (a + 1)..(i - 1)
    BY <1>1, <2>1
  <2> QED
    BY <2>1
<1>4. Cardinality({j \in S : j < i}) <= Cardinality((a + 1)..(i - 1))
  BY <1>2, <1>3, FS_Subset
<1>5. /\ Cardinality({j \in S : j < i}) \in Nat
      /\ Cardinality((a + 1)..(i - 1)) \in Nat
  BY <1>2, <1>3, FS_Subset, FS_CardinalityType
<1> QED
  BY <1>1, <1>2, <1>4, <1>5

LEMMA Lengths ==
  /\ Len(Required) \in Nat /\ Len(Expected) \in Nat /\ MaxListItems \in Nat
  /\ Len(Required) <= MaxListItems /\ Len(Expected) <= MaxListItems
BY FieldsAssumption, ListsFit

\* Each place asks for a field that is known or expected, and never for canon_mutation;
\* the uncertainty has a place among the required fields.
LEMMA PlacesNameFields ==
  /\ \A i \in RequiredPlaces \cup ExpectedPlaces :
       Asked[i] \in (KnownFields \cup Elements(Expected)) \ {"canon_mutation"}
  /\ \E i \in RequiredPlaces : Asked[i] = "uncertainty"
<1>1. \A i \in RequiredPlaces : Asked[i] = Required[i] /\ Required[i] \in Elements(Required)
  BY FieldsAssumption DEF RequiredPlaces, Asked, Elements
<1>2. \A i \in ExpectedPlaces : Asked[i] \in Elements(Expected)
  BY FieldsAssumption DEF ExpectedPlaces, Asked, Elements
<1>3. \E i \in RequiredPlaces : Required[i] = "uncertainty"
  BY FieldsAssumption DEF RequiredPlaces, Elements
<1> QED
  BY <1>1, <1>2, <1>3, FieldsAssumption

LEMMA AdviceWorks ==
  ASSUME NEW supplied, NEW output, output.labelled \in BOOLEAN,
         output = [given |-> supplied, empty |-> output.empty, labelled |-> output.labelled]
  PROVE  Passed(QualityGate(Sanitized(Corrected(output, RetryContext(QualityGate(output))))))
<1> DEFINE required == Missing(output, RequiredPlaces, FALSE)
           expected == Missing(output, ExpectedPlaces, TRUE)
           advice == RetryContext(QualityGate(output))
           fields(places) == {Asked[i] : i \in places}
           corrected == Sanitized(Corrected(output, advice))
<1>1. Bounded(required) = required /\ Bounded(expected) = expected
  <2>1. required \subseteq (0 + 1)..(0 + Len(Required))
    BY Lengths DEF Missing, RequiredPlaces
  <2>2. expected \subseteq (Len(Required) + 1)..(Len(Required) + Len(Expected))
    BY DEF Missing, ExpectedPlaces
  <2> HIDE DEF required, expected
  <2>3. Bounded(required) = required
    BY <2>1, Lengths, BoundedWhole
  <2>4. Bounded(expected) = expected
    BY <2>2, Lengths, BoundedWhole
  <2> QED
    BY <2>3, <2>4
<1>2. /\ advice.required = fields(required) /\ advice.expected = fields(expected)
      /\ advice.supply \subseteq fields(required) \cup fields(expected)
      /\ advice.label = (~output.labelled \/ "uncertainty" \notin output.given)
      /\ advice.remove = ("canon_mutation" \in output.given)
  <2>1. /\ QualityGate(output).required = required /\ QualityGate(output).expected = expected
        /\ QualityGate(output).unlabelled = (~output.labelled \/ "uncertainty" \notin output.given)
        /\ QualityGate(output).canon = ("canon_mutation" \in output.given)
    BY DEF QualityGate
  <2> HIDE DEF required, expected
  <2>2. Bounded(required \cup expected) \subseteq required \cup expected
    BY DEF Bounded
  <2> QED
    BY <1>1, <2>1, <2>2 DEF RetryContext
<1>3. required \subseteq RequiredPlaces /\ expected \subseteq ExpectedPlaces
  BY DEF Missing
<1>4. /\ \A i \in RequiredPlaces \ required : Asked[i] \in output.given
      /\ \A i \in ExpectedPlaces \ expected : Asked[i] \in output.given \cup output.empty
  BY DEF Missing
<1> HIDE DEF required, expected, advice
<1>5. /\ corrected.given =
           ((output.given \ IF advice.remove THEN {"canon_mutation"} ELSE {})
              \cup advice.required \cup advice.expected \cup advice.supply)
             \cap (KnownFields \cup Elements(Expected))
      /\ corrected.empty = output.empty
      /\ corrected.labelled = (output.labelled \/ advice.label)
  BY DEF Corrected, Sanitized
<1> HIDE DEF corrected
<1>6. \A i \in required \cup expected : Asked[i] \in corrected.given
  BY <1>2, <1>3, <1>5, PlacesNameFields
<1>7. \A i \in RequiredPlaces : Asked[i] \in corrected.given
  BY <1>4, <1>5, <1>6, PlacesNameFields
<1>8. \A i \in ExpectedPlaces : Asked[i] \in corrected.given \cup corrected.empty
  BY <1>4, <1>5, <1>6, PlacesNameFields
<1>9. "uncertainty" \in corrected.given /\ corrected.labelled
  <2>1. "uncertainty" \in corrected.given
    BY <1>7, PlacesNameFields
  <2> QED
    BY <1>2, <1>5, <2>1
<1>10. "canon_mutation" \notin corrected.given
  BY <1>2, <1>3, <1>5, PlacesNameFields
<1>11. /\ QualityGate(corrected).required = {} /\ QualityGate(corrected).expected = {}
       /\ ~QualityGate(corrected).unlabelled /\ ~QualityGate(corrected).canon
  BY <1>7, <1>8, <1>9, <1>10 DEF QualityGate, Missing
<1> QED
  BY <1>11 DEF Passed, corrected, advice

LEMMA Advises == AdviceSound => RetryAdviceSuffices
<1> SUFFICES ASSUME AdviceSound, board.retry # NoAdvice
             PROVE  Passed(QualityGate(Sanitized(Corrected(board.rejected, board.retry))))
  BY DEF RetryAdviceSuffices
<1>1. PICK output \in ReplyOutputs :
        /\ board.rejected = Sanitized(output)
        /\ board.retry = RetryContext(QualityGate(Sanitized(output)))
  BY DEF AdviceSound
<1> DEFINE o == Sanitized(output)
<1>2. output \in [given : SUBSET output.given, empty : {output.empty}, labelled : BOOLEAN]
  BY OutputsAssumption
<1>3. /\ o.labelled \in BOOLEAN
      /\ o = [given |-> o.given, empty |-> o.empty, labelled |-> o.labelled]
  BY <1>2 DEF Sanitized
<1> HIDE DEF o
<1>4. Passed(QualityGate(Sanitized(Corrected(o, RetryContext(QualityGate(o))))))
  BY <1>3, AdviceWorks
<1> QED
  BY <1>1, <1>4, Zenon DEF o

\* What a retry context asks for is enough, whatever lists of fields a workflow has and
\* whatever the runtime left out: the bounds on its lists cut nothing that is missing
\* (_build_retry_context, _bounded_code_list, quality_gate).
THEOREM AdviceSuffices == DispatchSpec => []RetryAdviceSuffices
BY DispatchInductive, AdviceStart, AdviceStep, Advises, PTL DEF DispatchSpec
===============================================================================
