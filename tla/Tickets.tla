------------------------------- MODULE Tickets -------------------------------
(****************************************************************************)
(* The tickets of one world: the only way changes reach its canon.          *)
(*                                                                          *)
(* An author drafts changes into a packet, or materializes a candidate that *)
(* a meeting or an orchestrator run left.  A packet is reviewed and applied; *)
(* until then it may be amended, split or merged, which supersedes it by    *)
(* new packets that need a review of their own.  Every one of these is one  *)
(* BEGIN IMMEDIATE transaction of the world database.  Rejecting a ticket,  *)
(* and holding it, are not: the review inbox reads the ticket, writes its   *)
(* status, and appends to the commit log in three transactions.             *)
(*                                                                          *)
(* A change is an identity: what it adds to the world does not matter here, *)
(* only that it is added once.                                              *)
(****************************************************************************)
EXTENDS Naturals, FiniteSets

CONSTANTS
  Ids,                  \* ticket ids
  Changes,              \* changes that authors draft
  Keys,                 \* idempotency keys; a ticket id is its own default key
  Procs,                \* review commands that may be in progress at once
  MaxReviews,           \* bound: reject and hold commands given
  NoTicket

Statuses == {"proposed", "approved", "applied", "converted", "superseded", "rejected"}

\* The rows of the tickets table, each with its ticket_changes and its lineage.
TicketRows ==
  [kind : {"packet", "candidate"}, status : Statuses,
   changes : SUBSET Changes, operation : {"none", "amend", "split", "merge"},
   parents : SUBSET Ids, root : Ids \cup {NoTicket}, roots : SUBSET Ids]

ASSUME NoTicketAssumption == NoTicket \notin Ids /\ NoTicket \notin TicketRows
ASSUME IdsAssumption == IsFiniteSet(Ids)
ASSUME KeysAssumption == Ids \subseteq Keys
ASSUME MaxReviewsAssumption == MaxReviews \in Nat

VARIABLES
  tickets,              \* the tickets table, with ticket_changes
  world,                \* how often each change was applied to the world
  receipts,             \* ticket_applications: the ticket of each key
  log,                  \* commit_log: the actions logged of each ticket
  sequence,             \* MAX(sequence) of commit_log
  pc,                   \* where each review command is
  target,               \* the ticket it is about
  seen,                 \* MAX(sequence), when it read it
  reviews               \* how many review commands have been given

canon == <<tickets, world, receipts>>
history == <<log, sequence>>
commands == <<pc, target, seen, reviews>>
vars == <<canon, history, commands>>

------------------------------------------------------------------------------
Used(t) == tickets[t] # NoTicket
Unused == {t \in Ids : ~Used(t)}
Status(t) == IF Used(t) THEN tickets[t].status ELSE "none"
Candidate(t) == Used(t) /\ tickets[t].kind = "candidate"
Packet(t) == Used(t) /\ tickets[t].kind = "packet"

\* REVISIONABLE_TICKET_STATUSES
Open(t) == Packet(t) /\ tickets[t].status \in {"proposed", "approved"}

Drafted == UNION {tickets[t].changes : t \in {u \in Ids : Used(u)}}
Fresh == Changes \ Drafted

\* _create_pr_packet_in_connection: the row of a new packet.  Its lineage names
\* its parents, one root (root_ticket_id), or several (root_ticket_ids).
NewPacket(changes, operation, parents, root, roots) ==
  [kind |-> "packet", status |-> "proposed", changes |-> changes,
   operation |-> operation, parents |-> parents, root |-> root, roots |-> roots]

NewCandidate == [NewPacket({}, "none", {}, NoTicket, {}) EXCEPT !.kind = "candidate"]

WithStatus(t, status) == [tickets EXCEPT ![t].status = status]

\* _lineage_root_ticket_ids
Roots(t) ==
  LET named == tickets[t].roots \cup ({tickets[t].root} \ {NoTicket})
  IN  IF named = {} THEN {t} ELSE named

Log(action, t) ==
  /\ log' = [log EXCEPT ![t] = @ \cup {action}]
  /\ sequence' = sequence + 1

\* _create_pr_packet_in_connection logs "ticket_created", its caller one more.
LogNew(news, action, t) ==
  /\ log' = [n \in Ids |-> log[n] \cup (IF n \in news THEN {"ticket_created"} ELSE {})
                                  \cup (IF n = t THEN {action} ELSE {})]
  /\ sequence' = sequence + Cardinality(news) + 1

------------------------------------------------------------------------------
(* Transactions *)

\* create_pr_packet
CreatePacket(n, changes) ==
  /\ n \in Unused
  /\ changes # {} /\ changes \subseteq Fresh
  /\ tickets' = [tickets EXCEPT ![n] = NewPacket(changes, "none", {}, NoTicket, {})]
  /\ Log("ticket_created", n)
  /\ UNCHANGED <<world, receipts, commands>>

\* create_ticket, by decide on a run or on a meeting.
CreateCandidate(n) ==
  /\ n \in Unused
  /\ tickets' = [tickets EXCEPT ![n] = NewCandidate]
  /\ UNCHANGED <<world, receipts, history, commands>>

\* materialize_candidate_ticket
Materialize(t, n, changes) ==
  /\ Candidate(t) /\ Status(t) = "proposed"
  /\ n \in Unused
  /\ changes # {} /\ changes \subseteq Fresh
  /\ tickets' = [WithStatus(t, "converted")
                   EXCEPT ![n] = NewPacket(changes, "none", {}, NoTicket, {})]
  /\ LogNew({n}, "candidate_materialized", n)
  /\ UNCHANGED <<world, receipts, commands>>

\* create_revision_packet: its only root is the source's root_ticket_id, which a
\* ticket merged from several roots does not have, or else the source.
Amend(t, n, changes) ==
  /\ Open(t)
  /\ n \in Unused
  /\ changes # {} /\ changes \subseteq tickets[t].changes \cup Fresh
  /\ tickets' = [WithStatus(t, "superseded") EXCEPT
                   ![n] = NewPacket(changes, "amend", {t},
                            IF tickets[t].root # NoTicket THEN tickets[t].root ELSE t,
                            {})]
  /\ LogNew({n}, "ticket_revised", n)
  /\ UNCHANGED <<world, receipts, commands>>

\* The children of a split: group assigns each change to one of them, and root
\* is the first of the source's roots.
Children(t, group, root) ==
  [n \in Ids |->
     IF \E c \in tickets[t].changes : group[c] = n
     THEN NewPacket({c \in tickets[t].changes : group[c] = n}, "split", {t},
                    root, Roots(t))
     ELSE tickets[n]]

\* A faulty split, for the checks to reject: the source stays open.
SplitKeepingSource(t, news, group) ==
  /\ Open(t)
  /\ news \subseteq Unused /\ Cardinality(news) >= 2
  /\ news = {group[c] : c \in tickets[t].changes}
  /\ \E root \in Roots(t) : tickets' = Children(t, group, root)
  /\ LogNew(news, "ticket_split", t)
  /\ UNCHANGED <<world, receipts, commands>>

\* A faulty split, for the checks to reject: the children keep the approval.
SplitKeepingApproval(t, news, group) ==
  /\ Open(t)
  /\ news \subseteq Unused /\ Cardinality(news) >= 2
  /\ news = {group[c] : c \in tickets[t].changes}
  /\ \E root \in Roots(t) :
       tickets' = [n \in Ids |->
         IF n \in news THEN [Children(t, group, root)[n] EXCEPT !.status = Status(t)]
         ELSE IF n = t THEN [tickets[t] EXCEPT !.status = "superseded"]
         ELSE tickets[n]]
  /\ LogNew(news, "ticket_split", t)
  /\ UNCHANGED <<world, receipts, commands>>

\* _split_ticket_packet: the groups partition the changes, and none is empty.
Split(t, news, group) ==
  /\ Open(t)
  /\ news \subseteq Unused /\ Cardinality(news) >= 2
  /\ news = {group[c] : c \in tickets[t].changes}
  /\ \E root \in Roots(t) :
       tickets' = [Children(t, group, root) EXCEPT ![t].status = "superseded"]
  /\ LogNew(news, "ticket_split", t)
  /\ UNCHANGED <<world, receipts, commands>>

Superseded(sources) ==
  [t \in Ids |-> IF t \in sources THEN [tickets[t] EXCEPT !.status = "superseded"]
                                  ELSE tickets[t]]

\* The packet merged from sources: it has a root_ticket_id if they share one root.
Merged(sources, changes) ==
  LET roots == UNION {Roots(t) : t \in sources}
      root == IF Cardinality(roots) = 1 THEN CHOOSE t \in roots : TRUE ELSE NoTicket
  IN  NewPacket(changes, "merge", sources, root, roots)

\* A faulty merge, for the checks to reject: it takes only one source's changes.
MergeOne(sources, n) ==
  /\ Cardinality(sources) >= 2
  /\ \A t \in sources : Open(t)
  /\ n \in Unused
  /\ \E s \in sources :
       tickets' = [Superseded(sources) EXCEPT
                    ![n] = Merged(sources, tickets[s].changes)]
  /\ LogNew({n}, "ticket_merged", n)
  /\ UNCHANGED <<world, receipts, commands>>

\* _merge_ticket_packets
Merge(sources, n) ==
  /\ Cardinality(sources) >= 2
  /\ \A t \in sources : Open(t)
  /\ n \in Unused
  /\ tickets' = [Superseded(sources) EXCEPT
                   ![n] = Merged(sources, UNION {tickets[t].changes : t \in sources})]
  /\ LogNew({n}, "ticket_merged", n)
  /\ UNCHANGED <<world, receipts, commands>>

\* A faulty review, for the checks to reject: a status that nothing else knows.
ReviewMisnamed(t) ==
  /\ Packet(t) /\ Status(t) = "proposed"
  /\ tickets' = WithStatus(t, "reviewed")
  /\ Log("ticket_reviewed", t)
  /\ UNCHANGED <<world, receipts, commands>>

\* review_ticket
Review(t) ==
  /\ Packet(t) /\ Status(t) = "proposed"
  /\ tickets' = WithStatus(t, "approved")
  /\ Log("ticket_reviewed", t)
  /\ UNCHANGED <<world, receipts, commands>>

\* A faulty application, for the checks to reject: it forgets its receipt.
ApplyWithoutReceipt(t, k, compat) ==
  /\ receipts[k] = NoTicket
  /\ Open(t)
  /\ Status(t) = "proposed" => compat
  /\ \A j \in Keys : receipts[j] # t
  /\ world' = [c \in Changes |-> IF c \in tickets[t].changes THEN world[c] + 1
                                                             ELSE world[c]]
  /\ tickets' = WithStatus(t, "applied")
  /\ Log("ticket_applied", t)
  /\ UNCHANGED <<receipts, commands>>

\* apply_ticket: refuses, or does nothing, when the key has a receipt or the
\* ticket is applied.  It is one transaction, so that a change which the world
\* refuses takes all the others back with it; and a ticket has one receipt.
Apply(t, k, compat) ==
  /\ receipts[k] = NoTicket
  /\ Open(t)
  /\ Status(t) = "proposed" => compat
  /\ \A j \in Keys : receipts[j] # t
  /\ world' = [c \in Changes |-> IF c \in tickets[t].changes THEN world[c] + 1
                                                             ELSE world[c]]
  /\ tickets' = WithStatus(t, "applied")
  /\ receipts' = [receipts EXCEPT ![k] = t]
  /\ Log("ticket_applied", t)
  /\ UNCHANGED commands

------------------------------------------------------------------------------
(* ReviewInboxService._decide_ticket *)

Return(p) ==
  /\ pc' = [pc EXCEPT ![p] = "idle"]
  /\ target' = [target EXCEPT ![p] = NoTicket]
  /\ seen' = [seen EXCEPT ![p] = 0]
  /\ UNCHANGED reviews

Begin(p, t, step) ==
  /\ pc[p] = "idle"
  /\ reviews < MaxReviews
  /\ reviews' = reviews + 1
  /\ pc' = [pc EXCEPT ![p] = step]
  /\ target' = [target EXCEPT ![p] = t]
  /\ UNCHANGED <<canon, history, seen>>

\* reject: get_ticket, and the refusal of an applied ticket.
Reject(p, t) ==
  /\ Used(t)
  /\ Status(t) # "applied"
  /\ Begin(p, t, "update")

\* hold and revise: a note in the log is all they leave.
Hold(p, t) ==
  /\ Used(t)
  /\ Begin(p, t, "hold")

\* update_ticket_status, whatever the ticket's status has become.
RejectUpdate(p) ==
  /\ pc[p] = "update"
  /\ tickets' = WithStatus(target[p], "rejected")
  /\ pc' = [pc EXCEPT ![p] = "reject"]
  /\ UNCHANGED <<world, receipts, history, target, seen, reviews>>

\* append_commit: MAX(sequence), read outside any transaction.
ReadSequence(p) ==
  /\ pc[p] \in {"reject", "hold"}
  /\ seen' = [seen EXCEPT ![p] = sequence]
  /\ pc' = [pc EXCEPT ![p] = IF @ = "reject" THEN "log_reject" ELSE "log_hold"]
  /\ UNCHANGED <<canon, history, target, reviews>>

\* append_commit: the INSERT, under the unique index on the sequence.
AppendCommit(p) ==
  /\ pc[p] \in {"log_reject", "log_hold"}
  /\ seen[p] = sequence
  /\ Log(IF pc[p] = "log_reject" THEN "ticket_rejected" ELSE "ticket_hold_requested",
         target[p])
  /\ Return(p)
  /\ UNCHANGED canon

\* append_commit: IntegrityError, another entry took the number.
AppendFails(p) ==
  /\ pc[p] \in {"log_reject", "log_hold"}
  /\ seen[p] # sequence
  /\ Return(p)
  /\ UNCHANGED <<canon, history>>

\* The process dies between two transactions.
Crash(p) ==
  /\ pc[p] # "idle"
  /\ Return(p)
  /\ UNCHANGED <<canon, history>>

------------------------------------------------------------------------------
Init ==
  /\ tickets = [t \in Ids |-> NoTicket]
  /\ world = [c \in Changes |-> 0]
  /\ receipts = [k \in Keys |-> NoTicket]
  /\ log = [t \in Ids |-> {}]
  /\ sequence = 0
  /\ pc = [p \in Procs |-> "idle"]
  /\ target = [p \in Procs |-> NoTicket]
  /\ seen = [p \in Procs |-> 0]
  /\ reviews = 0

Draft ==
  \/ \E n \in Ids, cs \in SUBSET Changes : CreatePacket(n, cs)
  \/ \E n \in Ids : CreateCandidate(n)
  \/ \E t, n \in Ids, cs \in SUBSET Changes : Materialize(t, n, cs)

Reshape ==
  \/ \E t, n \in Ids, cs \in SUBSET Changes : Amend(t, n, cs)
  \/ \E t \in Ids : Used(t) /\
       \E news \in SUBSET Unused, group \in [tickets[t].changes -> Unused] :
         Split(t, news, group)
  \/ \E sources \in SUBSET Ids, n \in Ids : Merge(sources, n)

Decide ==
  \/ \E t \in Ids : Review(t)
  \/ \E t \in Ids, k \in Keys, compat \in BOOLEAN : Apply(t, k, compat)

Inbox(p) ==
  \/ \E t \in Ids : Reject(p, t) \/ Hold(p, t)
  \/ RejectUpdate(p) \/ ReadSequence(p) \/ AppendCommit(p) \/ AppendFails(p)
  \/ Crash(p)

Next == Draft \/ Reshape \/ Decide \/ \E p \in Procs : Inbox(p)

Spec == Init /\ [][Next]_vars

------------------------------------------------------------------------------
(* Correctness *)

Actions ==
  {"ticket_created", "candidate_materialized", "ticket_revised", "ticket_split",
   "ticket_merged", "ticket_reviewed", "ticket_applied", "ticket_rejected",
   "ticket_hold_requested"}

\* The shape of the state.
TypeOK ==
  /\ tickets \in [Ids -> TicketRows \cup {NoTicket}]
  /\ world \in [Changes -> Nat]
  /\ receipts \in [Keys -> Ids \cup {NoTicket}]
  /\ log \in [Ids -> SUBSET Actions]
  /\ sequence \in Nat
  /\ pc \in [Procs -> {"idle", "update", "reject", "hold", "log_reject", "log_hold"}]
  /\ target \in [Procs -> Ids \cup {NoTicket}]
  /\ seen \in [Procs -> Nat]
  /\ reviews \in 0..MaxReviews

\* However often a change is amended, split off, merged, approved and applied,
\* under whatever keys, and whoever rejects its tickets meanwhile: it reaches the
\* world at most once.
AppliedAtMostOnce == \A c \in Changes : world[c] <= 1

\* The receipts are the history of the world: a ticket with a receipt has all of
\* its changes in the world, and every change there came with a receipt.
ReceiptsExplainWorld ==
  /\ \A k \in Keys : receipts[k] # NoTicket
       => \A c \in tickets[receipts[k]].changes : world[c] = 1
  /\ \A c \in Changes : world[c] > 0
       => \E k \in Keys : receipts[k] # NoTicket /\ c \in tickets[receipts[k]].changes

\* "Concrete tickets are preview-first": what is applied as approved was reviewed
\* under that very ticket id, before; no amended, split or merged packet inherits
\* an approval.
ReviewedBeforeApplied ==
  [][\A t \in Ids : Status(t) = "approved" /\ tickets'[t].status = "applied"
       => "ticket_reviewed" \in log[t]]_vars

InReview == UNION {tickets[t].changes : t \in {u \in Ids : Open(u)}}

\* A change leaves review because it is applied, because a ticket that holds it
\* is rejected, or because an author amends it away; split and merge "retain the
\* original tickets and changes".
NoChangeIsLost ==
  [][\A c \in InReview \ InReview' :
       \/ world'[c] > 0
       \/ \E t \in Ids : Open(t) /\ c \in tickets[t].changes
                          /\ tickets'[t].status = "rejected"
       \/ \E n \in Unused : tickets'[n] # NoTicket /\ tickets'[n].operation = "amend"]_vars

\* A superseded ticket names its successors' origin: some ticket has it as parent.
SupersededHasHeir ==
  \A t \in Ids : Status(t) = "superseded"
    => \E n \in Ids : Used(n) /\ t \in tickets[n].parents

\* "Applied ticket cannot be rejected; create a correction ticket": an applied
\* ticket stays applied.  The inbox checks this one transaction too early.
AppliedStaysApplied ==
  [][\A t \in Ids : Status(t) = "applied" => tickets'[t].status = "applied"]_vars

\* The packets in review, each the set of its changes.
PacketsInReview == {tickets[t].changes : t \in {u \in Ids : Open(u)}}

\* Whatever is amended, split, merged, rejected and applied at once, a change lives
\* once: drafted into a packet, in one packet of those in review at a time, and from
\* there with the rest of it into the world, once, or out of review for ever.
LedgerOf == INSTANCE ChangeLedger WITH
  fresh <- Fresh, review <- PacketsInReview, canon <- {c \in Changes : world[c] = 1}

ChangesLiveOnce == LedgerOf!Spec
==============================================================================
