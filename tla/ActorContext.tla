----------------------------- MODULE ActorContext ------------------------------
(****************************************************************************)
(* ContextAssembler.assemble: what an actor is told of the world before it   *)
(* speaks.  Seven queries read the world's tables one after the other, each  *)
(* in a connection of its own, while the author's tickets are applied; rules *)
(* of status, time, place and knowledge leave records out, and a budget      *)
(* takes the rest in order of priority.                                     *)
(*                                                                          *)
(* What a record says is fixed; a ticket adds it or changes its status.      *)
(****************************************************************************)
EXTENDS Integers, Sequences, FiniteSets

CONSTANTS
  Rec,                  \* the records there may be: a function from ids to Rows
  ContextTickets,       \* bound: what the author applies, [show, hide : SUBSET Records]
  Requests,             \* bound: what the context is asked for
  NoPacket

Tables ==
  {"facts", "actor_profiles", "temporal_attributes", "relationships", "knowledge", "memories"}

\* Records are finitely many, their ids are in order, and nothing has a negative weight.
ASSUME RecAssumption ==
  /\ DOMAIN Rec \subseteq Int /\ IsFiniteSet(DOMAIN Rec)
  /\ \A r \in DOMAIN Rec :
       /\ Rec[r].table \in Tables
       /\ Rec[r].table = "facts" => Rec[r].role \in {"actor", "world", "other"}
       /\ Rec[r].relevance \in Int /\ Rec[r].chars \in Nat /\ Rec[r].tokens \in Nat

ASSUME RequestsAssumption ==
  \A req \in Requests : req.chars \in Nat /\ req.tokens \subseteq Nat

VARIABLES
  status,               \* status of each record: absent, visible or other
  pending,              \* tickets that are not applied yet
  request,              \* the request
  reading,              \* queries still to be run
  rows,                 \* the rows that were read and were visible then
  packet,               \* what the actor is told, and what the budget leaves out
  touched,              \* history: records that a ticket changed meanwhile
  onceAllowed           \* history: records allowed at some moment of the assembly

contextVars == <<status, pending, request, reading, rows, packet, touched, onceAllowed>>

\* A record: of the actor, of the world or of others; hidden or not; valid from one
\* time until another or, for a fact, at one time and place (0: NULL); its weight.
\* A knowledge attribution names a target by type and id, and a state.
Row == [first |-> "visible", table |-> "facts", role |-> "actor", hidden |-> FALSE,
        from |-> 0, until |-> 0, time |-> 0, place |-> 0,
        relevance |-> 0, chars |-> 1, tokens |-> 1,
        names |-> <<"none", 0>>, state |-> "none"]

\* VISIBLE_STATUSES are active, approved, canon and accepted.
Statuses == {"absent", "visible", "other"}

Records == DOMAIN Rec
KnownStates == {"known", "discovered", "witnessed"}

Of(table) == {r \in Records : Rec[r].table = table}

\* The queries, in the order of assemble; edges are queried by either end.
Queries ==
  <<"knowledge", "facts", "actor_profiles", "temporal_attributes",
    "subject_edges", "object_edges", "memories">>

------------------------------------------------------------------------------
(* Rules *)

\* The interval of a record, at a time or at none.
InForce(r, at) == at = 0 \/ (Rec[r].from <= at /\ (Rec[r].until = 0 \/ Rec[r].until > at))

\* Facts are filtered by time and place, profiles and memories by their interval; the
\* queries of the other tables do it themselves.
Timely(r) ==
  CASE Rec[r].table = "facts" ->
         /\ Rec[r].time = 0 \/ request.at = 0 \/ Rec[r].time = request.at
         /\ Rec[r].place = 0 \/ request.place = 0 \/ Rec[r].place = request.place
    [] Rec[r].table \in {"actor_profiles", "memories"} -> InForce(r, request.at)
    [] OTHER -> TRUE

\* A faulty alias, for the checks to reject: an edge has one name only.
TargetAsNamed(type, id) == {<<type, id>>}

\* _knowledge_target_aliases
Targets(type, id) ==
  IF type \in {"edge", "world_edge"} THEN {<<"edge", id>>, <<"world_edge", id>>}
  ELSE {<<type, id>>}

TypeOf ==
  [facts |-> "fact", actor_profiles |-> "actor_profile", memories |-> "actor_memory_packet",
   temporal_attributes |-> "entity_attribute_span", relationships |-> "world_edge"]
Target(r) == <<TypeOf[Rec[r].table], r>>

Named(attributions) == UNION {Targets(Rec[k].names[1], Rec[k].names[2]) : k \in attributions}

\* An actor sees its own hidden profile and memories, but no hidden fact, attribute or
\* relationship that nobody told it of.
Concealed(r) ==
  /\ Rec[r].hidden
  /\ Rec[r].table \in {"actor_profiles", "memories"} => request.viewpoint # "actor"

\* The candidates among the rows that were read.  What the viewpoint may not know goes
\* before what it knows.
Candidates(read) ==
  LET timely == {r \in read : Timely(r)}
      usable == {k \in timely : Rec[k].table = "knowledge"}
      forbidden == Named({k \in usable : Rec[k].state = "forbidden"})
      known == Named({k \in usable : Rec[k].state \in KnownStates}) \ forbidden
  IN usable \cup {r \in timely \ usable : /\ Target(r) \notin forbidden
                                          /\ Concealed(r) => Target(r) \in known}

------------------------------------------------------------------------------
(* Budget *)

\* _fact_priority, and the priorities of the other sources
FactPriority == [actor |-> 10, world |-> 40, other |-> 50]
TablePriority ==
  [actor_profiles |-> 15, temporal_attributes |-> 20, relationships |-> 25,
   knowledge |-> 30, memories |-> 35]
Priority(r) ==
  IF Rec[r].table = "facts" THEN FactPriority[Rec[r].role] ELSE TablePriority[Rec[r].table]

Before(a, b) ==
  \/ Priority(a) < Priority(b)
  \/ Priority(a) = Priority(b) /\ Rec[a].relevance > Rec[b].relevance
  \/ Priority(a) = Priority(b) /\ Rec[a].relevance = Rec[b].relevance /\ a < b

InOrder(S) ==
  [n \in 1..Cardinality(S) |-> CHOOSE r \in S : Cardinality({s \in S : Before(s, r)}) = n - 1]

NothingTold == [told |-> <<>>, left |-> {}, chars |-> 0, tokens |-> 0]

\* There is a budget of characters, and perhaps one of tokens.
Exceeds(p, r) ==
  \/ p.chars + r.chars > request.chars
  \/ \E budget \in request.tokens : p.tokens + r.tokens > budget

\* What does not fit is left out, and smaller things behind it may fit.
Take(p, r) ==
  IF Exceeds(p, Rec[r]) THEN [p EXCEPT !.left = @ \cup {r}]
  ELSE [p EXCEPT !.told = Append(@, r), !.chars = @ + Rec[r].chars, !.tokens = @ + Rec[r].tokens]

\* The loop of _apply_budget.
ApplyBudget(candidates) ==
  LET list == InOrder(candidates)
      after[n \in 0..Len(list)] == IF n = 0 THEN NothingTold ELSE Take(after[n - 1], list[n])
  IN  after[Len(list)]

------------------------------------------------------------------------------
(* Actions *)

\* The rows each query returns; the status is looked at later.
KnowledgeRows ==
  {r \in Of("knowledge") : Rec[r].role = request.viewpoint /\ InForce(r, request.at)}
FactRows == Of("facts")
ProfileRows == {r \in Of("actor_profiles") : Rec[r].role = "actor"}
SpanRows ==
  {r \in Of("temporal_attributes") : Rec[r].role = "actor" /\ InForce(r, request.at)}
EdgeRows(end) ==
  {r \in Of("relationships") : Rec[r].role \in {end, "both"} /\ InForce(r, request.at)}
\* A memory is of a time.
MemoryRows ==
  {r \in Of("memories") : Rec[r].role = "actor" /\ (request.at = 0 \/ Rec[r].time <= request.at)}

Result(query) ==
  CASE query = "knowledge"           -> KnowledgeRows
    [] query = "facts"               -> FactRows
    [] query = "actor_profiles"      -> ProfileRows
    [] query = "temporal_attributes" -> SpanRows
    [] query = "subject_edges"       -> EdgeRows("subject")
    [] query = "object_edges"        -> EdgeRows("object")
    [] query = "memories"            -> MemoryRows

\* What a reader of one state of the world would be allowed to tell.
Asked == UNION {Result(Queries[i]) : i \in DOMAIN Queries}
InOneGo(st) == Candidates({r \in Asked : st[r] = "visible"})

Read ==
  /\ Len(reading) > 0
  /\ LET result == Result(Head(reading))
     IN rows' = (rows \ result) \cup {r \in result : status[r] = "visible"}
  /\ reading' = Tail(reading)
  /\ onceAllowed' = onceAllowed \cup InOneGo(status)
  /\ UNCHANGED <<status, pending, request, packet, touched>>

Assemble ==
  /\ reading = <<>> /\ packet = NoPacket
  /\ packet' = ApplyBudget(Candidates(rows))
  /\ UNCHANGED <<status, pending, request, reading, rows, touched, onceAllowed>>

\* A ticket is applied while the context is assembled; those applied before are in the
\* first status of the records.
ApplyTicket(t) ==
  /\ t \in pending
  /\ reading # Queries /\ packet = NoPacket
  /\ pending' = pending \ {t}
  /\ LET new == [r \in Records |-> IF r \in t.show THEN "visible"
                                   ELSE IF r \in t.hide /\ status[r] = "visible" THEN "other"
                                   ELSE status[r]]
     IN /\ status' = new
        /\ touched' = touched \cup {r \in Records : new[r] # status[r]}
        /\ onceAllowed' = onceAllowed \cup InOneGo(status) \cup InOneGo(new)
  /\ UNCHANGED <<request, reading, rows, packet>>

ContextInit ==
  /\ status = [r \in Records |-> Rec[r].first]
  /\ pending = ContextTickets
  /\ request \in Requests
  /\ reading = Queries
  /\ rows = {}
  /\ packet = NoPacket
  /\ touched = {} /\ onceAllowed = {}

ContextNext == Read \/ Assemble \/ \E t \in ContextTickets : ApplyTicket(t)

ContextSpec == ContextInit /\ [][ContextNext]_contextVars

------------------------------------------------------------------------------
(* Properties *)

TypeNames(r) == IF Rec[r].table = "relationships" THEN {"edge", "world_edge"} ELSE {TypeOf[Rec[r].table]}

\* The attributions of the viewpoint about a record.
About(r) ==
  IF Rec[r].table = "knowledge" THEN {}
  ELSE {k \in Of("knowledge") : /\ Rec[k].role = request.viewpoint
                                /\ Rec[k].names[2] = r /\ Rec[k].names[1] \in TypeNames(r)}

\* Whether one may tell of a record: it is the actor's or the viewpoint's, it is in force,
\* nothing forbids it at that time, and what is hidden is known at that time.
MayTell(r) ==
  LET says == {Rec[k].state : k \in {j \in About(r) : status[j] = "visible" /\ InForce(j, request.at)}}
  IN /\ \E i \in DOMAIN Queries : r \in Result(Queries[i])
     /\ status[r] = "visible" /\ Timely(r)
     /\ "forbidden" \notin says
     /\ Rec[r].table # "knowledge" /\ Concealed(r) => says \cap KnownStates # {}

\* The weight of a set of records: how many characters and tokens they have, one by one.
Units(S, n) == UNION {{r} \X (1..n[r]) : r \in S}
Characters == [r \in Records |-> Rec[r].chars]
Tokens == [r \in Records |-> Rec[r].tokens]
Weight(S) == [chars |-> Cardinality(Units(S, Characters)), tokens |-> Cardinality(Units(S, Tokens))]

\* Whatever is applied meanwhile: what nobody touched, neither itself nor what is
\* known of it, is told or left to the budget exactly if one may tell it; nothing is told
\* twice; what is told fits the budget, and what was left out does not fit behind the
\* more important things that are told (assemble over tables that change under it).
ToldIsRight ==
  packet # NoPacket =>
    LET told == {packet.told[i] : i \in DOMAIN packet.told}
    IN /\ \A r \in Records : ({r} \cup About(r)) \cap touched = {} =>
            (r \in told \cup packet.left <=> MayTell(r))
       /\ Cardinality(told) = Len(packet.told) /\ told \cap packet.left = {}
       /\ ~Exceeds(Weight(told), [Row EXCEPT !.chars = 0, !.tokens = 0])
       /\ \A r \in packet.left : Exceeds(Weight({s \in told : Before(s, r)}), Rec[r])

\* What is told could be told at some moment of the assembly: not forbidden then, visible
\* then, and known then if it is hidden (assemble, whose queries share no snapshot).
ToldWasOnceAllowed ==
  packet # NoPacket => \A i \in DOMAIN packet.told : packet.told[i] \in onceAllowed
================================================================================
