---------------------------- MODULE MCTicketRecords ----------------------------
(****************************************************************************)
(* The two views of tickets, checked by one run: Tickets, where a change is  *)
(* an identity and the life of the packets that carry it is what matters,    *)
(* and CanonRecords, where a change is a record and the rows that it writes  *)
(* are; and WorldForks, which brings the records of another world.  "desk"   *)
(* says which is at work; the first shares only ticket ids with the others.  *)
(* The constants are in the .cfg file.                                       *)
(****************************************************************************)
EXTENDS MCTickets, WorldForks

VARIABLE desk

\* What authors draft: additions, revisions, and one import that is out of order.
Span(id, subject, type) ==
  [Change EXCEPT !.type = "add_entity_attribute_span", !.subject = subject,
                 !.dimension = "height", !.valueType = type, !.portable = id,
                 !.from = 1]
Knows(id, subject, object, learned) ==
  [Change EXCEPT !.type = "add_knowledge_attribution", !.portable = id,
                 !.subject = subject, !.object = object, !.learned = learned, !.until = 2]
MCDrafts ==
  LET entity == [Change EXCEPT !.ref = 1]
      fact == [Change EXCEPT !.type = "add_fact", !.subjectRef = 1]
      edge == [Change EXCEPT !.type = "add_world_edge", !.subject = 1, !.objectRef = 1]
      end(u) == [Change EXCEPT !.type = "update_entity_attribute_span", !.target = 3,
                               !.status = "unset", !.until = u]
      begin == [end(Unset) EXCEPT !.from = 3]
      retire == [end(Unset) EXCEPT !.status = "deprecated"]
      fork == [Change EXCEPT !.portable = 11, !.ref = 9]
  IN { <<entity, fact>>, <<fact, entity>>,
       <<Span(0, 1, "number")>>, <<Span(0, 1, "number"), Span(0, 1, "text")>>,
       <<end(2)>>, <<begin>>, <<retire, Span(0, 1, "number")>>,
       <<[Change EXCEPT !.type = "update_fact_status", !.target = 2, !.status = "deprecated"], edge>>,
       <<Knows(13, 11, 12, 11), Span(14, 11, "text"),
         [Change EXCEPT !.type = "add_fact", !.portable = 12, !.subjectRef = 9], fork>>,
       <<Knows(0, 1, 2, 1)>>, <<Knows(0, 1, 2, 2)>> }

\* A world to be forked: entities 1..3, which point to each other through an edge (22), a
\* fact (12) and an attribute (42), facts about the world, nothing, a record that is no
\* entity and a literal, an edge to the world, and what goes with an entity: knowledge
\* of its own (71), from an entity that it points to (72), and from one that it does not.
MCSourceWorld == 98
Held(table, subject, object) ==
  [NewRow(Change, subject, object) EXCEPT !.table = table]
Learned(subject, object, from) ==
  [Held("knowledge_attributions", subject, object) EXCEPT !.learned = from]
Measured(subject, object) ==
  [Held("entity_attribute_spans", subject, object)
     EXCEPT !.dimension = "height", !.valueType = "number"]
MCSourceRows ==
  (1 :> Held("entities", 0, 0)) @@ (2 :> Held("entities", 0, 0)) @@ (3 :> Held("entities", 0, 0))
  @@ (11 :> Held("facts", 1, 0)) @@ (12 :> Held("facts", 2, 3))
  @@ (13 :> Held("facts", MCSourceWorld, 2)) @@ (14 :> Held("facts", 3, 97))
  @@ (21 :> Held("world_edges", MCSourceWorld, 1)) @@ (22 :> Held("world_edges", 1, 2))
  @@ (23 :> Held("world_edges", 2, MCSourceWorld))
  @@ (31 :> Held("timeline_points", 0, 0))
  @@ (41 :> Measured(1, 0)) @@ (42 :> Measured(3, 2))
  @@ (51 :> Held("actor_profiles", 3, 0)) @@ (61 :> Held("actor_memory_packets", 1, 0))
  @@ (71 :> Learned(1, 12, 0)) @@ (72 :> Learned(2, 12, 3)) @@ (75 :> Learned(3, 12, 1))
MCSourceTickets ==
  {(4 :> Held("entities", 0, 0)) @@ (15 :> Held("facts", 2, 4))
     @@ (73 :> Learned(1, 15, 4)),
   (24 :> Held("world_edges", 3, 1)) @@ (43 :> Measured(2, 1)) @@ (74 :> Learned(3, 12, 0))}
Choosing(entities, timeline) == [entities |-> entities, timeline |-> timeline]
MCSelections ==
  {Choosing({}, FALSE), Choosing({1}, TRUE), Choosing({2}, FALSE), Choosing({4}, TRUE)}

NoFork ==
  /\ source = <<>> /\ unapplied = {} /\ export = <<>>
  /\ selection = Choosing({}, FALSE)
  /\ tables = <<"entities">>

\* Bound: tickets that import the fork.  The first brings everything, the second must fail.
MaxImports == 2
FewImports == Cardinality({t \in AuthoredTickets : ~InState(t, "none")}) <= MaxImports

DeskInit ==
  /\ desk \in {"tickets", "records", "forks"}
  /\ Init /\ CanonInit
  /\ IF desk = "forks" THEN ForkInit ELSE NoFork

DeskNext ==
  /\ UNCHANGED desk
  /\ \/ desk = "tickets" /\ Next /\ UNCHANGED <<canonVars, forkVars>>
     \/ desk = "records" /\ CanonNext /\ UNCHANGED <<vars, forkVars>>
     \/ desk = "forks" /\ ForkNext /\ FewImports' /\ UNCHANGED vars

DeskSpec == DeskInit /\ [][DeskNext]_<<desk, vars, canonVars, forkVars>>
================================================================================
