------------------------------- MODULE WorldForks -------------------------------
(****************************************************************************)
(* A fork: a selection of one world is exported, table by table, while that  *)
(* world's tickets are applied, and imported by tickets into another world,  *)
(* which is the one of CanonRecords.                                        *)
(*                                                                          *)
(* Rows are those of CanonRecords: knowledge is about facts.  A dimension is *)
(* what its attributes say of it.                                           *)
(****************************************************************************)
EXTENDS CanonRecords

CONSTANTS
  SourceWorld,          \* the id of the world that is exported
  SourceRows,           \* its rows at first
  SourceTickets,        \* bound: what is applied to it meanwhile, as sets of new rows
  Selections            \* bound: [entities : SUBSET ids, timeline : BOOLEAN]

VARIABLES
  source,               \* the rows of the exported world
  unapplied,            \* tickets that are not applied to it yet
  selection,            \* what is asked for
  tables,               \* tables still to be read
  export                \* the rows that were read, and in the end those selected

forkVars == <<source, unapplied, selection, tables, export>>

\* A fork begins with the whole set of tables, in the order of export_data.
ReadOrder ==
  <<"entities", "world_edges", "entity_attribute_spans", "knowledge_attributions", "facts",
    "timeline_points", "actor_profiles", "actor_memory_packets">>

InTable(d, table) == {x \in DOMAIN d : d[x].table = table}
Only(d, S) == [x \in S |-> d[x]]
Grown(d, more) == [x \in DOMAIN d \cup DOMAIN more |-> IF x \in DOMAIN d THEN d[x] ELSE more[x]]

\* The world that is exported is a world: an id is one record for ever, intervals are
\* none that end before they begin, a dimension has one type, deep records are about
\* entities and knowledge is about facts.
SourceRecords ==
  [table : {TableOf[t] : t \in DOMAIN TableOf}, subject : Nat, object : Nat, learned : Nat,
   status : FactStatuses \cup LifecycleStatuses \cup {"unset"}, from : Nat, until : Nat,
   dimension : STRING, valueType : STRING, updated : Nat]
IsSource(ever) ==
  /\ IsFiniteSet(DOMAIN ever) /\ DOMAIN ever \subseteq Nat \ {0, SourceWorld, ThisWorld}
  /\ \A x \in DOMAIN ever : LET row == ever[x] IN
       /\ row \in SourceRecords
       /\ row.table # "actor_memory_packets" => Ordered(row.from, row.until)
       /\ row.table \in {"entities", "timeline_points"} => row.subject = 0
       /\ row.table \in DeepTables => row.subject # SourceWorld
       /\ row.table # "knowledge_attributions" => row.learned = 0
       /\ row.table = "knowledge_attributions" /\ row.object \in DOMAIN ever =>
            ever[row.object].table = "facts"
       /\ \A y \in InTable(ever, "entity_attribute_spans") :
            row.table = "entity_attribute_spans" /\ row.dimension = ever[y].dimension =>
              row.valueType = ever[y].valueType

Everything ==
  LET worlds == {SourceRows} \cup SourceTickets
  IN  [x \in UNION {DOMAIN d : d \in worlds} |-> (CHOOSE d \in worlds : x \in DOMAIN d)[x]]

ASSUME SourceAssumption ==
  /\ IsSource(Everything)
  /\ \A d \in {SourceRows} \cup SourceTickets : d = Only(Everything, DOMAIN d)
  /\ SourceWorld \in Nat \ {0} /\ ThisWorld \in Nat \ {0}

------------------------------------------------------------------------------
(* Selection *)

\* What points from one entity to another: facts, edges and attributes.
Pointing == {"facts", "world_edges", "entity_attribute_spans"}
PointedFrom(d, S) ==
  {d[x].object : x \in {y \in DOMAIN d : d[y].table \in Pointing /\ d[y].subject \in S}}
    \cap InTable(d, "entities")

\* A faulty selection, for the checks to reject: dependencies of dependencies are not.
Neighbours(d, S) == S \cup PointedFrom(d, S)

\* The loop of selective_export: whatever the selected entities point to, too.
Dependencies(d, S) ==
  LET rounds == Cardinality(InTable(d, "entities"))
      reach[n \in 0..rounds] ==
        IF n = 0 THEN S ELSE reach[n - 1] \cup PointedFrom(d, reach[n - 1])
  IN  reach[rounds]

\* What of the other tables goes with the selected entities.
Accompanies(d, x, S) ==
  LET row == d[x] IN
  \/ row.table = "entities" /\ x \in S
  \/ /\ row.table \in {"facts", "world_edges"}
     /\ row.subject \in S \cup {SourceWorld} /\ row.object \in S \cup {0}
  \/ row.table = "entity_attribute_spans" /\ row.subject \in S /\ row.object \in S \cup {0}
  \/ row.table \in {"actor_profiles", "actor_memory_packets"} /\ row.subject \in S
  \/ row.table = "timeline_points" /\ selection.timeline

\* A faulty selection, for the checks to reject: knowledge from whomever goes along.
SelectedFromAnyone(d) ==
  LET S == Dependencies(d, selection.entities)
      others == {x \in DOMAIN d : Accompanies(d, x, S)}
      known == {x \in InTable(d, "knowledge_attributions") :
                  d[x].subject \in S /\ d[x].object \in others}
  IN  Only(d, others \cup known)

\* Knowledge goes with its actor, if what it is about is selected, and whom it was
\* learned from.
Selected(d) ==
  LET S == Dependencies(d, selection.entities)
      others == {x \in DOMAIN d : Accompanies(d, x, S)}
      known == {x \in InTable(d, "knowledge_attributions") :
                  /\ d[x].subject \in S /\ d[x].object \in others
                  /\ d[x].learned \in S \cup {0}}
  IN  Only(d, others \cup known)

------------------------------------------------------------------------------
(* Import *)

AddTo(table) ==
  CHOOSE t \in DOMAIN TableOf : TableOf[t] = table /\ Adds([Change EXCEPT !.type = t])

\* One change for each record.  Facts and edges name entities of the export by their
\* change_ref, and the exported world as their subject becomes this one; deep
\* records keep the ids that they name.
ImportedChange(d, x) ==
  LET row == d[x]
      entities == InTable(d, "entities")
      named == row.table \in {"facts", "world_edges"}
      refers(id) == named /\ id \in entities
  IN  [Change EXCEPT
         !.type = AddTo(row.table), !.portable = x, !.ref = x,
         !.subjectRef = IF refers(row.subject) THEN row.subject ELSE 0,
         !.subject = IF refers(row.subject) THEN 0
                     ELSE IF named /\ row.subject = SourceWorld THEN ThisWorld ELSE row.subject,
         !.objectRef = IF refers(row.object) THEN row.object ELSE 0,
         !.object = IF refers(row.object) THEN 0 ELSE row.object, !.learned = row.learned,
         !.dimension = row.dimension, !.valueType = row.valueType, !.status = row.status,
         !.from = row.from, !.until = row.until]

\* portable_import_preview: entities, facts, edges, timeline, profiles, attributes,
\* memories and knowledge.
ImportOrder ==
  [entities |-> 1, facts |-> 2, world_edges |-> 3, timeline_points |-> 4, actor_profiles |-> 5,
   entity_attribute_spans |-> 6, actor_memory_packets |-> 7, knowledge_attributions |-> 8]
Before(d, y, x) ==
  LET order(z) == ImportOrder[d[z].table]
  IN  order(y) < order(x) \/ (order(y) = order(x) /\ y < x)
Imported(d) ==
  LET place == [x \in DOMAIN d |-> Cardinality({y \in DOMAIN d : Before(d, y, x)}) + 1]
  IN  [n \in 1..Cardinality(DOMAIN d) |-> ImportedChange(d, CHOOSE x \in DOMAIN d : place[x] = n)]

------------------------------------------------------------------------------
(* Actions *)

Reading == tables # <<>>

\* A ticket of the exported world is applied; it adds what is new.
ApplyToSource(rows) ==
  /\ rows \in unapplied /\ Reading
  /\ unapplied' = unapplied \ {rows}
  /\ source' = Grown(source, rows)
  /\ UNCHANGED <<canonVars, selection, tables, export>>

\* The next query of export_data.  Profiles and memories are listed entity by entity.
ReadTable ==
  /\ Len(tables) > 1
  /\ LET table == Head(tables)
         rows == {x \in InTable(source, table) :
                    table \in {"actor_profiles", "actor_memory_packets"}
                      => source[x].subject \in InTable(export, "entities")}
     IN  export' = Grown(export, Only(source, rows))
  /\ tables' = Tail(tables)
  /\ UNCHANGED <<canonVars, source, unapplied, selection>>

\* The last query, and selective_export; an unknown entity is an error.
SelectExport ==
  /\ Len(tables) = 1
  /\ selection.entities \subseteq InTable(export, "entities")
  /\ LET rows == {x \in InTable(source, Head(tables)) :
                    source[x].subject \in InTable(export, "entities")}
         all == Grown(export, Only(source, rows))
     IN  export' = IF selection.entities = {} THEN all ELSE Selected(all)
  /\ tables' = <<>>
  /\ UNCHANGED <<canonVars, source, unapplied, selection>>

\* world import-preview --write-ticket, in the other world.
ImportFork(t) ==
  /\ ~Reading
  /\ CreateTicket(t, Imported(export))
  /\ UNCHANGED forkVars

ForkInit ==
  /\ source = SourceRows
  /\ unapplied = SourceTickets
  /\ selection \in Selections
  /\ tables = ReadOrder
  /\ export = Only(SourceRows, {})

ForkNext ==
  \/ \E rows \in SourceTickets : ApplyToSource(rows)
  \/ ReadTable \/ SelectExport
  \/ \E t \in AuthoredTickets :
       \/ ImportFork(t)
       \/ (ReviewAuthored(t) \/ ApplyAuthored(t)) /\ UNCHANGED forkVars

ForkSpec == CanonInit /\ ForkInit /\ [][ForkNext]_<<canonVars, forkVars>>

------------------------------------------------------------------------------
(* Properties *)

ExportedEntities == InTable(export, "entities")
Exported(x) == x \in DOMAIN export

\* Whatever was applied between the queries: what the exported world held of a selected
\* entity from the start, and which is about it alone or about another entity, is
\* exported; knowledge is, if what it is about is and whom it was learned from, if anyone.
\* Whom it was learned from is not pulled in by the selection, which drops it then
\* (selective_export).
ForksLoseNothing ==
  ~Reading => \A x \in DOMAIN SourceRows :
    LET row == SourceRows[x] IN
    /\ x \in selection.entities => Exported(x)
    /\ /\ row.subject \in ExportedEntities
       /\ IF row.table = "knowledge_attributions"
          THEN Exported(row.object) /\ row.learned \in ExportedEntities \cup {0}
          ELSE row.object \in InTable(SourceRows, "entities") \cup {0}
       => Exported(x)

\* A world without those ids takes the export of a selection as a whole, also a torn
\* one: the ticket is valid, its application does not fail, and every record is what it
\* was in the exported world, about the same records (portable_import_preview and the
\* checks of an import).
ForksArrive ==
  ~Reading /\ selection.entities # {} =>
    LET empty == [rows |-> Only(export, {}), dimensions |-> [k \in {} |-> "none"]]
        changes == Imported(export)
        done == Application(empty, Sorted(changes))
        here(id) == IF id = SourceWorld THEN ThisWorld ELSE id
    IN  /\ Valid(empty, changes) /\ done.ok
        /\ done.db.rows = [x \in DOMAIN export |->
                             [export[x] EXCEPT !.subject = here(@), !.updated = 0]]

\* An import arrives whole or not at all, and at most once however many tickets are made
\* of it (the ids that it brings).
ImportsAreWhole ==
  ~Reading =>
    /\ \A x \in DOMAIN export : x \in DOMAIN db.rows <=> DOMAIN export \subseteq DOMAIN db.rows
    /\ Cardinality({t \in AuthoredTickets : InState(t, "applied")}) <= 1

ForksAreFaithful == ForksLoseNothing /\ ForksArrive /\ ImportsAreWhole
================================================================================
