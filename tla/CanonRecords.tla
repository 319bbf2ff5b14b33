----------------------------- MODULE CanonRecords -----------------------------
(****************************************************************************)
(* What the changes of a ticket do to the world: the checks they pass when   *)
(* the ticket is previewed, reviewed and applied, and the rows they write.   *)
(* Tickets has the life of the ticket itself, and takes a change for an      *)
(* identity; here a change is a record, and a ticket a sequence of them.     *)
(*                                                                          *)
(* Every id is a number, 0 is "none", and no two tables share one.  A change *)
(* gives its row a fresh id or, imported from another world, the portable id *)
(* it brings.                                                               *)
(****************************************************************************)
EXTENDS Integers, Sequences, FiniteSets

CONSTANTS
  AuthoredTickets,      \* tickets
  Drafts,               \* bound: the change sets that authors draft
  FreshIds,             \* bound: ids that rows may get, 1..FreshIds
  ThisWorld,            \* the id of the world, which is not the id of a row
  Unseen

VARIABLES
  db,                   \* the rows by id, and the dimension definitions by key
  authored,             \* the tickets, with their ticket_changes
  looked                \* what the last review or preview of a ticket saw

canonVars == <<db, authored, looked>>

Null == 0
Unset == -1             \* a field that the change does not name
Elsewhere == -2         \* an id that no row has

FactStatuses == {"draft", "proposed", "approved", "canon", "deprecated", "rejected"}
AppliedStatuses == {"active", "approved", "canon", "accepted"}
LifecycleStatuses == AppliedStatuses \cup {"deprecated", "rejected"}

\* The table each change writes to.
TableOf ==
  [add_entity |-> "entities", add_fact |-> "facts", add_world_edge |-> "world_edges",
   add_timeline_point |-> "timeline_points", add_actor_profile |-> "actor_profiles",
   add_entity_attribute_span |-> "entity_attribute_spans",
   add_knowledge_attribution |-> "knowledge_attributions",
   add_actor_memory_packet |-> "actor_memory_packets",
   update_fact_status |-> "facts", update_actor_profile |-> "actor_profiles",
   update_entity_attribute_span |-> "entity_attribute_spans",
   update_knowledge_attribution |-> "knowledge_attributions",
   update_actor_memory_packet |-> "actor_memory_packets"]
DeepTables == {"actor_profiles", "entity_attribute_spans", "knowledge_attributions",
               "actor_memory_packets"}

\* PORTABLE_APPLY_ORDER; whatever is not in it comes last.
ApplyOrder ==
  [t \in DOMAIN TableOf |->
     CASE t = "add_entity" -> 1
       [] t \in {"add_fact", "add_world_edge", "add_timeline_point"} -> 2
       [] t \in {"add_actor_profile", "add_entity_attribute_span", "add_actor_memory_packet"} -> 3
       [] t = "add_knowledge_attribution" -> 4
       [] OTHER -> 5]

\* A change: subject is the row it is about (for a deep record its entity), object
\* what that is related to (an id, or 0 for a literal); subjectRef and objectRef name
\* the change_ref of another change instead; target is the row it updates, and learned
\* the entity that a piece of knowledge was learned from (source_entity_id).
Change ==
  [type |-> "add_entity", portable |-> 0, ref |-> 0, subject |-> 0, subjectRef |-> 0,
   object |-> 0, objectRef |-> 0, learned |-> 0, target |-> 0, dimension |-> "none", valueType |-> "none",
   status |-> "canon", from |-> Unset, until |-> Unset, expected |-> Unseen]

\* What a reviewer sees of a record, and changes as authors draft them.
States ==
  [status : FactStatuses \cup LifecycleStatuses \cup {"unset"}, from : Int, until : Int,
   updated : Nat]
ChangeRecords ==
  [type : DOMAIN TableOf, portable : Nat, ref : Nat, subject : Nat, subjectRef : Nat,
   object : Nat, objectRef : Nat, learned : Nat, target : Nat, dimension : STRING, valueType : STRING,
   status : FactStatuses \cup LifecycleStatuses \cup {"unset"}, from : Nat \cup {Unset},
   until : Nat \cup {Unset}, expected : States \cup {Unseen}]

ASSUME DraftsAssumption ==
  Drafts \subseteq Seq(ChangeRecords) /\ FreshIds \in Nat /\ Unseen \notin States

Adds(c) == c.type \in {"add_entity", "add_fact", "add_world_edge", "add_timeline_point",
  "add_actor_profile", "add_entity_attribute_span", "add_knowledge_attribution",
  "add_actor_memory_packet"}
Deep(c) == TableOf[c.type] \in DeepTables
AddsDeep(c) == Adds(c) /\ Deep(c)
Revises(c) == Deep(c) /\ ~Adds(c)
Portable(c) == c.portable # 0

Row(id) == db.rows[id]
Has(d, table, id) == id \in DOMAIN d.rows /\ d.rows[id].table = table
With(f, key, value) == [x \in DOMAIN f \cup {key} |-> IF x = key THEN value ELSE f[x]]

\* _lifecycle_state: what a reviewer sees of a record; updated_at is its revision.
LifecycleState(row) ==
  [status |-> row.status, from |-> row.from, until |-> row.until, updated |-> row.updated]

Ordered(from, until) == from > Null /\ until > Null => from < until
Either(new, old) == IF new = Unset THEN old ELSE new
Dated(value) == IF value = Unset THEN Null ELSE value

\* _apply_deep_lifecycle_change: the fields that the revision names.
RevisedRow(row, c) ==
  [row EXCEPT !.status = IF c.status = "unset" THEN @ ELSE c.status,
              !.from = Either(c.from, @), !.until = Either(c.until, @), !.updated = @ + 1]

\* A faulty check, for the checks to reject: only the interval that the revision names.
NamesInterval(row, c) == Ordered(c.from, c.until)

\* Something must change, and what it leaves must be an interval.
MakesSense(row, c) ==
  LET new == RevisedRow(row, c) IN
  /\ <<new.status, new.from, new.until>> # <<row.status, row.from, row.until>>
  /\ Ordered(new.from, new.until)

\* A faulty comparison, for the checks to reject: a status that changed goes unnoticed.
ExpectedDates(d, c) ==
  c.expected # Unseen =>
    <<c.expected.from, c.expected.until>> = <<d.rows[c.target].from, d.rows[c.target].until>>

\* expected_revision is the whole state, updated_at included.
AsExpected(d, c) == c.expected # Unseen => c.expected = LifecycleState(d.rows[c.target])

------------------------------------------------------------------------------
(* Checks *)

\* _validate_deep_common, and what each kind of record adds to it.
WellFormedRecord(c) ==
  /\ c.status \in AppliedStatuses \/ Portable(c)
  /\ c.type = "add_actor_memory_packet" \/ Ordered(c.from, c.until)

\* _validate_deep_lifecycle_change
WellFormedRevision(c) ==
  /\ c.target # 0
  /\ c.status # "unset" \/ c.from # Unset \/ c.until # Unset
  /\ c.status \in LifecycleStatuses \cup {"unset"}
  /\ c.type = "update_actor_memory_packet" => c.from # Null
  /\ Ordered(c.from, c.until)

\* _validate_ticket_changes, of one change; what only types a field is left out.
WellFormed(c) ==
  /\ Portable(c) => Adds(c)
  /\ c.type \in {"add_fact", "add_world_edge"} => c.subject # 0 \/ c.subjectRef # 0
  /\ c.type = "update_fact_status" => c.target # 0 /\ c.status \in FactStatuses
  /\ AddsDeep(c) => WellFormedRecord(c)
  /\ Revises(c) => WellFormedRevision(c)

Of(changes, P(_)) == {i \in DOMAIN changes : P(changes[i])}
PendingIds(changes, table) ==
  {changes[i].portable : i \in {j \in Of(changes, Portable) : TableOf[changes[j].type] = table}}
DistinctIn(I, f(_)) == \A i, j \in I : i # j => f(i) # f(j)

\* _validate_portable_changes_in_connection: an import brings its own ids and
\* dimensions, none of which may be here, and refers only to what it brings.
PortableOk(d, changes) ==
  LET I == Of(changes, Portable)
      Spans == {i \in I : changes[i].type = "add_entity_attribute_span"}
      Refs == {i \in I : changes[i].ref # 0}
      Entities == {changes[i].ref : i \in {j \in Refs : changes[j].type = "add_entity"}}
      Brings(id, ref, others) ==
        IF ref # 0 THEN ref \in Entities ELSE id \in others \cup PendingIds(changes, "entities")
  IN  /\ DistinctIn(I, LAMBDA i : <<TableOf[changes[i].type], changes[i].portable>>)
      /\ \A i \in I : ~Has(d, TableOf[changes[i].type], changes[i].portable)
      /\ DistinctIn(Refs, LAMBDA i : changes[i].ref)
      /\ \A i, j \in Spans : changes[i].dimension = changes[j].dimension
                               => changes[i].valueType = changes[j].valueType
      /\ \A i \in Spans : changes[i].dimension \notin DOMAIN d.dimensions
      /\ \A i \in I : changes[i].type \in {"add_fact", "add_world_edge"} =>
           /\ Brings(changes[i].subject, changes[i].subjectRef, {ThisWorld})
           /\ Brings(changes[i].object, changes[i].objectRef,
                     IF changes[i].type = "add_fact" THEN {0} ELSE {0, ThisWorld})

\* A faulty check, for the checks to reject: a second span of a new dimension.
DimensionKnown(d, changes, i) ==
  changes[i].dimension \in DOMAIN d.dimensions
    => d.dimensions[changes[i].dimension] = changes[i].valueType

\* One dimension, one type of value: in the world and within the ticket.
DimensionOk(d, changes, i) ==
  /\ DimensionKnown(d, changes, i)
  /\ \A j \in DOMAIN changes :
       /\ changes[j].type = "add_entity_attribute_span"
       /\ changes[j].dimension = changes[i].dimension
       => changes[j].valueType = changes[i].valueType

\* _require_world_row, or _require_pending_reference for an import.
Refers(d, changes, c, table, id) ==
  IF Portable(c) THEN id \in PendingIds(changes, table) ELSE Has(d, table, id)

\* _validate_deep_authoring_references_in_connection; knowledge here is about facts.
ReferencesOk(d, changes) ==
  /\ DistinctIn(Of(changes, Revises), LAMBDA i : <<changes[i].type, changes[i].target>>)
  /\ \A i \in Of(changes, Revises) : LET c == changes[i] IN
       /\ Has(d, TableOf[c.type], c.target)
       /\ AsExpected(d, c)
       /\ MakesSense(d.rows[c.target], c)
  /\ \A i \in Of(changes, AddsDeep) : LET c == changes[i] IN
       /\ Refers(d, changes, c, "entities", c.subject)
       /\ c.type = "add_entity_attribute_span" =>
            /\ DimensionOk(d, changes, i)
            /\ c.object # 0 => Refers(d, changes, c, "entities", c.object)
       /\ c.type = "add_knowledge_attribution" =>
            /\ Refers(d, changes, c, "facts", c.object)
            /\ c.learned # 0 => Refers(d, changes, c, "entities", c.learned)

\* The same check keeps what it saw in a revision that says nothing of it.
Captured(d, changes) ==
  [i \in DOMAIN changes |->
     IF Revises(changes[i]) /\ changes[i].expected = Unseen
       THEN [changes[i] EXCEPT !.expected = LifecycleState(d.rows[changes[i].target])]
       ELSE changes[i]]

Valid(d, changes) ==
  /\ changes # <<>> /\ \A i \in DOMAIN changes : WellFormed(changes[i])
  /\ PortableOk(d, changes) /\ ReferencesOk(d, changes)

------------------------------------------------------------------------------
(* Application *)

\* None is left only at the bound.
FreshId(d) ==
  LET free == (1..FreshIds) \ DOMAIN d.rows
  IN  IF free = {} THEN Null ELSE CHOOSE n \in free : \A m \in free : n <= m

NewRow(c, subject, object) ==
  [table |-> TableOf[c.type], subject |-> subject, object |-> object, learned |-> c.learned,
   status |-> c.status, from |-> Dated(c.from), until |-> Dated(c.until), dimension |-> c.dimension,
   valueType |-> c.valueType, updated |-> 0]

\* Step s so far: the rows, the change_refs already resolved, and whether none failed.
Resolved(s, ref, direct) ==
  IF ref = 0 THEN direct ELSE IF ref \in DOMAIN s.refs THEN s.refs[ref] ELSE Unset

\* What a change_ref stands for.  The loop makes a new id for a deep record that brings
\* none, which is not the one that its row got.
Named(s, c, id) ==
  IF c.ref = 0 THEN s.refs
  ELSE With(s.refs, c.ref, IF Deep(c) /\ ~Portable(c) THEN Elsewhere ELSE id)

\* An INSERT: of an id that is taken it fails.  Deep records name no change_ref.
AddRow(s, c) ==
  LET id == IF Portable(c) THEN c.portable ELSE FreshId(s.db)
      subject == IF Deep(c) THEN c.subject ELSE Resolved(s, c.subjectRef, c.subject)
      object == IF Deep(c) THEN c.object ELSE Resolved(s, c.objectRef, c.object)
      defines == c.type = "add_entity_attribute_span" /\ c.dimension \notin DOMAIN s.db.dimensions
  IN  [db |-> [rows |-> With(s.db.rows, id, NewRow(c, subject, object)),
               dimensions |-> IF defines THEN With(s.db.dimensions, c.dimension, c.valueType)
                              ELSE s.db.dimensions],
       refs |-> Named(s, c, id),
       ok |-> /\ s.ok /\ subject # Unset /\ object # Unset
              /\ id # Null /\ id \notin DOMAIN s.db.rows]

UpdateRow(s, c) ==
  LET row == s.db.rows[c.target]
      new == IF Deep(c) THEN RevisedRow(row, c) ELSE [row EXCEPT !.status = c.status]
      rows == s.db.rows
  IN  [db |-> [s.db EXCEPT !.rows = IF c.target \in DOMAIN rows THEN With(rows, c.target, new)
                                    ELSE rows],
       refs |-> IF Deep(c) THEN Named(s, c, Elsewhere) ELSE s.refs,
       ok |-> /\ s.ok /\ Has(s.db, TableOf[c.type], c.target)
              /\ Deep(c) => AsExpected(s.db, c) /\ MakesSense(row, c)]

Applied(s, c) == IF Adds(c) THEN AddRow(s, c) ELSE UpdateRow(s, c)

\* An import is sorted, so that what it refers to comes first; the sort is stable.
Ahead(changes, j, i) ==
  LET order(k) == ApplyOrder[changes[k].type]
  IN  order(j) < order(i) \/ (order(j) = order(i) /\ j < i)
Sorted(changes) ==
  LET place ==
        [i \in DOMAIN changes |-> Cardinality({j \in DOMAIN changes : Ahead(changes, j, i)}) + 1]
  IN  IF Of(changes, Portable) = {} THEN changes
      ELSE [n \in DOMAIN changes |-> changes[CHOOSE i \in DOMAIN changes : place[i] = n]]

\* apply_ticket's loop over the changes.
Unchanged(d) == [db |-> d, refs |-> [r \in {} |-> 0], ok |-> TRUE]
Application(d, changes) ==
  LET after[i \in 0..Len(changes)] ==
        IF i = 0 THEN Unchanged(d) ELSE Applied(after[i - 1], changes[i])
  IN  after[Len(changes)]

------------------------------------------------------------------------------
(* Transactions *)

\* What a person who looks at a ticket sees of the records it revises.
Look(changes) ==
  [x \in {changes[i].target : i \in Of(changes, Revises)} |-> LifecycleState(Row(x))]

NoAuthored == [status |-> "none", changes |-> <<>>]
InState(t, status) == authored[t].status = status
Moved(t, status, changes) ==
  authored' = [authored EXCEPT ![t] = [status |-> status, changes |-> changes]]

\* create_pr_packet: the changes are well formed, no more.
CreateTicket(t, changes) ==
  /\ InState(t, "none")
  /\ Of(changes, WellFormed) = DOMAIN changes
  /\ Moved(t, "proposed", changes)
  /\ UNCHANGED <<db, looked>>

\* deep_authoring_preview: typed changes, checked against the world and kept with
\* what they are to replace; nothing is written.
Preview(t, changes) ==
  /\ InState(t, "none")
  /\ \A i \in DOMAIN changes : WellFormed(changes[i]) /\ Deep(changes[i])
  /\ ReferencesOk(db, changes)
  /\ Moved(t, "previewed", Captured(db, changes))
  /\ looked' = [looked EXCEPT ![t] = Look(changes)]
  /\ UNCHANGED db

\* write_deep_authoring_ticket checks the preview again.
WriteAuthored(t) ==
  /\ InState(t, "previewed")
  /\ ReferencesOk(db, authored[t].changes)
  /\ Moved(t, "proposed", authored[t].changes)
  /\ UNCHANGED <<db, looked>>

\* review_ticket, for a proposed packet.
ReviewAuthored(t) ==
  /\ InState(t, "proposed")
  /\ Valid(db, authored[t].changes) = TRUE
  /\ Moved(t, "approved", Captured(db, authored[t].changes))
  /\ looked' = [looked EXCEPT ![t] = Look(authored[t].changes)]
  /\ UNCHANGED db

\* apply_ticket: all its changes, or none when one of them fails; proposed tickets
\* too, in the compatibility mode.
ApplyAuthored(t) ==
  /\ authored[t].status \in {"approved", "proposed"}
  /\ Valid(db, authored[t].changes) = TRUE
  /\ LET done == Application(db, Sorted(Captured(db, authored[t].changes))) IN
     /\ done.ok
     /\ db' = done.db
  /\ Moved(t, "applied", authored[t].changes)
  /\ UNCHANGED looked

CanonInit ==
  /\ db = [rows |-> [i \in {} |-> Change], dimensions |-> [k \in {} |-> "none"]]
  /\ authored = [t \in AuthoredTickets |-> NoAuthored]
  /\ looked = [t \in AuthoredTickets |-> [x \in {} |-> Unseen]]

CanonNext ==
  \E t \in AuthoredTickets :
    \/ \E changes \in Drafts : CreateTicket(t, changes) \/ Preview(t, changes)
    \/ WriteAuthored(t) \/ ReviewAuthored(t) \/ ApplyAuthored(t)

CanonSpec == CanonInit /\ [][CanonNext]_canonVars

------------------------------------------------------------------------------
(* Properties *)

Rows(table) == {x \in DOMAIN db.rows : Row(x).table = table}

\* A profile, an attribute or a piece of knowledge changes only from the state that the
\* author of the revision or its reviewer saw, whatever other tickets were applied
\* in between (expected_revision, in both checks and in the application).
RevisedAsSeen ==
  [][\A t \in AuthoredTickets :
       authored[t].status # "applied" /\ authored'[t].status = "applied" =>
         \A x \in DOMAIN looked[t] : looked[t][x] = LifecycleState(Row(x))]_canonVars

\* The valid interval of a record is never empty, although a revision may name only
\* one end of it, and two tickets one end each (_validate_effective_interval).
IntervalsHold ==
  \A table \in DeepTables \ {"actor_memory_packets"} : \A x \in Rows(table) :
    Ordered(Row(x).from, Row(x).until)

\* Every attribute has the value type of its dimension, whichever of several tickets
\* that define one is applied first (_validate_deep_authoring_references_in_connection).
SpansFitDimensions ==
  \A x \in Rows("entity_attribute_spans") :
    db.dimensions[Row(x).dimension] = Row(x).valueType

\* Deep records are about entities of the world, and knowledge about its facts and from
\* its entities, also when all come in one import, in any order (PORTABLE_APPLY_ORDER).
DeepRecordsResolve ==
  \A table \in DeepTables : \A x \in Rows(table) :
    /\ Has(db, "entities", Row(x).subject)
    /\ table = "knowledge_attributions" =>
         /\ Has(db, "facts", Row(x).object)
         /\ Row(x).learned # 0 => Has(db, "entities", Row(x).learned)
    /\ table = "entity_attribute_spans" /\ Row(x).object # 0 => Has(db, "entities", Row(x).object)

\* What the checks of one ticket, made against the world of their moment, keep true of
\* the world whatever tickets are applied in between and in whatever order.
CanonIsConsistent == IntervalsHold /\ SpansFitDimensions /\ DeepRecordsResolve
==============================================================================
