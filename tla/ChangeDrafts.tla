----------------------------- MODULE ChangeDrafts -----------------------------
(****************************************************************************)
(* How a change set becomes a ticket: what an author writes on the command   *)
(* line, by name, is parsed and resolved against the world and the draft     *)
(* itself; the preview is written as a new ticket, instead of a candidate or *)
(* an older ticket; tickets are split and merged; and the changes of a ticket *)
(* find the entities that they are about when it is applied.                 *)
(*                                                                          *)
(* Tickets has the life of the tickets and CanonRecords the rows; here it is *)
(* who a change is about.  Types, predicates and titles are left out.        *)
(****************************************************************************)
EXTENDS Integers, FiniteSets, SequencesExt

CONSTANTS
  Blank,                \* where nothing is said: no name, no ref
  EntityIds,            \* bound: the ids that entities get, in order
  DraftRefs,            \* draft_entity:1, draft_entity:2, ...
  Flags,                \* bound: the --add-... flags of one command, in order
  Imports,              \* bound: change sets that come from elsewhere, made of ids
  Proposals,            \* bound: payloads of candidates, as the lists in them
  Amendments,           \* bound: the --skip-index and --add-... of one revision
  Parts,                \* bound: the values of --part
  MaxPackets            \* bound: tickets

VARIABLES
  named,                \* entities: the display name of each id
  packets,              \* tickets, in the order in which they were created
  screen,               \* the preview that a command of the author works on
  facts                 \* facts and edges: who each is about, and how that was said

draftVars == <<named, packets, screen, facts>>

\* A reference: an id, the ref of an add_entity, a literal, or a name; and, once a name
\* is resolved, the name and the entities that there were.
Token(how, of) == [how |-> how, of |-> of, said |-> Blank, seen |-> {}]
Hows == {"id", "ref", "value", "name", "plain", "none", "missing"}
Kinds == {"entity", "fact", "edge", "point"}
References == [how : Hows, of : STRING, said : STRING, seen : SUBSET STRING]
Changes == [kind : Kinds, subject : References, object : References, name : STRING, ref : STRING]
NoToken == Token("none", Blank)
Missing == Token("missing", Blank)

Entity(c) == c.kind = "entity"
Sorts == [entity |-> {"name", "ref"},
          fact |-> {"subject", "subject_name", "subject_id", "object", "value", "object_value",
                    "object_name", "object_ref_id", "object_id"},
          edge |-> {"subject", "subject_name", "subject_id", "object", "object_name",
                    "object_id", "object_value"},
          point |-> {"label"}]
SubjectFields == {"subject", "subject_name", "subject_id"}
IdFields == {"subject_id", "object_id", "object_ref_id"}

\* What comes from outside has no name that was looked up before.
GivenReferences == [how : Hows, of : STRING, said : {Blank}, seen : {{}}]
GivenChanges ==
  [kind : Kinds, subject : GivenReferences, object : GivenReferences, name : STRING, ref : STRING]
GivenFlags(flags) ==
  /\ Len(flags) \in Nat /\ DOMAIN flags = 1..Len(flags)
  /\ \A i \in DOMAIN flags :
       /\ flags[i].kind \in DOMAIN Sorts
       /\ \A f \in DOMAIN flags[i].fields :
            flags[i].fields[f] \in
              (IF f \in {"name", "label", "ref"} THEN STRING ELSE GivenReferences)

\* Ids and the numbers of refs are used once; no list is without an end.
ASSUME AuthoringAssumption ==
  /\ Blank \in STRING
  /\ EntityIds \in Seq(STRING) /\ Len(EntityIds) > 0 /\ IsInjective(EntityIds)
  /\ DraftRefs \in Seq(STRING) /\ IsInjective(DraftRefs)
  /\ \A n \in DOMAIN DraftRefs : DraftRefs[n] # Blank
  /\ \A flags \in Flags : GivenFlags(flags)
  /\ \A by \in Amendments : GivenFlags(by.flags)
  /\ \A changes \in Imports : changes \in Seq(GivenChanges)
  /\ \A payload \in Proposals :
       /\ Len(payload) \in Nat /\ DOMAIN payload = 1..Len(payload)
       /\ \A l \in DOMAIN payload :
            /\ Len(payload[l]) \in Nat /\ DOMAIN payload[l] = 1..Len(payload[l])
            /\ \A i \in DOMAIN payload[l] :
                 payload[l][i].kind = "free" \/ payload[l][i] \in GivenChanges
  /\ \A parts \in Parts : parts \in Seq(Seq(Nat))
  /\ MaxPackets \in Nat

------------------------------------------------------------------------------
(* Lists of changes *)

\* The items of several lists that are at the given places <<list, item>>, in order.
Precedes(p, q) == p[1] < q[1] \/ (p[1] = q[1] /\ p[2] < q[2])
ItemsAt(lists, places) ==
  [n \in 1..Cardinality(places) |->
     LET q == CHOOSE q \in places : Cardinality({p \in places : Precedes(p, q)}) + 1 = n
     IN  lists[q[1]][q[2]]]
Positions(lists) == UNION {{l} \X DOMAIN lists[l] : l \in DOMAIN lists}
Kept(list, skipped) == ItemsAt(<<list>>, {1} \X (DOMAIN list \ skipped))

------------------------------------------------------------------------------
(* Parsing *)

SubjectsIn(flag) == DOMAIN flag.fields \cap SubjectFields
ObjectsIn(flag) == DOMAIN flag.fields \ SubjectFields

\* Unknown fields are rejected, and exactly one of the synonyms is given.
WellGiven(flag) ==
  /\ DOMAIN flag.fields \subseteq Sorts[flag.kind]
  /\ CASE flag.kind = "entity" -> "name" \in DOMAIN flag.fields
       [] flag.kind = "point" -> "label" \in DOMAIN flag.fields
       [] OTHER -> Cardinality(SubjectsIn(flag)) = 1 /\ Cardinality(ObjectsIn(flag)) = 1

\* What a field is without a prefix: the object of a fact is a literal unless it is
\* called a name, the object of an edge a name unless it is called a value.
Literal(kind, field) ==
  field \in (IF kind = "fact" THEN {"object", "value", "object_value"} ELSE {"object_value"})

\* _store_reference, _store_fact_object, _store_edge_object
Reading(kind, field, token) ==
  IF field \in IdFields THEN Token("id", token.of)
  ELSE IF kind = "edge" /\ field = "object_value" THEN Token("value", token.of)
  ELSE IF token.how = "plain" THEN Token(IF Literal(kind, field) THEN "value" ELSE "name", token.of)
  ELSE IF token.how = "value" /\ field \in SubjectFields THEN Token("name", token.of)
  ELSE token

Reference(flag, fields) ==
  IF fields = {} THEN NoToken
  ELSE LET field == CHOOSE f \in fields : TRUE IN Reading(flag.kind, field, flag.fields[field])

Parsed(flag) ==
  IF flag.kind \in {"entity", "point"}
    THEN [kind |-> flag.kind, subject |-> NoToken, object |-> NoToken,
          name |-> IF flag.kind = "entity" THEN flag.fields.name ELSE flag.fields.label,
          ref |-> IF "ref" \in DOMAIN flag.fields THEN flag.fields.ref ELSE Blank]
    ELSE [kind |-> flag.kind, name |-> Blank, ref |-> Blank,
          subject |-> Reference(flag, SubjectsIn(flag)),
          object |-> Reference(flag, ObjectsIn(flag))]

\* extract_structured_candidate_changes: the typed items of each list, and of lists that
\* say the same only one.
Extracted(payload) ==
  LET typed(l) == Kept(payload[l], {i \in DOMAIN payload[l] : payload[l][i].kind = "free"})
  IN  ItemsAt(payload, {q \in Positions(payload) :
                         /\ payload[q[1]][q[2]].kind # "free"
                         /\ \A h \in 1..(q[1] - 1) : typed(h) # typed(q[1])})

------------------------------------------------------------------------------
(* Resolution *)

RefsOf(changes) == {changes[i].ref : i \in {j \in DOMAIN changes : Entity(changes[j])}}

\* Entities without a change_ref get the next draft_entity:N that is not in use.
Unnamed(changes, i) == {j \in 1..i : Entity(changes[j]) /\ changes[j].ref = Blank}
FreeRefs(changes) == Kept(DraftRefs, {n \in DOMAIN DraftRefs : DraftRefs[n] \in RefsOf(changes)})
WithRefs(changes) ==
  [i \in DOMAIN changes |->
     IF i \in Unnamed(changes, i)
       THEN [changes[i] EXCEPT !.ref = FreeRefs(changes)[Cardinality(Unnamed(changes, i))]]
       ELSE changes[i]]

\* Bound: there are as many numbers as it takes.
EnoughRefs(changes) == Cardinality(Unnamed(changes, Len(changes))) <= Len(FreeRefs(changes))

\* targets_by_name: the entities of the world and of the draft.
Bearers(world, changes, name) ==
  {Token("id", e) : e \in {x \in DOMAIN world : world[x] = name}}
  \cup {Token("ref", changes[i].ref) :
          i \in {j \in DOMAIN changes : Entity(changes[j]) /\ changes[j].name = name}}

\* _resolve_entity_target: an id is taken as it is; a name that is an id or a ref of the
\* draft is that; otherwise exactly one entity must bear it.
Pointed(world, changes, token) ==
  CASE token.how = "ref" -> IF token.of \in RefsOf(changes) THEN token ELSE Missing
    [] token.how = "name" ->
         IF token.of = "world" \/ token.of \in DOMAIN world THEN Token("id", token.of)
         ELSE IF token.of \in RefsOf(changes) THEN Token("ref", token.of)
         ELSE LET bearers == Bearers(world, changes, token.of) IN
              IF \A t \in bearers : bearers # {t} THEN Missing
              ELSE [(CHOOSE t \in bearers : TRUE) EXCEPT !.said = token.of, !.seen = DOMAIN world]
    [] OTHER -> token

\* The change_ref of a fact's object is not looked up: _resolve_fact_object.
ResolvedChange(world, changes, c) ==
  [c EXCEPT !.subject = Pointed(world, changes, @),
            !.object = IF c.kind = "fact" /\ @.how = "ref" THEN @ ELSE Pointed(world, changes, @)]

\* A faulty order, for the checks to reject: the one in which the flags were given.
AsGiven(changes) == changes

EntitiesFirst(changes) ==
  LET entities == {i \in DOMAIN changes : Entity(changes[i])} IN
  Kept(changes, DOMAIN changes \ entities) \o Kept(changes, entities)

\* resolve_change_references
Normalized(world, changes) ==
  LET marked == WithRefs(changes) IN
  EntitiesFirst([i \in DOMAIN marked |-> ResolvedChange(world, marked, marked[i])])

Resolvable(world, changes) ==
  /\ EnoughRefs(changes)
  /\ \A i, j \in DOMAIN changes :
       Entity(changes[i]) /\ Entity(changes[j]) /\ i # j =>
         changes[i].ref = Blank \/ changes[i].ref # changes[j].ref
  /\ \A c \in ToSet(Normalized(world, changes)) : Missing \notin {c.subject, c.object}

------------------------------------------------------------------------------
(* Tickets *)

Revisable == {"proposed", "approved"}
Concrete(k) == packets[k].made # "candidate"
NoPreview == [mode |-> "none", sources |-> <<>>, drafts |-> <<>>, parted |-> FALSE]

NewTicket(made, changes, payload) ==
  [made |-> made, status |-> "proposed", changes |-> changes, payload |-> payload]

\* create_pr_packet, from an import or another service: the changes come as they are.
ImportPacket(changes) ==
  /\ Len(packets) < MaxPackets
  /\ packets' = Append(packets, NewTicket("import", changes, <<>>))
  /\ UNCHANGED <<named, screen, facts>>

\* The orchestrator's meetings leave candidates.
ProposeCandidate(payload) ==
  /\ Len(packets) < MaxPackets
  /\ packets' = Append(packets, NewTicket("candidate", <<>>, payload))
  /\ UNCHANGED <<named, screen, facts>>

SetStatus(k, status) == packets' = [packets EXCEPT ![k].status = status]

\* review_ticket
ReviewPacket(k) == Concrete(k) /\ packets[k].status = "proposed" /\ SetStatus(k, "approved")

\* The rejection of the review inbox.
RejectPacket(k) ==
  /\ packets[k].status \in Revisable
  /\ SetStatus(k, "rejected")
  /\ UNCHANGED <<named, screen, facts>>

\* The entities that a ticket has added after i changes, and their ids; resolved_change_refs,
\* in which a later entity of the same ref takes the place of an earlier one.  Imports give
\* refs to other changes too, fact:7 or world_edge:7, which no entity has; they are left out.
EntitiesIn(changes, i) == {j \in 1..i : Entity(changes[j])}
NewId(changes, j) == EntityIds[Cardinality(DOMAIN named) + Cardinality(EntitiesIn(changes, j))]
Marked(changes, i, ref) == {j \in EntitiesIn(changes, i) : changes[j].ref = ref}
Latest(places) == CHOOSE j \in places : \A h \in places : h <= j
Referent(changes, i, token) ==
  IF token.how = "ref" THEN NewId(changes, Latest(Marked(changes, i, token.of))) ELSE token.of

\* What apply_ticket makes of the changes: the rows, unless a ref is not found.
Mentions(c) == IF Entity(c) THEN {} ELSE {c.subject, c.object} \ {NoToken}
RefsAreFound(changes) ==
  \A i \in DOMAIN changes : \A token \in Mentions(changes[i]) :
    token.how = "ref" => Marked(changes, i, token.of) # {}
FactsOf(made, changes) ==
  UNION {{[made |-> made, who |-> Referent(changes, i, token), said |-> token.said,
           seen |-> token.seen] : token \in Mentions(changes[i])} : i \in DOMAIN changes}
NamedBy(changes) ==
  LET added == EntitiesIn(changes, Len(changes)) IN
  [e \in DOMAIN named \cup {NewId(changes, j) : j \in added} |->
     IF e \in DOMAIN named THEN named[e]
     ELSE changes[CHOOSE j \in added : NewId(changes, j) = e].name]

RoomFor(changes) ==
  Cardinality(DOMAIN named) + Cardinality(EntitiesIn(changes, Len(changes))) <= Len(EntityIds)

\* apply_ticket: everything, or nothing when a change_ref is unresolved.
ApplyPacket(k) ==
  /\ Concrete(k) /\ packets[k].status = "approved"
  /\ RoomFor(packets[k].changes) /\ RefsAreFound(packets[k].changes)
  /\ named' = NamedBy(packets[k].changes)
  /\ facts' = facts \cup FactsOf(packets[k].made, packets[k].changes)
  /\ SetStatus(k, "applied")

------------------------------------------------------------------------------
(* Commands: a preview, and then what --write-ticket does with it *)

Shows(mode, sources, drafts, parted) ==
  /\ screen' = [mode |-> mode, sources |-> sources, drafts |-> drafts, parted |-> parted]
  /\ UNCHANGED <<named, packets, facts>>

\* ChangeDraftService.compose, the part that all modes share.
Composes(mode, sources, source, skipped, flags) ==
  LET combined == Kept(source, skipped) \o [i \in DOMAIN flags |-> Parsed(flags[i])] IN
  /\ screen = NoPreview
  /\ skipped \subseteq DOMAIN source
  /\ \A i \in DOMAIN flags : WellGiven(flags[i])
  /\ combined # <<>>
  /\ Resolvable(named, combined) /\ Resolvable(named, source)
  /\ Shows(mode, sources, <<Normalized(named, combined)>>, \E i \in skipped : Entity(source[i]))

Compose(flags) == Composes("compose", <<>>, <<>>, {}, flags)

AcceptCandidate(k, skipped, flags) ==
  /\ ~Concrete(k) /\ packets[k].status = "proposed"
  /\ Composes("candidate", <<k>>, Extracted(packets[k].payload), skipped, flags)

AmendTicket(k, skipped, flags) ==
  /\ Concrete(k) /\ packets[k].status \in Revisable
  /\ Composes("revision", <<k>>, packets[k].changes, skipped, flags)

\* _normalize_split_groups: at least two parts, none empty, every change in exactly one.
Partitions(parts, changes) ==
  LET places == Positions(parts)
      index(q) == parts[q[1]][q[2]] IN
  /\ Len(parts) >= 2 /\ \A g \in DOMAIN parts : parts[g] # <<>>
  /\ \A p, q \in places : index(p) = index(q) => p = q
  /\ {index(q) : q \in places} = DOMAIN changes

PreviewSplit(k, parts) ==
  /\ screen = NoPreview
  /\ Concrete(k) /\ packets[k].status \in Revisable
  /\ Partitions(parts, packets[k].changes)
  /\ Shows("split", <<k>>,
           [g \in DOMAIN parts |-> [i \in DOMAIN parts[g] |-> packets[k].changes[parts[g][i]]]],
           FALSE)

PreviewMerge(sources) ==
  /\ screen = NoPreview
  /\ IsInjective(sources)
  /\ \A k \in ToSet(sources) : Concrete(k) /\ packets[k].status \in Revisable
  /\ LET lists == [i \in DOMAIN sources |-> packets[sources[i]].changes] IN
     Shows("merge", sources, <<ItemsAt(lists, Positions(lists))>>, FALSE)

\* The guided commands take the ticket only when there is no choice.
Guided(mode, status) ==
  LET eligible == {k \in DOMAIN packets : Concrete(k) /\ packets[k].status = status} IN
  /\ screen = NoPreview
  /\ Cardinality(eligible) = 1
  /\ Shows(mode, <<CHOOSE k \in eligible : TRUE>>, <<>>, FALSE)

\* A source must still be in a state that permits it.
StillOpen(k) ==
  packets[k].status \in (IF screen.mode = "candidate" THEN {"proposed"} ELSE Revisable)

\* Whether its changes are still together with those that they were written with: a
\* split parts them, and a revision that skips an entity of its source.
Making ==
  LET made == {packets[k].made : k \in ToSet(screen.sources)} IN
  IF screen.mode = "split" \/ "split" \in made THEN "split"
  ELSE IF screen.parted \/ "parted" \in made THEN "parted"
  ELSE IF screen.mode = "merge" /\ "import" \in made THEN "import"
  ELSE "draft"

\* materialize_candidate_ticket, create_revision_packet, create_pr_packet,
\* _split_ticket_packet, _merge_ticket_packets: one transaction.
WriteTicket ==
  /\ screen.drafts # <<>>
  /\ \A k \in ToSet(screen.sources) : StillOpen(k)
  /\ Len(packets) + Len(screen.drafts) <= MaxPackets
  /\ packets' =
       [k \in DOMAIN packets |->
          IF k \notin ToSet(screen.sources) THEN packets[k]
          ELSE [packets[k] EXCEPT !.status = IF screen.mode = "candidate" THEN "converted"
                                             ELSE "superseded"]]
       \o [g \in DOMAIN screen.drafts |-> NewTicket(Making, screen.drafts[g], <<>>)]
  /\ screen' = NoPreview
  /\ UNCHANGED <<named, facts>>

\* review-next and apply-next, on the ticket that was selected.
FinishGuided ==
  /\ \/ screen.mode = "review" /\ ReviewPacket(screen.sources[1]) /\ UNCHANGED <<named, facts>>
     \/ screen.mode = "apply" /\ ApplyPacket(screen.sources[1])
  /\ screen' = NoPreview

\* The preview was all, or the command is blocked.
LeaveCommand ==
  /\ screen # NoPreview
  /\ screen' = NoPreview
  /\ UNCHANGED <<named, packets, facts>>

DraftsInit ==
  /\ named = [e \in {EntityIds[1]} |-> "mina"]
  /\ packets = <<>> /\ facts = {}
  /\ screen = NoPreview

DraftsNext ==
  \/ \E changes \in Imports : ImportPacket(changes)
  \/ \E payload \in Proposals : ProposeCandidate(payload)
  \/ \E flags \in Flags : Compose(flags)
  \/ \E k \in DOMAIN packets :
       \/ ReviewPacket(k) /\ UNCHANGED <<named, screen, facts>>
       \/ ApplyPacket(k) /\ UNCHANGED screen
       \/ RejectPacket(k)
       \/ \E by \in Amendments :
            AcceptCandidate(k, by.skipped, by.flags) \/ AmendTicket(k, by.skipped, by.flags)
       \/ \E parts \in Parts : PreviewSplit(k, parts)
       \/ \E j \in DOMAIN packets : PreviewMerge(<<j, k>>)
  \/ Guided("review", "proposed") \/ Guided("apply", "approved")
  \/ WriteTicket \/ FinishGuided \/ LeaveCommand

DraftsSpec == DraftsInit /\ [][DraftsNext]_draftVars

------------------------------------------------------------------------------
(* Properties *)

\* The refs of facts' objects, which nobody looks up before they are applied, are those of
\* entities before them.
ObjectRefsKnown(changes) ==
  \A i \in DOMAIN changes :
    changes[i].kind = "fact" /\ changes[i].object.how = "ref" =>
      Marked(changes, i, changes[i].object.of) # {}

\* A draft that was accepted as a ticket can be applied, whatever has become of the world
\* since, and a merge of such tickets too (_resolve_change_references, apply_ticket).
DraftsCanBeApplied ==
  \A k \in DOMAIN packets :
    packets[k].made = "draft" /\ ObjectRefsKnown(packets[k].changes) =>
      RefsAreFound(packets[k].changes)

\* What an author said of a name is about the entity that bore it: the only one in the
\* world when it was resolved, or else one that the author added, and no namesake that
\* came between the preview, the review and the application.
KeepsBearer(f) ==
  f.said # Blank => named[f.who] = f.said /\ {e \in f.seen : named[e] = f.said} \subseteq {f.who}
NamesKeepTheirBearer == \A f \in facts : f.made = "draft" => KeepsBearer(f)

\* Both, for tickets whose changes were never parted (resolve_change_references).
DraftsMeanWhatTheySay == DraftsCanBeApplied /\ NamesKeepTheirBearer

\* _change_draft_contracts.py:34 has an error for a name without a match: also a revision
\* that skips the entity keeps what was said of it, or is refused.
RevisionsKeepTheBearer == \A f \in facts : f.made \in {"draft", "parted"} => KeepsBearer(f)
==============================================================================
