----------------------------- MODULE SceneFilter -----------------------------
(****************************************************************************)
(* Who may be in a scene: the entities that satisfy its conditions and are   *)
(* at its place, by their attributes.  The registry of dimensions, the       *)
(* attributes of each condition, those of the place and the entities are     *)
(* read one after the other while the author's tickets are applied.  What    *)
(* cannot be resolved does not restrict the scene; it is told as a gap.      *)
(*                                                                          *)
(* A name stands for what is the same when case is folded.                  *)
(****************************************************************************)
EXTENDS Integers, Sequences, FiniteSets, TLC, FiniteSetsExt

CONSTANTS
  NameOf,               \* the name of each entity, in order of creation
  SceneWorlds,          \* the worlds there may be at first
  SceneTickets,         \* bound: what the author applies meanwhile
  SceneRequests,        \* bound: [conditions, place, at], of which place and at may be missing
  Limit                 \* how many entities are listed


VARIABLES
  setting,                \* the world: [active, dimensions, spans]
  unread,               \* tickets that are not applied yet
  wanted,               \* the request
  filter,               \* the command: where it is, and what it has found
  changed,              \* history: whether a ticket was applied meanwhile
  everHeld              \* history: what held of entities at some moment of the command

filterVars == <<setting, unread, wanted, filter, changed, everHeld>>

Figures == DOMAIN NameOf

ASSUME FilterAssumption ==
  /\ NameOf \in Seq(STRING) /\ Limit \in Nat
  /\ \A w \in SceneWorlds : w.active \subseteq Figures
  /\ \A ticket \in SceneTickets : ticket.enter \subseteq Figures
  /\ \A r \in SceneRequests : DOMAIN r.conditions \subseteq Nat \ {0}

Unstated == "unstated"
NotANumber == -1
Place == "current_location"

\* A span: an attribute of an entity for some time.  A condition compares a dimension
\* with a value, which is a text and may be a number.
Span == [who |-> 1, key |-> Place, number |-> NotANumber, text |-> Unstated, ref |-> 0,
         from |-> 0, until |-> 0, status |-> "canon"]
Condition == [key |-> Unstated, op |-> "=", number |-> NotANumber, text |-> Unstated]

------------------------------------------------------------------------------
(* Rules *)

\* _parse_scene_condition; _condition_dimension_key only needs the key.
Parses(c) == c.key # Unstated /\ c.text # Unstated
Conditions == DOMAIN wanted.conditions
Parseable == {i \in Conditions : Parses(wanted.conditions[i])}
Keys == {wanted.conditions[i].key : i \in Conditions} \ {Unstated}

Compare(a, op, b) ==
  CASE op = ">=" -> a >= b [] op = "<=" -> a <= b [] op = ">" -> a > b
    [] op = "<" -> a < b   [] op = "!=" -> a # b  [] OTHER -> a = b

\* The text of a span: its text, or else the id that it refers to.
TextOf(s) == IF s.text # Unstated THEN s.text ELSE IF s.ref # 0 THEN ToString(s.ref) ELSE Unstated

\* _span_matches_condition: numbers if both are, and texts only for equality.
Matches(s, c) ==
  IF c.number # NotANumber /\ s.number # NotANumber THEN Compare(s.number, c.op, c.number)
  ELSE /\ TextOf(s) # Unstated
       /\ \/ c.op \in {"=", "=="} /\ TextOf(s) = c.text
          \/ c.op = "!=" /\ TextOf(s) # c.text

\* query_entity_attribute_spans, without what was rejected or deprecated.
Spans(w, key, at) ==
  {s \in w.spans : /\ s.key = key /\ s.status \notin {"rejected", "deprecated"}
                   /\ at = 0 \/ (s.from <= at /\ (s.until = 0 \/ s.until > at))}
Satisfying(w, c, at) == {s.who : s \in {t \in Spans(w, c.key, at) : Matches(t, c)}}

PlacesNamed(w, place) == {p \in w.active : NameOf[p] = place}
StandingAt(w, places, place, at) ==
  {s.who : s \in {t \in Spans(w, Place, at) : t.text = place \/ t.ref \in places}}

------------------------------------------------------------------------------
(* The command *)

\* None of the candidates is known until something restricts them.
Fresh == [at |-> "dimensions", known |-> {}, left |-> {}, places |-> {},
          restricted |-> FALSE, candidates |-> {}, applied |-> {}, placed |-> FALSE,
          matched |-> {}, missing |-> {}]
Reads(place) == filter.at = place
Narrow(S) == IF filter.restricted THEN filter.candidates \cap S ELSE S
OnlyReads == UNCHANGED <<setting, unread, wanted, changed, everHeld>>

\* list_dimension_definitions, whatever their status.
ReadDimensions ==
  /\ Reads("dimensions") /\ OnlyReads
  /\ filter' = [filter EXCEPT
       !.at = "conditions", !.known = setting.dimensions,
       !.left = {i \in Parseable : wanted.conditions[i].key \in setting.dimensions}]

\* The next condition whose dimension is known.
ReadCondition ==
  /\ Reads("conditions") /\ filter.left # {} /\ OnlyReads
  /\ LET i == Min(filter.left)
         met == Satisfying(setting, wanted.conditions[i], wanted.at)
     IN  filter' = [filter EXCEPT !.left = @ \ {i}, !.applied = @ \cup {i},
                                  !.restricted = TRUE, !.candidates = Narrow(met)]

ReadPlaces ==
  /\ Reads("conditions") /\ filter.left = {} /\ wanted.place # Unstated /\ OnlyReads
  /\ filter' = [filter EXCEPT !.at = "place", !.places = PlacesNamed(setting, wanted.place)]

\* A place where nobody is does not restrict the scene.
ReadStanding ==
  /\ Reads("place") /\ OnlyReads
  /\ LET there == StandingAt(setting, filter.places, wanted.place, wanted.at)
     IN  filter' = IF there = {} THEN [filter EXCEPT !.at = "entities"]
                   ELSE [filter EXCEPT !.at = "entities", !.placed = TRUE,
                                       !.restricted = TRUE, !.candidates = Narrow(there)]

\* The first of them that are listed, in order of creation.
Cut(all) == {p \in all : Cardinality({q \in all : q < p}) < Limit}

\* The active entities among the candidates, and the contract that is told of them.
List(unknown) ==
  /\ \/ Reads("entities")
     \/ Reads("conditions") /\ filter.left = {} /\ wanted.place = Unstated
  /\ OnlyReads
  /\ filter' = [filter EXCEPT !.at = "told", !.missing = unknown,
                              !.matched = Cut(setting.active \cap filter.candidates)]

\* A faulty contract, for the checks to reject: it is built with the registry read again.
ListByNewRegistry == List(Keys \ setting.dimensions)

\* build_scene_filter_contract, with the registry that was read first.
ListMatched == List(Keys \ filter.known)

------------------------------------------------------------------------------
\* What holds of entities: they are active, satisfy a condition, by its number, or stand
\* at a place that is or was active.
Active == 0
Placed == -1
PlacesEver == {p \in Figures : <<p, Active>> \in everHeld /\ NameOf[p] = wanted.place}
Holds(w, places) ==
  (w.active \X {Active})
    \cup (UNION {Satisfying(w, wanted.conditions[i], wanted.at) \X {i} : i \in Parseable})
    \cup (StandingAt(w, places \cup PlacesNamed(w, wanted.place), wanted.place, wanted.at)
            \X {Placed})

ChangeScene(ticket) ==
  /\ ticket \in unread /\ ~Reads("told")
  /\ setting' = [active |-> (setting.active \cup ticket.enter) \ ticket.leave,
               dimensions |-> setting.dimensions \cup {s.key : s \in ticket.add},
               spans |-> (setting.spans \ ticket.drop) \cup ticket.add]
  /\ unread' = unread \ {ticket}
  /\ changed' = TRUE
  /\ everHeld' = everHeld \cup Holds(setting', PlacesEver)
  /\ UNCHANGED <<wanted, filter>>

FilterInit ==
  /\ setting \in SceneWorlds
  /\ wanted \in SceneRequests
  /\ unread = SceneTickets
  /\ filter = Fresh
  /\ changed = FALSE
  /\ everHeld = Holds(setting, {})

FilterNext ==
  \/ ReadDimensions \/ ReadCondition \/ ReadPlaces \/ ReadStanding \/ ListMatched
  \/ \E ticket \in SceneTickets : ChangeScene(ticket)
FilterSpec == FilterInit /\ [][FilterNext]_filterVars

------------------------------------------------------------------------------
(* Properties *)

Told == Reads("told")
Admitted == filter.matched

\* The gaps: a condition without an operator or a value, or whose dimension was not
\* registered, and a place where nobody was.
GapFor(i) == ~Parses(wanted.conditions[i]) \/ wanted.conditions[i].key \in filter.missing
PlaceGap == wanted.place # Unstated /\ ~filter.placed

\* Whoever is admitted to a scene was active, satisfied every condition and was at the
\* place, at some moment each, but for what is told as a gap: nothing that was asked is
\* silently left out, although what is not resolved restricts nothing.
AdmittedForAReason ==
  Told => \A p \in Admitted :
    /\ <<p, Active>> \in everHeld
    /\ \A i \in Conditions : GapFor(i) \/ <<p, i>> \in everHeld
    /\ wanted.place # Unstated => PlaceGap \/ <<p, Placed>> \in everHeld

\* If nothing changed meanwhile, who is left out fails something that was applied, or
\* the limit is reached, or nothing could be applied at all.
LeftOutForAReason ==
  Told /\ ~changed => \A p \in setting.active \ Admitted :
    \/ Cardinality(filter.matched) = Limit
    \/ ~filter.placed /\ \A i \in Conditions : GapFor(i)
    \/ \E i \in Conditions : ~GapFor(i) /\ <<p, i>> \notin everHeld
    \/ filter.placed /\ <<p, Placed>> \notin everHeld

\* The result tells why each entity is in the scene, or why it is not, although what it
\* was decided by was read piece by piece (select_scene_entities).
ScenesAreExplained == AdmittedForAReason /\ LeftOutForAReason
==============================================================================
