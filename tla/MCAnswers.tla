------------------------------- MODULE MCAnswers -------------------------------
(****************************************************************************)
(* What answers, and what authors write, checked by one run: the guided      *)
(* loop, which executes an external program; the command that opens a run    *)
(* and plays a scripted one through; the filter that says who may be in a    *)
(* scene; the context that a participant is given before it speaks; and the  *)
(* change sets that an author composes from what was said.  They share no    *)
(* state here: "desk" says which of them is at work, and the others stay as  *)
(* they are.                                                                *)
(* The constants are in the .cfg files.                                     *)
(****************************************************************************)
EXTENDS RuntimeLoop, ScriptedRuns, ActorContext, ChangeDrafts, SceneFilter

CONSTANTS p1, p2, i1, Desks

VARIABLE desk

MCOutputs == {{}, {"output_too_large", "nonzero_exit"}}

\* Participants; rounds, turns and calls, of which the first two are refused,
\* then exact budgets and ones that cut the requested rounds short.
MCBudgets ==
  {<<1, 0, 2, 2>>, <<2, 2, 2, 1>>, <<2, 2, 2, 4>>, <<2, 3, 2, 5>>, <<2, 3, 3, 5>>,
   <<3, 2, 3, 7>>, <<1, 1, 1, 1>>, <<1, 2, 2, 2>>}
Ask(budget, mode, anchored, scene) ==
  [n |-> budget[1], rounds |-> budget[2], turns |-> budget[3], calls |-> budget[4],
   mode |-> mode, anchored |-> anchored, scene |-> scene]
MCAsks ==
  {Ask(budget, mode, anchored, FALSE) :
     budget \in MCBudgets, mode \in {"local", "prep", "bridge"}, anchored \in {{}, {1}}}
  \cup {Ask(<<2, 3, 3, 6>>, "local", {1, 2}, scene) : scene \in BOOLEAN}

Plain == [uncertain |-> FALSE, risky |-> FALSE, objections |-> {{}}, questions |-> {{}}]
MCRuntimeOutputs ==
  {Plain,
   [Plain EXCEPT !.uncertain = TRUE, !.objections = {{2}}],
   [Plain EXCEPT !.risky = TRUE, !.questions = {{1}}]}

\* Records, by id: a hidden fact (1), a candidate fact (2), a dated one (3), the rest of
\* the actor's tables (4..7), and what the actor and another viewpoint know of them.
Knows(names, state) == [Row EXCEPT !.table = "knowledge", !.names = names, !.state = state]
MCRec ==
  << [Row EXCEPT !.role = "world", !.hidden = TRUE],
     [Row EXCEPT !.first = "other", !.chars = 2, !.relevance = 1],
     [Row EXCEPT !.time = 2, !.place = 1],
     [Row EXCEPT !.table = "actor_profiles", !.hidden = TRUE],
     [Row EXCEPT !.table = "temporal_attributes", !.from = 2],
     [Row EXCEPT !.table = "relationships", !.role = "both", !.tokens = 2],
     [Row EXCEPT !.table = "memories", !.hidden = TRUE, !.time = 1],
     [Knows(<<"fact", 1>>, "known") EXCEPT !.role = "other"],
     Knows(<<"fact", 1>>, "witnessed"),
     [Knows(<<"fact", 2>>, "forbidden") EXCEPT !.first = "absent"],
     [Knows(<<"edge", 6>>, "forbidden") EXCEPT !.until = 2],
     [Knows(<<"fact", 1>>, "forbidden") EXCEPT !.first = "absent", !.from = 2] >>

\* The author forbids the candidate and makes it canon, forbids the hidden fact instead of
\* its having been witnessed, and retires an attribution, a profile and an attribute.
MCContextTickets ==
  {[show |-> {10}, hide |-> {}], [show |-> {2}, hide |-> {}], [show |-> {12}, hide |-> {9}],
   [show |-> {}, hide |-> {4, 5, 11}]}

Request(viewpoint, at, place, chars, tokens) ==
  [viewpoint |-> viewpoint, at |-> at, place |-> place, chars |-> chars, tokens |-> tokens]
MCRequests ==
  {Request(viewpoint, at, 0, 20, {}) : viewpoint \in {"actor", "other"}, at \in 0..2}
  \cup {Request("actor", 0, 2, 2, {}), Request("other", 2, 1, 4, {}), Request("actor", 2, 0, 20, {3})}

\* What authors write: a new entity with a fact about it; a namesake of the one there
\* is; and an entity with a ref, an edge to another draft's entity and a dangling ref.
Text(name) == Token("plain", name)
EntityFlag(name) == [kind |-> "entity", fields |-> [name |-> name]]
FactFlag(subject, object) == [kind |-> "fact", fields |-> [subject |-> subject, object |-> object]]
Rae == <<EntityFlag("rae"), FactFlag(Text("rae"), Text("pilot"))>>
Mina == <<EntityFlag("mina")>>
Kai ==
  <<[kind |-> "entity", fields |-> [name |-> "kai", ref |-> "d1"]],
    FactFlag(Token("ref", "d1"), Token("ref", "d7")),
    [kind |-> "edge", fields |-> [subject_id |-> Text("e1"), object |-> Text("rae")]],
    [kind |-> "point", fields |-> [label |-> "arrival"]]>>
MCFlags == {Rae, Mina, Kai}
By(skipped, flags) == [skipped |-> skipped, flags |-> flags]
MCAmendments ==
  {By({1}, Mina), By({1}, <<>>), By({}, <<FactFlag(Text("mina"), Token("name", "mina"))>>)}

\* What comes from elsewhere: facts before the entities that they are about, as an import
\* and, next to free text and twice, in a candidate.
DraftChange(kind, name, ref, subject) ==
  [kind |-> kind, name |-> name, ref |-> ref, subject |-> subject, object |-> NoToken]
MCImports ==
  {<<DraftChange("fact", Blank, Blank, Token("ref", "d1")), DraftChange("entity", "kai", "d1", NoToken)>>}
MCProposals ==
  LET list == <<DraftChange("fact", Blank, Blank, Token("name", "rae")), [kind |-> "free"],
                DraftChange("entity", "rae", Blank, NoToken)>>
  IN  {<<list, <<[kind |-> "free"]>>, list>>}
MCParts == {<<<<2>>, <<1>>>>, <<<<1, 2>>, <<3>>>>}
MCEntityIds == <<"e1", "e2", "e3">>
MCDraftRefs == <<"d1", "d2", "d3", "d4", "d5", "d6">>

\* Three people, of whom two stand in the hall, by its name and by its id, and the hall.
\* The author meanwhile measures the third and lets the first leave, closes the hall and
\* ends the measure of the second, and puts the third into the hall in another mood.
MCNameOf == <<"ann", "bob", "cas", "hall">>
Tall(p, n) == [Span EXCEPT !.who = p, !.key = "height", !.number = n]
MCSpans ==
  {[Span EXCEPT !.text = "hall"], [Span EXCEPT !.who = 2, !.ref = 4, !.until = 3],
   Tall(1, 5), [Tall(2, 7) EXCEPT !.from = 2], [Tall(3, 9) EXCEPT !.status = "rejected"],
   [Span EXCEPT !.who = 2, !.key = "mood", !.text = "calm"]}
MCSceneWorlds ==
  {[active |-> 1..4, dimensions |-> {Place, "height", "mood"}, spans |-> MCSpans],
   [active |-> {2, 3, 4}, dimensions |-> {}, spans |-> {}]}
Ticket(enter, leave, add, drop) == [enter |-> enter, leave |-> leave, add |-> add, drop |-> drop]
MCSceneTickets ==
  {Ticket({}, {1}, {Tall(3, 8)}, {}), Ticket({}, {4}, {}, {[Tall(2, 7) EXCEPT !.from = 2]}),
   Ticket({1}, {}, {[Span EXCEPT !.who = 3, !.key = "mood", !.text = "angry"], [Span EXCEPT !.who = 3, !.ref = 4]}, {})}
Where(key, op, number, text) == [key |-> key, op |-> op, number |-> number, text |-> text]
MCConditions ==
  {<<>>, <<Where("height", ">=", 5, "5")>>, <<Where("mood", "!=", NotANumber, "angry"), Where("height", "<", 9, "9")>>,
   <<Where("mood", ">", 5, "5"), Condition>>, <<Where("rank", "=", 1, "1"), Where("height", "==", NotANumber, Unstated)>>}
MCSceneRequests ==
  [conditions : MCConditions, place : {Unstated, "hall", "ann"}, at : {0, 2, 3}]

IdleFilter ==
  /\ setting = [active |-> {}, dimensions |-> {}, spans |-> {}]
  /\ unread = {} /\ wanted = [conditions |-> <<>>, place |-> Unstated, at |-> 0]
  /\ filter = Fresh /\ changed = FALSE /\ everHeld = {}
IdleScript == ScriptInit /\ ask = Ask(<<1, 0, 2, 2>>, "local", {}, FALSE)
IdleContext == ContextInit /\ request = Request("actor", 0, 2, 2, {})

Init ==
  /\ desk \in Desks
  /\ LoopInit /\ DraftsInit
  /\ IF desk = "script" THEN ScriptInit ELSE IdleScript
  /\ IF desk = "context" THEN ContextInit ELSE IdleContext
  /\ IF desk = "scene" THEN FilterInit ELSE IdleFilter

Next ==
  /\ UNCHANGED desk
  /\ \/ desk = "loop" /\ LoopNext /\ UNCHANGED <<scriptVars, contextVars, draftVars, filterVars>>
     \/ desk = "script" /\ ScriptNext /\ UNCHANGED <<loopVars, contextVars, draftVars, filterVars>>
     \/ desk = "context" /\ ContextNext /\ UNCHANGED <<loopVars, scriptVars, draftVars, filterVars>>
     \/ desk = "drafts" /\ DraftsNext /\ UNCHANGED <<loopVars, scriptVars, contextVars, filterVars>>
     \/ desk = "scene" /\ FilterNext /\ UNCHANGED <<loopVars, scriptVars, contextVars, draftVars>>

vars == <<desk, loopVars, scriptVars, contextVars, draftVars, filterVars>>
Spec == Init /\ [][Next]_vars /\ LoopFairness
================================================================================
