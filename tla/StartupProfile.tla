---------------------------- MODULE StartupProfile -----------------------------
(****************************************************************************)
(* The startup interview of a world (StartupProfileManager) and the          *)
(* follow-up questions compiled from it (StartupSourceService).              *)
(*                                                                          *)
(* The profile is one JSON file.  A command loads it, brings what an older   *)
(* version left up to date and saves it when that changed something, even a  *)
(* command that only reads; it changes its own copy and writes it whole: the *)
(* file is truncated first and nothing locks it.                             *)
(* Wording is left out: a free text is a member of a small set, a choice is  *)
(* the position of its label in the list of a mode.  The list of questions   *)
(* is a function of their places; only the order of the places matters.      *)
(****************************************************************************)
EXTENDS Integers, Sequences, FiniteSets

CONSTANTS
  Editors,              \* processes that run commands on the profile
  QuestionCount,        \* the questions of the current pack are 1..QuestionCount
  Minimum,              \* MINIMUM_FRAME_QUESTION_IDS
  WorldQuestions,       \* questions whose answers are world assertions
  ChoiceCount,          \* labels of a question in one mode
  Deferring,            \* <<question, mode, choice>>: choices of the pack that decide nothing
  OldProfiles,          \* profiles that other versions left, with what was given and approved
  StartupCommands,      \* bound: what the commands ask
  MaxStartupCommands,   \* bound: how many there are
  MaxStartupCrashes,    \* bound: how many of them die
  NoProfile, TornProfile, NoCommand

ASSUME StartupAssumption ==
  /\ Minimum \subseteq 1..QuestionCount /\ WorldQuestions \subseteq 1..QuestionCount
  /\ QuestionCount \in 1..199

ASSUME StartupCommandsAssumption ==
  \A c \in StartupCommands :
    /\ c.op \in {"interview", "answer", "batch", "status", "discretion", "summary", "follow_up"}
    /\ c.op = "follow_up" => /\ c.limit \in Nat /\ IsFiniteSet(DOMAIN c.sources)
                            /\ \A i \in DOMAIN c.sources : c.sources[i].id \in Nat

VARIABLES
  profile,              \* the file: absent, truncated, or what it says
  editing,              \* what each editor is doing: its command, stage and own copy
  startups,             \* bounds: commands begun, and commands that died
  answersGiven,         \* history: the answers that were given, with their meaning
  approvals             \* history: the answers that the author's approval was put on

startupVars == <<profile, editing, startups, answersGiven, approvals>>

Modes == {"startup", "easystartup"}
Resolved == {"answered_by_author", "approved_by_author"}
NoAnswer == <<"none">>

\* An item of the profile; "missing" stands for a key that older versions did not write.
Unasked(q) ==
  [q |-> q, pack |-> "neutral", status |-> "unasked", answer |-> NoAnswer, choice |-> 0,
   by |-> "nobody", minimum |-> "missing", meaning |-> "missing", mode |-> "missing",
   origin |-> "missing", preserved |-> FALSE]

FreshProfile ==
  [revision |-> 2, packId |-> "neutral", mode |-> "startup", discretion |-> 2, notes |-> <<>>,
   rounds |-> <<>>, dims |-> [q \in 1..QuestionCount |-> Unasked(q)]]

------------------------------------------------------------------------------
(* What answers mean *)

\* The label of a choice, as it is written into an answer.
Label(item, mode, c) == <<"label", item.pack, mode, c>>

\* The meaning of a choice, known for the labels of the current pack only.
OptionMeaning(item, mode, c) ==
  IF item.pack = "neutral" /\ <<item.q, mode, c>> \in Deferring THEN "deferred" ELSE "explicit"

\* _free_text_semantic_state; every undecided wording is one text here
TextMeaning(answer) == IF answer = <<"text", "undecided">> THEN "deferred" ELSE "explicit"

MeaningOf(item) == IF item.meaning # "missing" THEN item.meaning ELSE TextMeaning(item.answer)
OriginOf(by) == IF by = "author" THEN "author_direct" ELSE "agent_proposal"

\* Whose word an answer is, as the summary says.
Origin(item) == IF item.origin # "missing" THEN item.origin ELSE OriginOf(item.by)
Authority(item) ==
  IF Origin(item) = "author_direct" THEN "user_explicit"
  ELSE IF item.status = "approved_by_author" THEN "author_approved_agent_proposal"
  ELSE Origin(item)

InFrame(item) ==
  IF item.minimum = "missing" THEN item.q \in Minimum ELSE item.minimum = "yes"

------------------------------------------------------------------------------
(* Bringing a profile up to date *)

InferredMode(p, item) ==
  LET said == {m \in Modes : item.choice # 0 /\ item.answer = Label(item, m, item.choice)}
  IN IF item.mode # "missing" THEN item.mode
     ELSE IF said = {} THEN p.mode ELSE CHOOSE m \in said : TRUE

\* _ensure_answer_metadata adds what is missing, and changes nothing that is there.
WithMetadata(p, item) ==
  IF item.answer = NoAnswer THEN item
  ELSE LET mode == InferredMode(p, item)
           meaning == IF item.choice = 0 THEN TextMeaning(item.answer)
                      ELSE OptionMeaning(item, mode, item.choice)
       IN [item EXCEPT !.mode = mode,
                       !.meaning = IF @ = "missing" THEN meaning ELSE @,
                       !.origin = IF @ = "missing" THEN OriginOf(item.by) ELSE @]

WithFrame(item) ==
  [item EXCEPT !.minimum = IF @ # "missing" THEN @
                           ELSE IF item.q \in Minimum THEN "yes" ELSE "no"]

\* An old question takes the wording of the current pack, unless it was answered or
\* its own wording had been edited.
Renewed(item) ==
  IF item.status \in Resolved \/ item.answer # NoAnswer \/ item.pack # "legacy"
  THEN [item EXCEPT !.preserved = TRUE]
  ELSE [item EXCEPT !.pack = "neutral"]

\* The questions of the pack that a profile lacks are put at its end.
MissingQuestions(dims) == (1..QuestionCount) \ {dims[i].q : i \in DOMAIN dims}
LastPlace(dims) == CHOOSE n \in DOMAIN dims \cup {0} : \A i \in DOMAIN dims : i <= n

\* _ensure_profile_defaults: a command saves the profile if this changes it.
Upgraded(p) ==
  LET old == p.revision < 2
      renewed == IF old THEN [i \in DOMAIN p.dims |-> Renewed(p.dims[i])] ELSE p.dims
      missing == MissingQuestions(renewed)
      end == LastPlace(renewed)
      all == [i \in DOMAIN renewed \cup {end + q : q \in missing} |->
                IF i \in DOMAIN renewed THEN renewed[i] ELSE Unasked(i - end)]
      mixed == \E i \in DOMAIN renewed : renewed[i].preserved
  IN [p EXCEPT !.revision = 2,
               !.packId = IF ~ old THEN @ ELSE IF mixed THEN "mixed" ELSE "neutral",
               !.dims = [i \in DOMAIN all |-> WithMetadata(p, WithFrame(all[i]))]]

\* A profile that another version left has only answers that were given.  What an answer
\* meant is recorded, or can be told from its text, or from the choice and its mode.
WasGiven(item, g) ==
  /\ g.q = item.q /\ g.answer = item.answer /\ OriginOf(g.by) = Origin(item)
  /\ g.meaning \in {"explicit", "deferred"}
  /\ \/ item.meaning = g.meaning
     \/ item.meaning = "missing" /\ item.choice = 0 /\ g.meaning = TextMeaning(item.answer)
     \/ /\ item.meaning = "missing" /\ item.choice # 0
        /\ \E m \in Modes :
             /\ g.meaning = OptionMeaning(item, m, item.choice)
             /\ \/ item.mode = m
                \/ item.mode = "missing" /\ item.answer = Label(item, m, item.choice)

LeftItem(item, given, approved) ==
  /\ DOMAIN item = DOMAIN Unasked(1)
  /\ item.minimum \in {"missing", IF item.q \in Minimum THEN "yes" ELSE "no"}
  /\ item.status \in Resolved => item.answer # NoAnswer
  /\ item.status = "approved_by_author" => [q |-> item.q, answer |-> item.answer] \in approved
  /\ item.answer # NoAnswer => \E g \in given : WasGiven(item, g)

\* 200 questions are one percent each when rounded, so that one could be open unseen.
ASSUME OldProfilesAssumption ==
  \A old \in OldProfiles : LET p == old.profile IN
    /\ DOMAIN p = DOMAIN FreshProfile /\ p.revision \in {1, 2}
    /\ \E n \in 0..199 :
         DOMAIN p.dims = 1..n /\ n + Cardinality(MissingQuestions(p.dims)) < 200
    /\ \A i \in DOMAIN p.dims : LeftItem(p.dims[i], old.given, old.approved)

------------------------------------------------------------------------------
(* Commands: each takes a profile and returns the one that it would save *)

ItemsOf(p, q) == {i \in DOMAIN p.dims : p.dims[i].q = q}
ModeOf(p, mode) == IF mode = "none" THEN p.mode ELSE mode
Unresolved(p) == {i \in DOMAIN p.dims : p.dims[i].status \notin Resolved}

\* The first unresolved questions, up to the budget, are asked.
Interviewed(p, c) ==
  LET open == Unresolved(p)
      first == {i \in open : Cardinality({j \in open : j < i}) < c.budget}
      asked == {p.dims[i].q : i \in first}
      ask(item) == IF item.q \in asked /\ item.status = "unasked"
                   THEN [item EXCEPT !.status = "asked"] ELSE item
  IN [p EXCEPT !.mode = c.mode,
               !.rounds = Append(@, [mode |-> c.mode, asked |-> asked]),
               !.dims = [i \in DOMAIN @ |-> ask(@[i])]]

\* An answer, with _record_answer_metadata.
Answered(item, answer, choice, by, mode) ==
  [item EXCEPT !.answer = answer, !.choice = choice, !.by = by,
               !.status = IF by = "author" THEN "answered_by_author" ELSE "proposed_by_agent",
               !.meaning = IF choice = 0 THEN TextMeaning(answer)
                           ELSE OptionMeaning(item, mode, choice),
               !.mode = mode, !.origin = OriginOf(by)]

\* answer: a text, perhaps with a choice; answer_batch: codes of choices and a note.
\* In a batch the label of the choice is the answer, and the first code of a question counts.
Selections(c) == IF c.op = "batch" THEN c.selections ELSE <<<<c.q, c.choice>>>>

Selected(p, c) == {Selections(c)[i][1] : i \in DOMAIN Selections(c)}
ChoiceFor(c, q) ==
  LET s == Selections(c)
      at == CHOOSE i \in DOMAIN s : s[i][1] = q /\ \A j \in 1..(i - 1) : s[j][1] # q
  IN s[at][2]

AnswerTo(c, item, mode) ==
  LET choice == ChoiceFor(c, item.q)
  IN Answered(item, IF c.op = "batch" THEN Label(item, mode, choice) ELSE <<"text", c.text>>,
              choice, c.by, mode)

AnswersRecorded(p, c) ==
  LET mode == ModeOf(p, c.mode)
  IN [p EXCEPT !.mode = mode,
               !.dims = [i \in DOMAIN @ |-> IF @[i].q \in Selected(p, c)
                                            THEN AnswerTo(c, @[i], mode) ELSE @[i]],
               !.notes = IF c.op = "batch" /\ c.note # "" THEN Append(@, c.note) ELSE @]

\* set_status; approved_by_author is true exactly for the status of that name, and
\* author_approval is not read by anything.
StatusSet(p, c) ==
  [p EXCEPT !.dims = [i \in DOMAIN @ |-> IF @[i].q = c.q THEN [@[i] EXCEPT !.status = c.status]
                                         ELSE @[i]]]

DiscretionSet(p, c) == [p EXCEPT !.mode = ModeOf(p, c.mode), !.discretion = c.level]

\* A question that does not exist, a choice without a label, or a status that resolves a
\* question without an answer.
Refused(p, c) ==
  \/ /\ c.op \in {"answer", "batch"}
     /\ \E q \in Selected(p, c) : ItemsOf(p, q) = {} \/ ChoiceFor(c, q) > ChoiceCount
  \/ /\ c.op = "status"
     /\ \/ ItemsOf(p, c.q) = {}
        \/ c.status \in Resolved /\ \E i \in ItemsOf(p, c.q) : p.dims[i].answer = NoAnswer

Performed(p, c) ==
  CASE c.op = "interview" -> Interviewed(p, c)
    [] c.op \in {"answer", "batch"} -> AnswersRecorded(p, c)
    [] c.op = "status" -> StatusSet(p, c)
    [] c.op = "discretion" -> DiscretionSet(p, c)

------------------------------------------------------------------------------
(* The summary: what was decided, and what is open *)

Frame(p) == {i \in DOMAIN p.dims : InFrame(p.dims[i])}
Settled(p) == {i \in DOMAIN p.dims : p.dims[i].status \in Resolved}
Decided(p) == {i \in Settled(p) : MeaningOf(p.dims[i]) # "deferred"}

\* The role of an answer; preserved wording always spoke of the world.
Role(item) ==
  IF item.pack # "neutral" \/ item.q \in WorldQuestions THEN "world_assertion"
  ELSE "project_intent"

\* _status: all questions weigh the same, and the ambiguity is rounded to a percentage.
Readiness(p) ==
  [ready |-> Frame(p) \subseteq Decided(p),
   full |-> 200 * Cardinality(DOMAIN p.dims \ Settled(p)) <= Cardinality(DOMAIN p.dims)]

AnswerRecord(item) ==
  [q |-> item.q, answer |-> item.answer, meaning |-> MeaningOf(item), role |-> Role(item),
   authority |-> Authority(item)]

StartupSummary(p) ==
  LET named(places) == {p.dims[i].q : i \in places}
      open == DOMAIN p.dims \ Settled(p)
      answers == {AnswerRecord(p.dims[i]) : i \in Settled(p)}
  IN [ready |-> Readiness(p).ready, full |-> Readiness(p).full,
      answers |-> answers,
      assertions |-> {a.q : a \in {b \in answers : b.role = "world_assertion"
                                                  /\ b.meaning = "explicit"}},
      unresolved |-> named(open),
      blockers |-> named((open \cup (Settled(p) \ Decided(p))) \cap Frame(p)),
      optional |-> named((open \cup (Settled(p) \ Decided(p))) \ Frame(p))]

------------------------------------------------------------------------------
(* Follow-up questions from the sources that the author names *)

\* A source: its fields, text and claims.  A claim is listed under a group or none; it has
\* a status or none, may be marked open, and may name a question (0: none).
GroupKind ==
  [none |-> "explicit", known |-> "explicit", candidates |-> "candidate", open |-> "unresolved"]
StatusKind ==
  [canon |-> "explicit", proposed |-> "candidate", unknown |-> "unresolved"]
ClaimKind(c) ==
  IF c.open THEN "unresolved"
  ELSE IF c.status # "none" THEN StatusKind[c.status] ELSE GroupKind[c.group]

\* The user supplied or approved it.
Vouched(s) == s.provenance \in {"user_supplied", "author_approved"}

\* _filter_source_records, before duplicates are looked for
Private(s) == s.type = "user_memory" \/ s.memoryKey
Acceptable(s) ==
  /\ ~ Private(s)
  /\ s.named
  /\ s.world = "this"
  /\ s.type = "notes"
  /\ s.excerpt \/ s.claims # <<>>
  /\ Vouched(s)

\* A faulty filter, for the checks to reject: of the records with one id the first is taken.
AcceptedFirst(sources) ==
  {i \in DOMAIN sources :
     /\ Acceptable(sources[i])
     /\ \A j \in 1..(i - 1) : Acceptable(sources[j]) => sources[j].id # sources[i].id}

\* Records that share an id are all left out.
Accepted(sources) ==
  {i \in DOMAIN sources :
     /\ Acceptable(sources[i])
     /\ \A j \in DOMAIN sources \ {i} : Acceptable(sources[j]) => sources[j].id # sources[i].id}

\* The claims of a source that say something, and the first of them in the order of
\* kind, dimension and position.
Claims(s) == {n \in DOMAIN s.claims : s.claims[n].text}
KindRank == [unresolved |-> 0, candidate |-> 1, explicit |-> 2]
ClaimBefore(s, m, n) ==
  LET rank(k) == <<KindRank[ClaimKind(s.claims[k])], s.claims[k].dim, k>>
      a == rank(m)
      b == rank(n)
  IN a[1] < b[1] \/ (a[1] = b[1] /\ (a[2] < b[2] \/ (a[2] = b[2] /\ a[3] <= b[3])))
Anchor(s) == CHOOSE n \in Claims(s) : \A m \in Claims(s) : ClaimBefore(s, n, m)

QuestionType(s, unknown) ==
  IF Claims(s) = {} THEN "classify_source_excerpt"
  ELSE LET c == s.claims[Anchor(s)] IN
       CASE ClaimKind(c) = "unresolved" -> "resolve_source_unknown"
         [] ClaimKind(c) = "candidate" -> "review_source_candidate"
         [] ClaimKind(c) = "explicit" /\ c.dim \in unknown -> "resolve_startup_unknown"
         [] OTHER -> "bound_explicit_source_claim"

\* _compile_questions looks at the first sources only, in the order of their ids.
Asking(sources, limit) ==
  {i \in Accepted(sources) :
     /\ Cardinality({j \in Accepted(sources) : sources[j].id < sources[i].id}) < limit
     /\ Claims(sources[i]) # {} \/ sources[i].excerpt}

ClaimsOfKind(sources, kind) ==
  {c \in UNION {{i} \X Claims(sources[i]) : i \in Accepted(sources)} :
     ClaimKind(sources[c[1]].claims[c[2]]) = kind}

Artifact(open, sources, asking) ==
  IF ~ open THEN "blocked_on_minimum_frame"
  ELSE IF Accepted(sources) = {} THEN "waiting_for_explicit_current_world_source"
  ELSE IF asking # {} THEN "after_follow_up_review" ELSE "ready_for_review"

\* StartupSourceService.compile
Compiled(summary, sources, limit) ==
  LET open == summary.ready /\ summary.blockers = {}
      asking == IF open THEN Asking(sources, limit) ELSE {}
  IN [questions |-> {[source |-> i, type |-> QuestionType(sources[i], summary.optional)] :
                       i \in asking},
      asserted |-> summary.assertions,
      known |-> ClaimsOfKind(sources, "explicit"),
      candidates |-> ClaimsOfKind(sources, "candidate"),
      unknowns |-> ClaimsOfKind(sources, "unresolved"),
      artifact |-> Artifact(open, sources, asking)]

------------------------------------------------------------------------------
(* Processes *)

Reading == {"summary", "follow_up"}

StartupInit ==
  /\ \/ profile = NoProfile /\ answersGiven = {} /\ approvals = {}
     \/ \E old \in OldProfiles :
          profile = old.profile /\ answersGiven = old.given /\ approvals = old.approved
  /\ editing = [e \in Editors |-> NoCommand]
  /\ startups = [begun |-> 0, died |-> 0]

Now(e, stage, copy) == editing' = [editing EXCEPT ![e].stage = stage, ![e].copy = copy]
Ended(e) == editing' = [editing EXCEPT ![e] = NoCommand]

\* load_or_create up to its save.  A truncated file is not JSON: the command fails.  One that
\* finds the update lock does not get here, unless it is a follow-up, which does not look.
LoadProfile(e) ==
  /\ editing[e] = NoCommand /\ startups.begun < MaxStartupCommands
  /\ profile # TornProfile
  /\ LET loaded == IF profile = NoProfile THEN FreshProfile ELSE Upgraded(profile)
     IN \E c \in StartupCommands :
          editing' = [editing EXCEPT ![e] = [command |-> c, copy |-> loaded,
                                     stage |-> IF loaded # profile THEN "outdated" ELSE "ready"]]
  /\ startups' = [startups EXCEPT !.begun = @ + 1]
  /\ UNCHANGED <<profile, answersGiven, approvals>>

\* write_text opens the file, which truncates it, and then writes.
OpenUpgrade(e) ==
  /\ editing[e] # NoCommand /\ editing[e].stage = "outdated"
  /\ profile' = TornProfile
  /\ Now(e, "upgrading", editing[e].copy)
  /\ UNCHANGED <<startups, answersGiven, approvals>>

\* The command changes its copy and begins to save it.
OpenSave(e) ==
  /\ editing[e] # NoCommand /\ editing[e].stage = "ready" /\ editing[e].command.op \notin Reading
  /\ ~ Refused(editing[e].copy, editing[e].command)
  /\ LET c == editing[e].command
         changed == Performed(editing[e].copy, c)
         touched == CASE c.op = "status" -> {c.q}
                     [] c.op \in {"answer", "batch"} -> Selected(changed, c)
                     [] OTHER -> {}
         items == {changed.dims[i] : i \in UNION {ItemsOf(changed, q) : q \in touched}}
     IN /\ profile' = TornProfile
        /\ Now(e, "saving", changed)
        /\ answersGiven' =
             answersGiven \cup
               {[q |-> item.q, answer |-> item.answer, meaning |-> item.meaning, by |-> c.by] :
                  item \in IF c.op \in {"answer", "batch"} THEN items ELSE {}}
        /\ approvals' =
             approvals \cup
               {[q |-> item.q, answer |-> item.answer] :
                  item \in IF c.op = "status" /\ c.status = "approved_by_author" THEN items ELSE {}}
  /\ UNCHANGED startups

WriteUpgrade(e) ==
  /\ editing[e] # NoCommand /\ editing[e].stage = "upgrading"
  /\ profile' = editing[e].copy
  /\ Now(e, "ready", editing[e].copy)
  /\ UNCHANGED <<startups, answersGiven, approvals>>

WriteProfile(e) ==
  /\ editing[e] # NoCommand /\ editing[e].stage = "saving"
  /\ profile' = editing[e].copy
  /\ Ended(e)
  /\ UNCHANGED <<startups, answersGiven, approvals>>

\* A reader tells what its copy says; a refused command saves nothing more.
EndCommand(e) ==
  /\ editing[e] # NoCommand /\ editing[e].stage = "ready"
  /\ editing[e].command.op \in Reading \/ Refused(editing[e].copy, editing[e].command)
  /\ Ended(e)
  /\ UNCHANGED <<profile, startups, answersGiven, approvals>>

StartupCrash(e) ==
  /\ editing[e] # NoCommand /\ startups.died < MaxStartupCrashes
  /\ Ended(e)
  /\ startups' = [startups EXCEPT !.died = @ + 1]
  /\ UNCHANGED <<profile, answersGiven, approvals>>

StartupNext ==
  \E e \in Editors :
    \/ LoadProfile(e) \/ OpenUpgrade(e) \/ OpenSave(e) \/ WriteUpgrade(e) \/ WriteProfile(e)
    \/ EndCommand(e) \/ StartupCrash(e)

StartupSpec == StartupInit /\ [][StartupNext]_startupVars

------------------------------------------------------------------------------
(* Properties *)

\* What a command would tell: from the file, or from the copy of one that is reading.
Prepared == {e \in Editors : editing[e] # NoCommand /\ editing[e].stage = "ready"}
StartupTold ==
  (IF profile \in {NoProfile, TornProfile} THEN {} ELSE {Upgraded(profile)})
  \cup {editing[e].copy : e \in Prepared}

\* However commands overlap and versions change, an answer that the summary calls the
\* author's own is one that the author gave to that question, one that it calls approved
\* is one the author's approval was put on, and the minimum frame is called ready only
\* when each of its questions has an answer that decided something when it was given.
SummaryIsTrue ==
  \A p \in StartupTold : LET summary == StartupSummary(p) IN
    /\ \A a \in summary.answers :
         /\ a.authority = "user_explicit" =>
              \E g \in answersGiven : g.q = a.q /\ g.answer = a.answer /\ g.by = "author"
         /\ a.authority = "author_approved_agent_proposal" =>
              [q |-> a.q, answer |-> a.answer] \in approvals
    /\ summary.ready =>
         \A q \in Minimum : \E a \in summary.answers, g \in answersGiven :
           a.q = q /\ g.q = q /\ g.answer = a.answer /\ g.meaning = "explicit"
    /\ summary.ready <=> summary.blockers = {}
    /\ summary.full <=> summary.unresolved = {}

\* Follow-up questions wait for the minimum frame; each rests on a record that the user
\* supplied for this world and that alone bears its id, and what a source leaves open is
\* neither dropped nor told as known.
FollowUpsAreGrounded ==
  \A e \in Prepared :
    editing[e].command.op = "follow_up" =>
      LET sources == editing[e].command.sources
          told == Compiled(StartupSummary(editing[e].copy), sources, editing[e].command.limit)
          usable == {i \in DOMAIN sources : Acceptable(sources[i])}
          sole == {i \in usable : \A j \in usable : sources[j].id = sources[i].id => j = i}
      IN /\ told.questions # {} => StartupSummary(editing[e].copy).ready
         /\ Cardinality(told.questions) <= editing[e].command.limit
         /\ \A question \in told.questions : question.source \in sole
         /\ \A i \in sole : \A n \in Claims(sources[i]) :
              /\ sources[i].claims[n].open => <<i, n>> \in told.unknowns
              /\ <<i, n>> \in told.known => ~ sources[i].claims[n].open

\* What an author is told of the profile, and asked because of it, rests on what was
\* really answered and supplied (progress_summary, source_followup).
StartupIsHonest == SummaryIsTrue /\ FollowUpsAreGrounded
================================================================================
