----------------------------- MODULE Gatherings ------------------------------
(****************************************************************************)
(* A meeting or a mock scene: one command plays it, and writes sessions,     *)
(* messages, files, rows of the world and a report one after the other, and  *)
(* last a marker that it is complete.  The command may die between any two.  *)
(* As soon as a meeting has its report, authors may decide on it.            *)
(*                                                                          *)
(* What the seats say is left out.  A decision has no note, so that equal    *)
(* decisions have one diagnostic log.                                       *)
(****************************************************************************)
EXTENDS Reports, Messages, Integers

CONSTANTS
  Minutes,              \* the report's id
  Deciders,             \* commands that may decide at once
  MaxSeats,             \* bound: participants or actors
  MaxDecisions          \* bound: decisions begun

ASSUME MinutesAssumption == Minutes \in ReportIds /\ MaxSeats \in Nat

VARIABLES
  gathering,            \* [kind, seats]
  next,                 \* the place in its agenda of the command that plays it
  playing,              \* whether that command lives
  written,              \* the files in its directory
  records,              \* what was written to the world: actors, scene, event, commit, ticket
  decisions,            \* the decisions in diagnostic_logs
  candidates,           \* tickets made of the meeting
  deciding,             \* what each deciding command is at
  begun,                \* decisions begun
  last,                 \* the decision that was the last to write the report
  tangled               \* whether decisions overlapped, or one died or overlapped the meeting

decisionVars == <<decisions, candidates, deciding, begun, last, tangled>>
playVars == <<gathering, next, playing, written, records>>
gatheringVars == <<mailbox, transport, playVars, decisionVars>>

------------------------------------------------------------------------------
(* The agenda *)

Manager == 0
Seats == 1..gathering.seats

Do(op) == <<[op |-> op, session |-> Manager, what |-> "none"]>>
File(name) == <<[op |-> "file", session |-> Manager, what |-> name]>>
Open(s) == <<[op |-> "session", session |-> s, what |-> "none"]>>
\* send: the row, then the envelope.
Send(s, what) ==
  <<[op |-> "row", session |-> s, what |-> what], [op |-> "envelope", session |-> s, what |-> what]>>
\* Each seat in turn: its session, what it is told, what it answers.  These are five items.
SeatItems(s, told, answer) == Open(s) \o Send(s, told) \o Send(s, answer)
EachSeat(told, answer) ==
  [k \in 1..(5 * gathering.seats) |->
     SeatItems((k + 4) \div 5, told, answer)[((k - 1) % 5) + 1]]
EachActor == [s \in Seats |-> [op |-> "actor", session |-> Manager, what |-> "none"]]
FileReport == Do("report") \o Do("render") \o Do("name")

MeetingAgenda ==
  Open(Manager) \o Send(Manager, "agenda")
    \o EachSeat("agenda", "contribution")
    \o File("transcript") \o FileReport \o Send(Manager, "summary") \o File("marker")

\* A faulty scene, for the checks to reject: its receipt is written too late.
SceneUnprepared ==
  EachActor \o Do("scene")
    \o Open(Manager) \o Send(Manager, "assignment") \o File("receipt")
    \o EachSeat("context", "proposal")
    \o Do("event") \o Do("commit") \o File("progress") \o Send(Manager, "progress")
    \o Do("ticket") \o Send(Manager, "packet")
    \o FileReport \o Send(Manager, "final") \o File("marker")

SceneAgenda ==
  EachActor \o Do("scene") \o File("receipt")
    \o Open(Manager) \o Send(Manager, "assignment")
    \o EachSeat("context", "proposal")
    \o Do("event") \o Do("commit") \o File("progress") \o Send(Manager, "progress")
    \o Do("ticket") \o Send(Manager, "packet")
    \o FileReport \o Send(Manager, "final") \o File("marker")

Agenda == IF gathering.kind = "meeting" THEN MeetingAgenda ELSE SceneAgenda

------------------------------------------------------------------------------
(* Playing it *)

Step(op) ==
  /\ playing /\ next <= Len(Agenda) /\ Agenda[next].op = op
  /\ next' = next + 1
  /\ UNCHANGED <<gathering, playing>>
Here == Agenda[next]

OpenSession ==
  /\ Step("session") /\ StartSession(Here.session)
  /\ UNCHANGED <<mailbox, written, records, decisionVars>>

\* add_runtime_message: nobody else sends in these sessions.
Post ==
  /\ Step("row")
  /\ InsertMessage(Here.session, Here.what, NextSequence(Here.session), Len(messages))
  /\ UNCHANGED <<mailbox, written, records, decisionVars>>

Envelop ==
  /\ Step("envelope") /\ WriteEnvelope(Len(messages))
  /\ UNCHANGED <<mailbox, written, records, decisionVars>>

WriteFile ==
  /\ Step("file")
  /\ written' = written \cup {Here.what}
  /\ UNCHANGED <<mailbox, transport, records, decisionVars>>

\* create_entity, create_scene, add_scene_event, append_commit, create_pr_packet: a
\* transaction each.
Record ==
  /\ \E op \in {"actor", "scene", "event", "commit", "ticket"} :
       Step(op) /\ records' = records \cup {op}
  /\ UNCHANGED <<mailbox, transport, written, decisionVars>>

\* create_world_report
Report ==
  /\ \/ Step("report") /\ InsertReport(Minutes, "inbox")
     \/ Step("render") /\ RenderReport(Minutes, "inbox")
     \/ Step("name") /\ UpdateReport(Minutes, "inbox", "inbox")
  /\ UNCHANGED <<transport, written, records, decisionVars>>

\* The command dies, or append_commit fails because another command took its number.
PlayDies ==
  /\ playing /\ next <= Len(Agenda)
  /\ playing' = FALSE
  /\ UNCHANGED <<mailbox, transport, gathering, next, written, records, decisionVars>>

------------------------------------------------------------------------------
(* Deciding *)

StatusOf == [approve |-> "approved", retry |-> "rejected", hold |-> "pending_review"]
NotDeciding == [at |-> "none", decision |-> "none", old |-> "none"]
Decides(p) == deciding[p] # NotDeciding
DecidingAt(p, place) == deciding[p].at = place
Proceed(p, place) == deciding' = [deciding EXCEPT ![p].at = place]
Finish(p) == deciding' = [deciding EXCEPT ![p] = NotDeciding]
Named == next > 1 + CHOOSE i \in DOMAIN Agenda : Agenda[i].op = "render"

\* decide_report as far as get_report of transition_report.
DecideMeeting(p, d) ==
  /\ gathering.kind = "meeting" /\ Reported(Minutes)
  /\ ~Decides(p) /\ begun < MaxDecisions
  /\ begun' = begun + 1
  /\ deciding' = [deciding EXCEPT ![p] =
                    [at |-> "render", decision |-> d, old |-> reports[Minutes].artifact]]
  /\ tangled' = (tangled \/ ~Named \/ \E q \in Deciders : Decides(q))
  /\ UNCHANGED <<mailbox, transport, playVars, decisions, candidates, last>>

RenderDecision(p) ==
  /\ DecidingAt(p, "render") /\ Proceed(p, "unlink")
  /\ RenderReport(Minutes, StatusOf[deciding[p].decision])
  /\ UNCHANGED <<transport, playVars, decisions, candidates, begun, last, tangled>>

UnlinkUndecided(p) ==
  /\ DecidingAt(p, "unlink") /\ Proceed(p, "update")
  /\ RemoveArtifact(Minutes, deciding[p].old, StatusOf[deciding[p].decision])
  /\ UNCHANGED <<transport, playVars, decisions, candidates, begun, last, tangled>>

MoveDecided(p) ==
  LET d == deciding[p].decision IN
  /\ DecidingAt(p, "update") /\ Proceed(p, "log")
  /\ UpdateReport(Minutes, StatusOf[d], StatusOf[d])
  /\ last' = d
  /\ UNCHANGED <<transport, playVars, decisions, candidates, begun, tangled>>

\* A faulty decision, for the checks to reject: it is not logged.
LeaveUnlogged(p) ==
  /\ DecidingAt(p, "log")
  /\ IF deciding[p].decision = "approve" THEN Proceed(p, "ticket") ELSE Finish(p)
  /\ UNCHANGED <<mailbox, transport, playVars, decisions, candidates, begun, last, tangled>>

\* create_diagnostic_log, once for what has one fingerprint.
LogDecision(p) ==
  /\ DecidingAt(p, "log")
  /\ decisions' = decisions \cup {deciding[p].decision}
  /\ IF deciding[p].decision = "approve" THEN Proceed(p, "ticket") ELSE Finish(p)
  /\ UNCHANGED <<mailbox, transport, playVars, candidates, begun, last, tangled>>

CreateCandidate(p) ==
  /\ DecidingAt(p, "ticket") /\ Proceed(p, "commit")
  /\ candidates' = candidates + 1
  /\ UNCHANGED <<mailbox, transport, playVars, decisions, begun, last, tangled>>

\* append_commit, or its failure: the command ends either way.
EndDecision(p) ==
  /\ DecidingAt(p, "commit") /\ Finish(p)
  /\ UNCHANGED <<mailbox, transport, playVars, decisions, candidates, begun, last, tangled>>

DecisionDies(p) ==
  /\ Decides(p) /\ ~DecidingAt(p, "commit") /\ Finish(p)
  /\ tangled' = TRUE
  /\ UNCHANGED <<mailbox, transport, playVars, decisions, candidates, begun, last>>

------------------------------------------------------------------------------
GatheringInit ==
  /\ gathering \in [kind : {"meeting", "scene"}, seats : 1..MaxSeats]
  /\ next = 1 /\ playing = TRUE
  /\ written = {} /\ records = {}
  /\ decisions = {} /\ candidates = 0
  /\ deciding = [p \in Deciders |-> NotDeciding]
  /\ begun = 0 /\ last = "none" /\ tangled = FALSE
  /\ MailboxInit /\ TransportInit

Play == OpenSession \/ Post \/ Envelop \/ WriteFile \/ Record \/ Report
Decision(p) ==
  \/ \E d \in DOMAIN StatusOf : DecideMeeting(p, d)
  \/ RenderDecision(p) \/ UnlinkUndecided(p) \/ MoveDecided(p)
  \/ LogDecision(p) \/ CreateCandidate(p) \/ EndDecision(p) \/ DecisionDies(p)

GatheringNext == Play \/ PlayDies \/ \E p \in Deciders : Decision(p)
GatheringSpec == GatheringInit /\ [][GatheringNext]_gatheringVars

------------------------------------------------------------------------------
(* Properties *)

Complete == "marker" \in written
SeatAnswered(s) == \E m \in Range(messages) : m.session = s /\ m.about \in {"contribution", "proposal"}

\* What is marked complete has all there is to it: every seat has answered, every
\* message has its envelope, and the report is there.
CompleteIsWhole ==
  Complete =>
    /\ \A s \in Seats : SeatAnswered(s)
    /\ DOMAIN messages \subseteq envelopes
    /\ Reported(Minutes)
    /\ (gathering.kind = "scene" => records = {"actor", "scene", "event", "commit", "ticket"})

\* Diagnosis asks of each scene directory whether it has files and no marker.  Wherever
\* the command died, a scene that left a message, an event, a ticket or a report has
\* one (_unfinished_scene_findings).
UnfinishedIsFound ==
  gathering.kind = "scene" /\ ~Complete /\
    (messages # <<>> \/ records \ {"actor", "scene"} # {} \/ Reported(Minutes)) => written # {}

\* No meeting yields a ticket without an approval in the log, whatever decisions
\* overlapped; and if none did, the report, its file and the log say what was decided
\* last (decide_report, whose four writes are apart).
DecisionsAreKept ==
  /\ candidates > 0 => "approve" \in decisions
  /\ ~tangled /\ last # "none" /\ (\A p \in Deciders : ~Decides(p)) =>
       /\ reports[Minutes] = [status |-> StatusOf[last], artifact |-> StatusOf[last]]
       /\ {s \in MailboxStates : <<Minutes, s>> \in files} = {StatusOf[last]}
       /\ last \in decisions

\* What a meeting or a mock scene writes piece by piece, and what is decided on it, can
\* be found again: whole if it is marked so, and a scene is diagnosed if it is not, a
\* meeting is only unmarked (run_meeting, run_mock_scene, decide_report).
GatheringsAreRecorded == CompleteIsWhole /\ UnfinishedIsFound /\ DecisionsAreKept
==============================================================================
