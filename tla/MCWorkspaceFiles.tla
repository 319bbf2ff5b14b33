--------------------------- MODULE MCWorkspaceFiles ---------------------------
(****************************************************************************)
(* Five components that keep files, or files and rows, in step, checked by   *)
(* one run.  The runtime's task files, bulk rejection, maintenance, the      *)
(* startup interview and meetings and scenes are not used together, and they *)
(* share only the report mailbox and the messages: "desk" says which of them *)
(* is at work, and the others stay as they are.                              *)
(* The constants are in the .cfg file.                                       *)
(****************************************************************************)
EXTENDS HermesTasks, ReviewCleanup, Maintenance, StartupProfile, Gatherings, TLC

CONSTANTS p1, p2, t1, s1, a1, a2, f1, w1, b1, b2, d1, control

VARIABLE desk

\* Commands; callback files and runs; time stamps.
WorkspaceSymmetry == Permutations(Procs) \cup Permutations(Callbacks) \cup Permutations(Stamps)

MCReportIds == {<<t1, 1>>, <<t1, 2>>}
MCSayings ==
  {[parses |-> TRUE, world |-> "this", run |-> run, id |-> "some"] : run \in {"some", "none"}}

\* Profiles left by other versions: one with the old wording, answered in part, and one
\* without a record of what its answers meant.
Said(q, answer, meaning, by) == [q |-> q, answer |-> answer, meaning |-> meaning, by |-> by]
Old(q, pack, status, answer, choice, by) ==
  [Unasked(q) EXCEPT !.pack = pack, !.status = status, !.answer = answer, !.choice = choice,
                     !.by = by]
MCDeferring == {<<1, "easystartup", 2>>}
MCOldProfiles ==
  LET idea == <<"text", "idea">>
      deferring == <<"label", "neutral", "easystartup", 2>>
  IN {[profile |-> [FreshProfile EXCEPT
                      !.revision = 1, !.packId = "legacy",
                      !.dims = <<Old(2, "custom", "asked", NoAnswer, 0, "nobody"),
                                 Old(1, "legacy", "proposed_by_agent", idea, 0, "agent")>>],
       given |-> {Said(1, idea, "explicit", "agent")}, approved |-> {}],
      [profile |-> [FreshProfile EXCEPT
                      !.dims = <<Old(1, "neutral", "answered_by_author", deferring, 2, "author")>>],
       given |-> {Said(1, deferring, "deferred", "author")}, approved |-> {}]}

\* Sources: usable ones of which two share an id, and ones of another world, of memory
\* and of unknown origin.
Source == [id |-> 1, named |-> TRUE, world |-> "this", type |-> "notes", memoryKey |-> FALSE,
           excerpt |-> TRUE, claims |-> <<>>, provenance |-> "user_supplied"]
Claim(group, state, open, dim) ==
  [group |-> group, status |-> state, open |-> open, dim |-> dim, text |-> TRUE]
MCSourceLists ==
  {<<Source, [Source EXCEPT !.id = 2,
                            !.claims = <<Claim("known", "none", FALSE, 2), Claim("none", "canon", TRUE, 0)>>]>>,
   <<[Source EXCEPT !.claims = <<Claim("none", "none", FALSE, 2)>>], Source,
     [Source EXCEPT !.id = 3, !.claims = <<Claim("candidates", "none", FALSE, 1)>>],
     [Source EXCEPT !.id = 4, !.excerpt = FALSE, !.claims = <<Claim("known", "unknown", FALSE, 0)>>]>>,
   <<[Source EXCEPT !.world = "other"], Source, [Source EXCEPT !.id = 2, !.type = "user_memory"],
     [Source EXCEPT !.id = 3, !.provenance = "unknown"]>>}

Typed(q, text, choice, by, mode) ==
  [op |-> "answer", q |-> q, text |-> text, choice |-> choice, by |-> by, mode |-> mode]
Codes(selections, note, mode) ==
  [op |-> "batch", selections |-> selections, note |-> note, by |-> "author", mode |-> mode]
MCStartupCommands ==
  {[op |-> "interview", budget |-> 1, mode |-> "easystartup"],
   Typed(1, "idea", 0, "agent", "none"), Typed(1, "undecided", 0, "author", "startup"),
   Typed(1, "idea", 2, "author", "easystartup"),
   Codes(<<<<1, 2>>, <<2, 1>>, <<1, 1>>>>, "a note", "none"),
   Codes(<<<<1, 1>>, <<9, 1>>>>, "", "startup"),
   [op |-> "status", q |-> 1, status |-> "approved_by_author"],
   [op |-> "status", q |-> 1, status |-> "answered_by_author"],
   [op |-> "discretion", level |-> 5, mode |-> "easystartup"],
   [op |-> "summary"]}
  \cup {[op |-> "follow_up", sources |-> sources, limit |-> 2] : sources \in MCSourceLists}

\* shaky: the reports that others move.
NoCleanup(moved) ==
  /\ RunsLeft /\ shaky = moved
  /\ legacy = {}
  /\ \A c \in Residue : residue[c].said.run = "some"
NoMaintenance ==
  /\ MaintenanceInit
  /\ registered = {}
  /\ \A s \in Stores : version[s] = Absent
NoStartup == StartupInit /\ profile = NoProfile
MCMinutes == <<t1, 1>>
NoGathering ==
  /\ gathering = [kind |-> "meeting", seats |-> 1]
  /\ next = 1 /\ playing = FALSE
  /\ written = {} /\ records = {}
  /\ decisions = {} /\ candidates = 0
  /\ deciding = [p \in Deciders |-> NotDeciding]
  /\ begun = 0 /\ last = "none" /\ tangled = FALSE

Init ==
  \/ desk = "hermes" /\ HermesInit /\ NoCleanup({}) /\ NoMaintenance /\ NoStartup /\ NoGathering
  \/ desk = "cleanup" /\ CleanupInit /\ NoHermes /\ NoMaintenance /\ NoStartup /\ NoGathering
  \/ desk = "maintenance" /\ MaintenanceInit /\ MailboxInit
     /\ NoHermes /\ NoCleanup({}) /\ NoStartup /\ NoGathering
  \/ desk = "startup" /\ StartupInit /\ MailboxInit
     /\ NoHermes /\ NoCleanup({}) /\ NoMaintenance /\ NoGathering
  \/ desk = "gathering" /\ GatheringInit /\ NoHermes /\ NoCleanup({Minutes}) /\ NoMaintenance /\ NoStartup

hermesOwn == <<packets, callbackFiles, call, ghosts>>
cleanupOwn == <<cleanupRows, residue, auditVars, work, given, shaky>>
gatheringOwn == <<playVars, decisionVars>>

Next ==
  /\ UNCHANGED desk
  /\ \/ desk = "hermes" /\ HermesNext
        /\ UNCHANGED <<cleanupOwn, maintenanceVars, startupVars, gatheringOwn>>
     \/ desk = "cleanup" /\ CleanupNext
        /\ UNCHANGED <<transport, hermesOwn, maintenanceVars, startupVars, gatheringOwn>>
     \/ desk = "maintenance" /\ MaintenanceNext
        /\ UNCHANGED <<mailbox, transport, hermesOwn, cleanupOwn, startupVars, gatheringOwn>>
     \/ desk = "startup" /\ StartupNext
        /\ UNCHANGED <<mailbox, transport, hermesOwn, cleanupOwn, maintenanceVars, gatheringOwn>>
     \/ desk = "gathering" /\ GatheringNext
        /\ UNCHANGED <<hermesOwn, cleanupOwn, maintenanceVars, startupVars>>

Spec ==
  Init /\ [][Next]_<<desk, mailbox, transport, hermesOwn, cleanupOwn, maintenanceVars,
                     startupVars, gatheringOwn>>
==============================================================================
