---------------------------- MODULE ReviewCleanup -----------------------------
(****************************************************************************)
(* Bulk rejection of what waits for an author's review, beside the commands  *)
(* that move one report or one run.  It lists the reports and moves each,    *)
(* lists the runs and saves each, may archive left-over callback files one   *)
(* by one, and last writes an audit of what it did.  Nothing spans the whole *)
(* of it, and an error anywhere ends it without an audit.                    *)
(****************************************************************************)
EXTENDS Reports, RunStates, Naturals

CONSTANTS
  CleanupRuns,          \* orchestrator runs of the world
  Residue,              \* files in hermes/callbacks
  Sayings,              \* bound: what they may say
  Cleaners,             \* commands of the CLI that may run at once
  Moves,                \* bound: statuses that an author moves a report to
  SavedStatuses,        \* bound: statuses that another command saves
  MaxCleanups           \* bound: commands given

ASSUME MovesAssumption == Moves \subseteq MailboxStates

VARIABLES
  rows,                 \* workflow_runs: revision, status, and who wrote it
  legacy,               \* runs that only have a run.json
  residue,              \* where each callback file is, and what it says
  audits,               \* the audit files
  failed, died,         \* what commands changed that ended without an audit
  work,                 \* what each command is doing
  given,                \* how many commands were given
  shaky                 \* reports with transitions that overlapped or died

cleanupRows == <<rows, legacy>>
auditVars == <<audits, failed, died>>
cleanupVars == <<mailbox, cleanupRows, residue, auditVars, work, given, shaky>>

Pending == {"inbox", "pending_review"}
Revised(r, status, by) ==
  rows' = [rows EXCEPT ![r] = [revision |-> @.revision + 1, status |-> status, by |-> by]]
CallbackClasses == {"malformed", "unbound", "different_world", "world_scoped"}

Resting ==
  [op |-> "none", at |-> "none", todo |-> {}, report |-> NoReport, to |-> "inbox",
   old |-> "none", listed |-> {}, moved |-> {}, rejected |-> {}, archived |-> {}]
Working(p) == work[p].op # "none"
Stands(p, place) == Working(p) /\ work[p].at = place
Rest(p) == work' = [work EXCEPT ![p] = Resting]
Touches(p, r) == Working(p) /\ work[p].report = r
Bulk(p) == Working(p) /\ work[p].op # "move"

\* What a command that rejects or archives in bulk will write in its audit.
Account(p) ==
  [op |-> work[p].op, reports |-> work[p].moved, runs |-> work[p].rejected,
   files |-> work[p].archived]
\* An error ends the command: nothing is undone, and no audit is written.
Fails(p, account) ==
  /\ failed' = failed \cup {account}
  /\ Rest(p)
  /\ UNCHANGED <<audits, died>>

\* reject_pending_review: the reports it will move, by one SELECT.
ListPending == {r \in ReportIds : Reported(r) /\ reports[r].status \in Pending}

Give(p, w) ==
  /\ ~Working(p) /\ given < MaxCleanups
  /\ given' = given + 1
  /\ work' = [work EXCEPT ![p] = w]

------------------------------------------------------------------------------
(* Commands *)

RejectPending(p, archive) ==
  /\ Give(p, [Resting EXCEPT !.op = IF archive THEN "reject_and_archive" ELSE "reject",
                             !.at = "next_report", !.todo = ListPending, !.to = "rejected"])
  /\ UNCHANGED <<mailbox, cleanupRows, residue, auditVars, shaky>>

ArchiveResidue(p) ==
  /\ Give(p, [Resting EXCEPT !.op = "archive", !.at = "scan"])
  /\ UNCHANGED <<mailbox, cleanupRows, residue, auditVars, shaky>>

\* transition_report, for an author who decides one report.
MoveReport(p, r, to) ==
  /\ Reported(r)
  /\ Give(p, [Resting EXCEPT !.op = "move", !.at = "next_report", !.todo = {r}, !.to = to])
  /\ UNCHANGED <<mailbox, cleanupRows, residue, auditVars, shaky>>

\* Any other command saves a run: a decision, an interruption, its resumption.
SaveElsewhere(r, status) ==
  /\ rows[r].revision > 0 /\ given < MaxCleanups
  /\ given' = given + 1
  /\ status # rows[r].status /\ Permits(rows[r].status, status)
  /\ Revised(r, status, "other")
  /\ UNCHANGED <<mailbox, legacy, residue, auditVars, work, shaky>>

------------------------------------------------------------------------------
(* transition_report, for both *)

\* get_report: the artifact the row names now.
ReadReport(p, r) ==
  /\ Stands(p, "next_report") /\ r \in work[p].todo
  /\ work' = [work EXCEPT ![p].at = "render", ![p].report = r,
                          ![p].old = reports[r].artifact, ![p].todo = @ \ {r}]
  /\ shaky' = IF \E q \in Cleaners \ {p} : Touches(q, r) THEN shaky \cup {r} ELSE shaky
  /\ UNCHANGED <<mailbox, cleanupRows, residue, auditVars, given>>

RenderMoved(p) ==
  /\ Stands(p, "render")
  /\ RenderReport(work[p].report, work[p].to)
  /\ work' = [work EXCEPT ![p].at = "unlink"]
  /\ UNCHANGED <<cleanupRows, residue, auditVars, given, shaky>>

UnlinkOld(p) ==
  /\ Stands(p, "unlink")
  /\ RemoveArtifact(work[p].report, work[p].old, work[p].to)
  /\ work' = [work EXCEPT ![p].at = "update"]
  /\ UNCHANGED <<cleanupRows, residue, auditVars, given, shaky>>

UpdateMoved(p) ==
  /\ Stands(p, "update")
  /\ UpdateReport(work[p].report, work[p].to, work[p].to)
  /\ work' = [work EXCEPT ![p].at = "next_report", ![p].report = NoReport,
                          ![p].moved = @ \cup {work[p].report}]
  /\ UNCHANGED <<cleanupRows, residue, auditVars, given, shaky>>

MoveDone(p) ==
  /\ Stands(p, "next_report") /\ work[p].op = "move" /\ work[p].todo = {}
  /\ Rest(p)
  /\ UNCHANGED <<mailbox, cleanupRows, residue, auditVars, given, shaky>>

------------------------------------------------------------------------------
(* The runs *)

\* _list_orchestrator_runs: runs that only have a run.json are registered first.
ListRuns(p) ==
  /\ Stands(p, "next_report") /\ work[p].op # "move" /\ work[p].todo = {}
  /\ legacy' = {}
  /\ rows' = [r \in CleanupRuns |->
                IF r \in legacy THEN [rows[r] EXCEPT !.revision = 1] ELSE rows[r]]
  /\ work' = [work EXCEPT ![p].at = "runs",
                          ![p].listed = {[run |-> r, revision |-> rows'[r].revision] :
                             r \in {q \in CleanupRuns :
                                     /\ rows'[q].revision > 0
                                     /\ rows'[q].status = "awaiting_author_review"}}]
  /\ UNCHANGED <<mailbox, residue, auditVars, given, shaky>>

\* A faulty save, for the checks to reject: under the revision the row has by then.
RejectAnyRun(p, l) ==
  /\ Stands(p, "runs") /\ l \in work[p].listed
  /\ Revised(l.run, "rejected", "cleanup")
  /\ work' = [work EXCEPT ![p].listed = @ \ {l}, ![p].rejected = @ \cup {l.run}]
  /\ UNCHANGED <<mailbox, legacy, residue, auditVars, given, shaky>>

\* engine.update with the revision that was listed.
RejectRun(p, l) ==
  /\ Stands(p, "runs") /\ l \in work[p].listed
  /\ rows[l.run].revision = l.revision
  /\ Revised(l.run, "rejected", "cleanup")
  /\ work' = [work EXCEPT ![p].listed = @ \ {l}, ![p].rejected = @ \cup {l.run}]
  /\ UNCHANGED <<mailbox, legacy, residue, auditVars, given, shaky>>

\* A faulty end, for the checks to reject: the error is passed over, and with it the run.
PassOverUnprojected(p, l) ==
  /\ Stands(p, "runs") /\ l \in work[p].listed
  /\ rows[l.run].revision = l.revision
  /\ Revised(l.run, "rejected", "cleanup")
  /\ work' = [work EXCEPT ![p].listed = @ \ {l}]
  /\ UNCHANGED <<mailbox, legacy, residue, auditVars, given, shaky>>

\* The same, but run.json cannot be written: ProjectionWriteError ends the command.
RejectRunUnprojected(p, l) ==
  /\ Stands(p, "runs") /\ l \in work[p].listed
  /\ rows[l.run].revision = l.revision
  /\ Revised(l.run, "rejected", "cleanup")
  /\ Fails(p, [Account(p) EXCEPT !.runs = @ \cup {l.run}])
  /\ UNCHANGED <<mailbox, legacy, residue, given, shaky>>

\* ConcurrentRunUpdateError, or a transition refused, ends the command; the reports
\* stay moved.
RunConflict(p, l) ==
  /\ Stands(p, "runs") /\ l \in work[p].listed
  /\ rows[l.run].revision # l.revision
  /\ Fails(p, Account(p))
  /\ UNCHANGED <<mailbox, cleanupRows, residue, given, shaky>>

RunsDone(p) ==
  /\ Stands(p, "runs") /\ work[p].listed = {}
  /\ work' = [work EXCEPT ![p].at = IF work[p].op = "reject" THEN "audit" ELSE "scan"]
  /\ UNCHANGED <<mailbox, cleanupRows, residue, auditVars, given, shaky>>

------------------------------------------------------------------------------
(* The callback files *)

\* _classify_callback_file: only a file whose route names this world and a run, and
\* that has a callback id, may be moved.
Classify(said) ==
  IF ~said.parses THEN "malformed"
  ELSE IF said.world = "none" \/ said.run = "none" THEN "unbound"
  ELSE IF said.world # "this" THEN "different_world"
  ELSE IF said.id = "none" THEN "unbound" ELSE "world_scoped"

\* A faulty scan, for the checks to reject: a file that names no run is taken too.
ScanRouted(p) ==
  /\ Stands(p, "scan")
  /\ work' = [work EXCEPT ![p].at = "archive", ![p].todo =
                {c \in Residue : residue[c].at = "callbacks" /\ residue[c].said.world # "none"}]
  /\ UNCHANGED <<mailbox, cleanupRows, residue, auditVars, given, shaky>>

Scan(p) ==
  /\ Stands(p, "scan")
  /\ work' = [work EXCEPT ![p].at = "archive", ![p].todo =
                {c \in Residue : /\ residue[c].at = "callbacks"
                                 /\ Classify(residue[c].said) = "world_scoped"}]
  /\ UNCHANGED <<mailbox, cleanupRows, residue, auditVars, given, shaky>>

ArchiveFile(p, c) ==
  /\ Stands(p, "archive") /\ c \in work[p].todo
  /\ residue[c].at = "callbacks"
  /\ residue' = [residue EXCEPT ![c].at = "archive"]
  /\ work' = [work EXCEPT ![p].todo = @ \ {c}, ![p].archived = @ \cup {c}]
  /\ UNCHANGED <<mailbox, cleanupRows, auditVars, given, shaky>>

\* Another command took the file since the scan: OSError ends this one.
FileGone(p, c) ==
  /\ Stands(p, "archive") /\ c \in work[p].todo
  /\ residue[c].at # "callbacks"
  /\ Fails(p, Account(p))
  /\ UNCHANGED <<mailbox, cleanupRows, residue, given, shaky>>

FilesDone(p) ==
  /\ Stands(p, "archive") /\ work[p].todo = {}
  /\ work' = [work EXCEPT ![p].at = "audit"]
  /\ UNCHANGED <<mailbox, cleanupRows, residue, auditVars, given, shaky>>

WriteAudit(p) ==
  /\ Stands(p, "audit")
  /\ audits' = audits \cup {Account(p)}
  /\ Rest(p)
  /\ UNCHANGED <<mailbox, cleanupRows, residue, failed, died, given, shaky>>

CleanupCrash(p) ==
  /\ Working(p) /\ Rest(p)
  /\ died' = IF Bulk(p) THEN died \cup {Account(p)} ELSE died
  /\ shaky' = shaky \cup ({work[p].report} \ {NoReport})
  /\ UNCHANGED <<mailbox, cleanupRows, residue, audits, failed, given>>

------------------------------------------------------------------------------
\* Reports that other commands left.
MailboxLeft ==
  \E status \in [ReportIds -> Pending \cup {"approved"}] :
    /\ reports = [r \in ReportIds |-> [status |-> status[r], artifact |-> status[r]]]
    /\ files = {<<r, status[r]>> : r \in ReportIds}

\* Runs, and callback files.
RunsLeft ==
  /\ legacy \in SUBSET CleanupRuns
  /\ rows = [r \in CleanupRuns |->
               [revision |-> IF r \in legacy THEN 0 ELSE 1,
                status |-> "awaiting_author_review", by |-> "other"]]
  /\ residue \in [Residue -> [at : {"callbacks"}, said : Sayings]]
  /\ audits = {} /\ failed = {} /\ died = {}
  /\ work = [p \in Cleaners |-> Resting]
  /\ given = 0

CleanupInit == MailboxLeft /\ RunsLeft /\ shaky = {}

Moving(p) ==
  (\E r \in ReportIds : ReadReport(p, r)) \/ RenderMoved(p) \/ UnlinkOld(p)
    \/ UpdateMoved(p) \/ MoveDone(p)
RejectingRuns(p) ==
  \/ ListRuns(p)
  \/ \E l \in work[p].listed :
       RejectRun(p, l) \/ RejectRunUnprojected(p, l) \/ RunConflict(p, l)
  \/ RunsDone(p)
Archiving(p) ==
  Scan(p) \/ (\E c \in Residue : ArchiveFile(p, c) \/ FileGone(p, c)) \/ FilesDone(p)
    \/ WriteAudit(p)

CleanupNext ==
  \/ \E p \in Cleaners :
       \/ \E archive \in BOOLEAN : RejectPending(p, archive)
       \/ ArchiveResidue(p)
       \/ \E r \in ReportIds, to \in Moves : MoveReport(p, r, to)
       \/ Moving(p) \/ RejectingRuns(p) \/ Archiving(p) \/ CleanupCrash(p)
  \/ \E r \in CleanupRuns, status \in SavedStatuses : SaveElsewhere(r, status)

CleanupSpec == CleanupInit /\ [][CleanupNext]_cleanupVars

------------------------------------------------------------------------------
(* Properties *)

\* Bulk rejection lists first and saves later, but rejects a run only from author
\* review: a run that was decided or interrupted meanwhile is left alone.
RejectedFromReview ==
  \A r \in CleanupRuns :
    rows'[r] # rows[r] /\ rows'[r].by = "cleanup"
      => rows[r].status = "awaiting_author_review"

\* A report that names a file and that nobody is moving has that file and no other,
\* unless two of its transitions overlapped or one died: bulk rejection and a decision
\* on one report each read the name, render, unlink and only then write the row.
ReportHasItsFile ==
  \A r \in ReportIds \ shaky :
    Reported(r) /\ reports[r].artifact # "none" /\ (\A p \in Cleaners : ~Touches(p, r)) =>
      {s \in MailboxStates : <<r, s>> \in files} = {reports[r].artifact}

\* An audit is true although it is written last and another archive command may run:
\* what it lists was moved, and only files routed to this world.
AuditIsTrue ==
  \A a \in audits : \A c \in a.files :
    residue[c].at = "archive" /\ Classify(residue[c].said) = "world_scoped"

\* What bulk commands changed is in an audit, is going to be, or was changed by one that
\* ended without: nothing else escapes the audits.
Accounts == audits \cup failed \cup died \cup {Account(p) : p \in {q \in Cleaners : Bulk(q)}}
AuditIsComplete ==
  /\ \A r \in CleanupRuns : rows[r].by = "cleanup" => \E a \in Accounts : r \in a.runs
  /\ \A c \in Residue : residue[c].at = "archive" => \E a \in Accounts : c \in a.files
\* A report that was moved stays in the account.
ReportsStayTold == \A a \in Accounts : \E b \in Accounts' : a.reports \subseteq b.reports

\* Both commands of review cleanup list before they change anything.  A run is rejected
\* only if it still is what was listed, a file is moved only if it was routed to this
\* world, and the audit, which is written last, lists no file that was not moved.  What
\* is in no audit was changed by a command at work, or by one that failed or died.
\* Of reports less is true: one is moved whatever it has become, also if it was approved
\* since it was listed.
CleanupIsRecorded ==
  [][RejectedFromReview /\ AuditIsTrue' /\ AuditIsComplete' /\ ReportsStayTold]_cleanupVars

==============================================================================
