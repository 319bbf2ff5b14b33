------------------------------- MODULE Reports -------------------------------
(****************************************************************************)
(* The report mailbox: a row of the world database for each report, and an  *)
(* HTML file reports/<status>/<report>.html that the row names.  Row and    *)
(* file are written one after the other.                                    *)
(****************************************************************************)
CONSTANTS
  ReportIds,
  NoReport              \* the row of a report that does not exist

MailboxStates ==
  {"inbox", "pending_review", "approved", "rejected", "archived", "telegram_queue"}

VARIABLES
  reports,              \* the rows: status and artifact_ref
  files                 \* the files there are, each named by report and status

mailbox == <<reports, files>>

\* A report's file is named by the status it had when it was rendered.
ReportRows == [status : MailboxStates, artifact : MailboxStates \cup {"none"}]
ASSUME NoReportAssumption == NoReport \notin ReportIds \cup ReportRows

Reported(r) == reports[r] # NoReport
ArtifactExists(r) == <<r, reports[r].artifact>> \in files

------------------------------------------------------------------------------
\* create_report: the INSERT, without an artifact yet.
InsertReport(r, status) ==
  /\ ~Reported(r)
  /\ reports' = [reports EXCEPT ![r] = [status |-> status, artifact |-> "none"]]
  /\ UNCHANGED files

\* render_report
RenderReport(r, status) ==
  /\ files' = files \cup {<<r, status>>}
  /\ UNCHANGED reports

\* A faulty removal, for the checks to reject: the file is removed even when the
\* new one has its name.
RemoveAnyArtifact(r, old, new) ==
  /\ files' = files \ {<<r, old>>}
  /\ UNCHANGED reports

\* transition_report: unlink what the row that was read named, if it is there
\* and is not the file just rendered.
RemoveArtifact(r, old, new) ==
  /\ files' = IF old # new THEN files \ {<<r, old>>} ELSE files
  /\ UNCHANGED reports

\* update_report_status, which compares nothing.
UpdateReport(r, status, artifact) ==
  /\ reports' = [reports EXCEPT ![r] = [status |-> status, artifact |-> artifact]]
  /\ UNCHANGED files

MailboxInit ==
  /\ reports = [r \in ReportIds |-> NoReport]
  /\ files = {}
==============================================================================
