---------------------------- MODULE MailboxProofs -----------------------------
(****************************************************************************)
(* Proofs about what files reports and moves them: ReviewCleanup, for any   *)
(* number of reports, runs, left-over callback files and commands, and      *)
(* Gatherings, for any number of seats and of commands that decide.         *)
(****************************************************************************)
EXTENDS ReviewCleanup, Gatherings, TLAPS

------------------------------------------------------------------------------
(* Cleanup: the inductive invariant, in parts *)

Ops == {"none", "reject", "reject_and_archive", "archive", "move"}
MovePlaces == {"render", "unlink", "update"}
Works ==
  [op : Ops, at : MovePlaces \cup {"none", "next_report", "runs", "scan", "archive", "audit"},
   todo : SUBSET (ReportIds \cup Residue), report : ReportIds \cup {NoReport},
   to : MailboxStates, old : MailboxStates \cup {"none"},
   listed : SUBSET [run : CleanupRuns, revision : Nat], moved : SUBSET ReportIds,
   rejected : SUBSET CleanupRuns, archived : SUBSET Residue]
RunRows ==
  [revision : Nat, status : RUN_STATES \cup SavedStatuses, by : {"other", "cleanup"}]
Left == [at : {"callbacks", "archive"}, said : Sayings]

Types ==
  /\ reports \in [ReportIds -> [status : MailboxStates, artifact : MailboxStates]]
  /\ files \subseteq ReportIds \X MailboxStates
  /\ rows \in [CleanupRuns -> RunRows] /\ residue \in [Residue -> Left]
  /\ work \in [Cleaners -> Works]

\* A run that is only a run.json was never saved.
LegacySound ==
  /\ legacy \subseteq CleanupRuns
  /\ \A r \in legacy : rows[r].revision = 0 /\ rows[r].by = "other"

\* A run with the revision that was listed is still in author review.
ListingSound(w, rws) ==
  \A l \in w.listed :
    /\ l.revision > 0 /\ l.revision <= rws[l.run].revision
    /\ l.revision = rws[l.run].revision => rws[l.run].status = "awaiting_author_review"

Scoped(c, res) == Classify(res[c].said) = "world_scoped"
Archived(c, res) == res[c].at = "archive" /\ Scoped(c, res)
ArchivingSound(w, res) ==
  /\ w.at = "archive" => w.todo \subseteq Residue /\ \A c \in w.todo : Scoped(c, res)
  /\ \A c \in w.archived : Archived(c, res)
AuditsSound(auds, res) ==
  \A a \in auds : a.files \subseteq Residue /\ \A c \in a.files : Archived(c, res)

\* A report is named from get_report to update_report_status.
Naming(w) ==
  /\ w.at \in MovePlaces <=> w.report # NoReport
  /\ w.at = "none" <=> w.op = "none"
  /\ w.at \in MovePlaces \cup {"next_report"} => w.todo \subseteq ReportIds
  /\ w.at \in {"runs", "scan", "archive", "audit"} => w.op # "move"

FilesOf(r, fls) == {s \in MailboxStates : <<r, s>> \in fls}

\* The files of a report that only this command moves, by how far it is.
MoveSound(w, artifact, have) ==
  /\ w.old = artifact
  /\ w.at = "render" => have = {artifact}
  /\ w.at = "unlink" => have = {artifact, w.to}
  /\ w.at = "update" => have = {w.to}

Takes(w, r) == w.op # "none" /\ w.report = r

ReportSound(r, wrk, rps, fls) ==
  /\ \A p \in Cleaners :
       Takes(wrk[p], r) => /\ MoveSound(wrk[p], rps[r].artifact, FilesOf(r, fls))
                           /\ \A q \in Cleaners \ {p} : ~Takes(wrk[q], r)
  /\ (\A p \in Cleaners : ~Takes(wrk[p], r)) => FilesOf(r, fls) = {rps[r].artifact}

Fine(w) == Naming(w) /\ ListingSound(w, rows) /\ ArchivingSound(w, residue)

Sound ==
  /\ LegacySound /\ AuditsSound(audits, residue)
  /\ \A p \in Cleaners : Fine(work[p])
  /\ \A r \in ReportIds \ shaky : ReportSound(r, work, reports, files)

IInv == Types /\ Sound

------------------------------------------------------------------------------
(* Cleanup: what one command leaves the others *)

\* A save gives its run a new revision; files are archived for good.
RowsMove ==
  \A r \in CleanupRuns : rows'[r] = rows[r] \/ rows'[r].revision > rows[r].revision
ResidueMoves ==
  \A c \in Residue :
    /\ residue'[c].said = residue[c].said
    /\ residue[c].at = "archive" => residue'[c].at = "archive"

TypesOf(rps, fls, rws, res) ==
  /\ rps \in [ReportIds -> [status : MailboxStates, artifact : MailboxStates]]
  /\ fls \subseteq ReportIds \X MailboxStates
  /\ rws \in [CleanupRuns -> RunRows] /\ res \in [Residue -> Left]

LEMMA Facts ==
  ASSUME IInv, NEW p \in Cleaners
  PROVE  /\ work[p] \in Works /\ Naming(work[p])
         /\ ListingSound(work[p], rows) /\ ArchivingSound(work[p], residue)
BY DEF IInv, Types, Sound, Fine

LEMMA Shapes ==
  ASSUME IInv
  PROVE  /\ TypesOf(reports, files, rows, residue) /\ work \in [Cleaners -> Works]
         /\ LegacySound /\ AuditsSound(audits, residue)
         /\ \A r \in ReportIds \ shaky : ReportSound(r, work, reports, files)
BY DEF IInv, Types, Sound, TypesOf

LEMMA ListingKept ==
  ASSUME IInv, RowsMove, rows' \in [CleanupRuns -> RunRows],
         NEW w \in Works, ListingSound(w, rows)
  PROVE  ListingSound(w, rows')
<1> SUFFICES ASSUME NEW l \in w.listed
    PROVE  /\ l.revision > 0 /\ l.revision <= rows'[l.run].revision
           /\ l.revision = rows'[l.run].revision
                => rows'[l.run].status = "awaiting_author_review"
  BY DEF ListingSound
<1>1. /\ l.run \in CleanupRuns /\ l.revision \in Nat
      /\ rows[l.run].revision \in Nat /\ rows'[l.run].revision \in Nat
  BY Shapes DEF Works, TypesOf, RunRows
<1>2. rows'[l.run] = rows[l.run] \/ rows'[l.run].revision > rows[l.run].revision
  BY <1>1 DEF RowsMove
<1> QED
  BY <1>1, <1>2 DEF ListingSound

LEMMA ArchivingKept ==
  ASSUME IInv, ResidueMoves, NEW w \in Works, ArchivingSound(w, residue)
  PROVE  ArchivingSound(w, residue')
<1>1. w.archived \subseteq Residue
  BY DEF Works
<1>2. \A c \in Residue : Scoped(c, residue) => Scoped(c, residue')
  BY DEF ResidueMoves, Scoped
<1>3. \A c \in Residue : Archived(c, residue) => Archived(c, residue')
  BY <1>2 DEF ResidueMoves, Archived
<1> QED
  BY <1>1, <1>2, <1>3 DEF ArchivingSound

\* A step of one command, which is fine afterwards, and the reports' soundness.
LEMMA StepLemma ==
  ASSUME IInv, NEW p \in Cleaners, NEW w \in Works, work' = [work EXCEPT ![p] = w],
         TypesOf(reports', files', rows', residue'), RowsMove, ResidueMoves,
         LegacySound', AuditsSound(audits', residue'),
         Naming(w), ListingSound(w, rows'), ArchivingSound(w, residue'),
         \A r \in ReportIds \ shaky' : ReportSound(r, work', reports', files')
  PROVE  IInv'
<1>1. work'[p] = w /\ \A q \in Cleaners \ {p} : work'[q] = work[q]
  BY Shapes
<1>2. Types'
  BY Shapes DEF TypesOf, Types
<1>3. ASSUME NEW q \in Cleaners
      PROVE  Fine(work[q])'
  <2>1. CASE q = p
    BY <1>1, <2>1 DEF Fine
  <2>2. CASE q # p
    BY <1>1, <2>2, Facts, ListingKept, ArchivingKept DEF TypesOf, Fine
  <2> QED
    BY <2>1, <2>2
<1> QED
  BY <1>2, <1>3 DEF IInv, Sound

\* A step that moves no report, or gives one up: it is shaky from then on.
LEMMA NoMoveLemma ==
  ASSUME IInv, NEW p \in Cleaners, NEW w \in Works, work' = [work EXCEPT ![p] = w],
         UNCHANGED mailbox, shaky \subseteq shaky',
         w.op = "none" \/ w.report = NoReport,
         work[p].op = "none" \/ work[p].report \in {NoReport} \cup shaky'
  PROVE  \A r \in ReportIds \ shaky' : ReportSound(r, work', reports', files')
<1> SUFFICES ASSUME NEW r \in ReportIds \ shaky'
    PROVE  ReportSound(r, work', reports', files')
  OBVIOUS
<1>1. work'[p] = w /\ \A q \in Cleaners \ {p} : work'[q] = work[q]
  BY Shapes
<1>2. ~Takes(work[p], r) /\ ~Takes(work'[p], r)
  BY <1>1, NoReportAssumption DEF Takes
<1>3. ReportSound(r, work, reports, files)
  BY Shapes
<1> QED
  BY <1>1, <1>2, <1>3 DEF ReportSound, mailbox

\* A step of a command on its own state.
LEMMA OwnLemma ==
  ASSUME IInv, NEW p \in Cleaners, NEW w \in Works, work' = [work EXCEPT ![p] = w],
         UNCHANGED <<mailbox, rows, legacy, residue>>, shaky \subseteq shaky',
         AuditsSound(audits', residue),
         w.op = "none" \/ w.report = NoReport,
         work[p].op = "none" \/ work[p].report \in {NoReport} \cup shaky',
         Naming(w), ListingSound(w, rows), ArchivingSound(w, residue)
  PROVE  IInv'
<1>1. RowsMove /\ ResidueMoves /\ LegacySound'
  BY Shapes DEF RowsMove, ResidueMoves, LegacySound
<1>2. TypesOf(reports', files', rows', residue')
  BY Shapes DEF mailbox
<1>3. \A r \in ReportIds \ shaky' : ReportSound(r, work', reports', files')
  BY NoMoveLemma
<1> QED
  BY <1>1, <1>2, <1>3, StepLemma

LEMMA RestingFine ==
  /\ Resting \in Works /\ Resting.op = "none" /\ Naming(Resting)
  /\ ListingSound(Resting, rows) /\ ArchivingSound(Resting, residue)
BY DEF Resting, Works, Ops, MailboxStates, Naming, MovePlaces, ListingSound, ArchivingSound

\* Ending, with or without an error.
LEMMA RestLemma ==
  ASSUME IInv, NEW p \in Cleaners, Rest(p),
         UNCHANGED <<mailbox, rows, legacy, residue>>, shaky \subseteq shaky',
         AuditsSound(audits', residue),
         work[p].report \in {NoReport} \cup shaky'
  PROVE  IInv'
BY RestingFine, OwnLemma DEF Rest

------------------------------------------------------------------------------
(* Commands *)

LEMMA GiveLemma ==
  ASSUME IInv, NEW p \in Cleaners, NEW w \in Works, Give(p, w),
         UNCHANGED <<mailbox, cleanupRows, residue, audits, shaky>>,
         w.op # "none", w.at \in {"next_report", "scan"}, w.todo \subseteq ReportIds,
         w.report = NoReport, w.listed = {}, w.archived = {}, w.at = "scan" => w.op # "move"
  PROVE  IInv'
<1>1. /\ work[p].op = "none" /\ UNCHANGED <<mailbox, rows, legacy, residue, audits, shaky>>
      /\ AuditsSound(audits', residue) /\ work' = [work EXCEPT ![p] = w]
  BY Shapes DEF Give, Working, cleanupRows
<1>2. Naming(w) /\ ListingSound(w, rows) /\ ArchivingSound(w, residue)
  BY DEF Naming, MovePlaces, ListingSound, ArchivingSound
<1> QED
  BY <1>1, <1>2, OwnLemma

LEMMA GiveInv ==
  ASSUME IInv, NEW p \in Cleaners,
         \/ \E archive \in BOOLEAN : RejectPending(p, archive)
         \/ ArchiveResidue(p)
         \/ \E r \in ReportIds, to \in Moves : MoveReport(p, r, to)
  PROVE  IInv'
<1>1. ASSUME NEW archive \in BOOLEAN, RejectPending(p, archive)
      PROVE  IInv'
  <2> DEFINE op == IF archive THEN "reject_and_archive" ELSE "reject"
             w == [Resting EXCEPT !.op = op, !.at = "next_report", !.todo = ListPending,
                                  !.to = "rejected"]
  <2>1. op \in Ops \ {"none"} /\ ListPending \subseteq ReportIds
    BY DEF Ops, ListPending
  <2> HIDE DEF op
  <2>2. /\ w \in Works /\ w.op = op /\ w.at = "next_report" /\ w.todo = ListPending
        /\ w.report = NoReport /\ w.listed = {} /\ w.archived = {}
    BY <2>1 DEF Resting, Works, MailboxStates
  <2>3. Give(p, w) /\ UNCHANGED <<mailbox, cleanupRows, residue, audits, shaky>>
    BY <1>1 DEF RejectPending, auditVars, op
  <2> HIDE DEF w
  <2> QED
    BY <2>1, <2>2, <2>3, GiveLemma
<1>2. CASE ArchiveResidue(p)
  <2> DEFINE w == [Resting EXCEPT !.op = "archive", !.at = "scan"]
  <2>1. /\ w \in Works /\ w.op = "archive" /\ w.at = "scan" /\ w.todo = {}
        /\ w.report = NoReport /\ w.listed = {} /\ w.archived = {}
    BY DEF Resting, Works, Ops, MailboxStates
  <2>2. Give(p, w) /\ UNCHANGED <<mailbox, cleanupRows, residue, audits, shaky>>
    BY <1>2 DEF ArchiveResidue, auditVars
  <2> HIDE DEF w
  <2> QED
    BY <2>1, <2>2, GiveLemma
<1>3. ASSUME NEW r \in ReportIds, NEW to \in Moves, MoveReport(p, r, to)
      PROVE  IInv'
  <2> DEFINE w == [Resting EXCEPT !.op = "move", !.at = "next_report", !.todo = {r}, !.to = to]
  <2>1. /\ w \in Works /\ w.op = "move" /\ w.at = "next_report" /\ w.todo = {r}
        /\ w.report = NoReport /\ w.listed = {} /\ w.archived = {}
    BY MovesAssumption DEF Resting, Works, Ops
  <2>2. Give(p, w) /\ UNCHANGED <<mailbox, cleanupRows, residue, audits, shaky>>
    BY <1>3 DEF MoveReport, auditVars
  <2> HIDE DEF w
  <2> QED
    BY <2>1, <2>2, GiveLemma
<1> QED
  BY <1>1, <1>2, <1>3

\* Another command saves a run.
LEMMA SaveInv ==
  ASSUME IInv, NEW r \in CleanupRuns, NEW status \in SavedStatuses, SaveElsewhere(r, status)
  PROVE  IInv'
<1>1. UNCHANGED <<mailbox, legacy, residue, audits, work, shaky>>
  BY DEF SaveElsewhere, auditVars
<1>2. rows[r].revision \in Nat /\ rows[r].revision > 0
  BY Shapes DEF TypesOf, RunRows, SaveElsewhere
<1> DEFINE row == [revision |-> rows[r].revision + 1, status |-> status, by |-> "other"]
<1>3. row \in RunRows /\ row.revision > rows[r].revision /\ rows' = [rows EXCEPT ![r] = row]
  BY <1>2, Shapes DEF SaveElsewhere, Revised, RunRows, TypesOf
<1> HIDE DEF row
<1>4. RowsMove /\ rows' \in [CleanupRuns -> RunRows] /\ rows'[r] = row
      /\ \A q \in CleanupRuns \ {r} : rows'[q] = rows[q]
  BY <1>3, Shapes DEF RowsMove, TypesOf
<1>5. LegacySound'
  BY <1>1, <1>2, <1>4, Shapes DEF LegacySound
<1>6. \A p \in Cleaners : ListingSound(work[p], rows')
  BY <1>4, Facts, ListingKept
<1>7. Types'
  BY <1>1, <1>4, Shapes DEF TypesOf, Types, mailbox
<1> QED
  BY <1>1, <1>5, <1>6, <1>7 DEF IInv, Sound, Fine, mailbox

------------------------------------------------------------------------------
(* Moving a report *)

\* A step of a command on the one report it moves.
LEMMA MoveLemma ==
  ASSUME IInv, NEW p \in Cleaners, NEW w \in Works, work' = [work EXCEPT ![p] = w],
         NEW r \in ReportIds, UNCHANGED <<rows, legacy, residue, audits>>, shaky \subseteq shaky',
         TypesOf(reports', files', rows, residue),
         Naming(w), ListingSound(w, rows), ArchivingSound(w, residue),
         w.report \in {r, NoReport}, work[p].report \in {r, NoReport}, work[p].op # "none",
         \A z \in ReportIds \ {r} :
           reports'[z] = reports[z] /\ FilesOf(z, files') = FilesOf(z, files),
         r \notin shaky' =>
           /\ \A q \in Cleaners \ {p} : ~Takes(work[q], r)
           /\ IF Takes(w, r) THEN MoveSound(w, reports'[r].artifact, FilesOf(r, files'))
              ELSE FilesOf(r, files') = {reports'[r].artifact}
  PROVE  IInv'
<1>1. work'[p] = w /\ \A q \in Cleaners \ {p} : work'[q] = work[q]
  BY Shapes
<1>2. RowsMove /\ ResidueMoves /\ LegacySound' /\ AuditsSound(audits', residue')
  BY Shapes DEF RowsMove, ResidueMoves, LegacySound
<1>3. ASSUME NEW z \in ReportIds \ shaky', z # r
      PROVE  ReportSound(z, work', reports', files')
  <2>1. ~Takes(work[p], z) /\ ~Takes(work'[p], z)
    BY <1>1, <1>3, NoReportAssumption DEF Takes
  <2>2. ReportSound(z, work, reports, files)
    BY <1>3, Shapes
  <2> QED
    BY <1>1, <1>3, <2>1, <2>2 DEF ReportSound
<1>4. ASSUME r \notin shaky'
      PROVE  ReportSound(r, work', reports', files')
  BY <1>1, <1>4 DEF ReportSound
<1> QED
  BY <1>2, <1>3, <1>4, StepLemma

\* What is known of the report that a command moves.
LEMMA MoveFacts ==
  ASSUME IInv, NEW p \in Cleaners, work[p].at \in MovePlaces
  PROVE  /\ work[p] \in Works /\ work[p].op # "none" /\ work[p].report \in ReportIds
         /\ Naming(work[p]) /\ ListingSound(work[p], rows) /\ ArchivingSound(work[p], residue)
         /\ work[p].report \notin shaky =>
              /\ MoveSound(work[p], reports[work[p].report].artifact,
                           FilesOf(work[p].report, files))
              /\ \A q \in Cleaners \ {p} : ~Takes(work[q], work[p].report)
<1>1. /\ work[p] \in Works /\ work[p].op # "none" /\ work[p].report \in ReportIds
      /\ Naming(work[p]) /\ ListingSound(work[p], rows) /\ ArchivingSound(work[p], residue)
  BY Facts DEF Naming, MovePlaces, Works
<1>2. Takes(work[p], work[p].report)
  BY <1>1 DEF Takes
<1>3. work[p].report \notin shaky => ReportSound(work[p].report, work, reports, files)
  BY <1>1, Shapes
<1> QED
  BY <1>1, <1>2, <1>3 DEF ReportSound

\* get_report: shaky if another command has the report; otherwise it has its file.
LEMMA ReadReportInv ==
  ASSUME IInv, NEW p \in Cleaners, NEW r \in ReportIds, ReadReport(p, r)
  PROVE  IInv'
<1> DEFINE w == [work[p] EXCEPT !.at = "render", !.report = r,
                                !.old = reports[r].artifact, !.todo = @ \ {r}]
<1>1. /\ work[p].op # "none" /\ work[p].at = "next_report" /\ work[p].report = NoReport
      /\ r \in work[p].todo /\ reports[r].artifact \in MailboxStates
  BY Facts, Shapes DEF ReadReport, Stands, Working, Naming, MovePlaces, TypesOf
<1>2. /\ w \in Works /\ w.op = work[p].op /\ w.at = "render" /\ w.report = r
      /\ w.old = reports[r].artifact /\ w.listed = work[p].listed
      /\ w.todo = work[p].todo \ {r}
      /\ w.archived = work[p].archived
  BY <1>1, Facts DEF Works, MovePlaces
<1>3. work' = [work EXCEPT ![p] = w] /\ UNCHANGED <<mailbox, rows, legacy, residue, audits>>
  BY Facts, Shapes DEF ReadReport, cleanupRows, auditVars
<1> HIDE DEF w
<1>4. Naming(w) /\ ListingSound(w, rows) /\ ArchivingSound(w, residue)
  BY <1>1, <1>2, Facts, NoReportAssumption
     DEF Naming, MovePlaces, ListingSound, ArchivingSound
<1>5. shaky \subseteq shaky'
  BY DEF ReadReport
<1>6. ASSUME r \notin shaky'
      PROVE  /\ \A q \in Cleaners \ {p} : ~Takes(work[q], r)
             /\ FilesOf(r, files) = {reports[r].artifact}
  <2>1. \A q \in Cleaners \ {p} : ~Takes(work[q], r)
    BY <1>6 DEF ReadReport, Touches, Working, Takes
  <2>2. ~Takes(work[p], r)
    BY <1>1, NoReportAssumption DEF Takes
  <2>3. ReportSound(r, work, reports, files)
    BY <1>5, <1>6, Shapes
  <2> QED
    BY <2>1, <2>2, <2>3 DEF ReportSound
<1>7. TypesOf(reports', files', rows, residue)
  BY <1>3, Shapes DEF mailbox
<1>8. r \notin shaky' =>
        /\ \A q \in Cleaners \ {p} : ~Takes(work[q], r)
        /\ Takes(w, r) /\ MoveSound(w, reports'[r].artifact, FilesOf(r, files'))
  BY <1>1, <1>2, <1>3, <1>6 DEF mailbox, Takes, MoveSound
<1> QED
  BY <1>1, <1>2, <1>3, <1>4, <1>5, <1>7, <1>8, MoveLemma DEF mailbox

\* The new file is written.
LEMMA RenderInv ==
  ASSUME IInv, NEW p \in Cleaners, RenderMoved(p)
  PROVE  IInv'
<1> DEFINE r == work[p].report
           w == [work[p] EXCEPT !.at = "unlink"]
<1>1. work[p].at = "render" /\ work[p].at \in MovePlaces
  BY DEF RenderMoved, Stands, MovePlaces
<1>2. /\ w \in Works /\ w.op = work[p].op /\ w.at = "unlink" /\ w.report = r
      /\ w.old = work[p].old /\ w.to = work[p].to /\ w.to \in MailboxStates
      /\ w.todo = work[p].todo
      /\ w.listed = work[p].listed /\ w.archived = work[p].archived
  BY Facts DEF Works, MovePlaces
<1>3. /\ work' = [work EXCEPT ![p] = w] /\ UNCHANGED <<rows, legacy, residue, audits, shaky>>
      /\ files' = files \cup {<<r, work[p].to>>} /\ UNCHANGED reports
  BY DEF RenderMoved, RenderReport, cleanupRows, auditVars
<1> HIDE DEF w
<1>4. Naming(w) /\ ListingSound(w, rows) /\ ArchivingSound(w, residue)
  BY <1>1, <1>2, Facts DEF Naming, MovePlaces, ListingSound, ArchivingSound
<1>5. /\ r \in ReportIds /\ work[p].op # "none"
      /\ r \notin shaky => /\ MoveSound(work[p], reports[r].artifact, FilesOf(r, files))
                           /\ \A q \in Cleaners \ {p} : ~Takes(work[q], r)
  BY <1>1, MoveFacts
<1>6. /\ FilesOf(r, files') = FilesOf(r, files) \cup {work[p].to}
      /\ \A z \in ReportIds \ {r} : FilesOf(z, files') = FilesOf(z, files)
  BY <1>2, <1>3 DEF FilesOf
<1>7. TypesOf(reports', files', rows, residue)
  BY <1>2, <1>3, <1>5, Shapes DEF TypesOf
<1>8. r \notin shaky' =>
        /\ \A q \in Cleaners \ {p} : ~Takes(work[q], r)
        /\ Takes(w, r) /\ MoveSound(w, reports'[r].artifact, FilesOf(r, files'))
  BY <1>1, <1>2, <1>3, <1>5, <1>6 DEF Takes, MoveSound
<1> QED
  BY <1>2, <1>3, <1>4, <1>5, <1>6, <1>7, <1>8, MoveLemma

\* The old file goes, if it is another one.
LEMMA UnlinkInv ==
  ASSUME IInv, NEW p \in Cleaners, UnlinkOld(p)
  PROVE  IInv'
<1> DEFINE r == work[p].report
           w == [work[p] EXCEPT !.at = "update"]
<1>1. work[p].at = "unlink" /\ work[p].at \in MovePlaces
  BY DEF UnlinkOld, Stands, MovePlaces
<1>2. /\ w \in Works /\ w.op = work[p].op /\ w.at = "update" /\ w.report = r
      /\ w.old = work[p].old /\ w.to = work[p].to /\ w.to \in MailboxStates
      /\ w.todo = work[p].todo
      /\ w.listed = work[p].listed /\ w.archived = work[p].archived
  BY Facts DEF Works, MovePlaces
<1>3. /\ work' = [work EXCEPT ![p] = w] /\ UNCHANGED <<rows, legacy, residue, audits, shaky>>
      /\ files' = IF w.old # w.to THEN files \ {<<r, w.old>>} ELSE files
      /\ UNCHANGED reports
  BY <1>2 DEF UnlinkOld, RemoveArtifact, cleanupRows, auditVars
<1> HIDE DEF w
<1>4. Naming(w) /\ ListingSound(w, rows) /\ ArchivingSound(w, residue)
  BY <1>1, <1>2, Facts DEF Naming, MovePlaces, ListingSound, ArchivingSound
<1>5. /\ r \in ReportIds /\ work[p].op # "none"
      /\ r \notin shaky => /\ MoveSound(work[p], reports[r].artifact, FilesOf(r, files))
                           /\ \A q \in Cleaners \ {p} : ~Takes(work[q], r)
  BY <1>1, MoveFacts
<1>6. /\ FilesOf(r, files') = IF w.old # w.to THEN FilesOf(r, files) \ {w.old}
                              ELSE FilesOf(r, files)
      /\ \A z \in ReportIds \ {r} : FilesOf(z, files') = FilesOf(z, files)
  BY <1>3 DEF FilesOf
<1>7. TypesOf(reports', files', rows, residue)
  BY <1>3, Shapes DEF TypesOf
<1>8. r \notin shaky' =>
        /\ \A q \in Cleaners \ {p} : ~Takes(work[q], r)
        /\ Takes(w, r) /\ MoveSound(w, reports'[r].artifact, FilesOf(r, files'))
  BY <1>1, <1>2, <1>3, <1>5, <1>6 DEF Takes, MoveSound
<1> QED
  BY <1>2, <1>3, <1>4, <1>5, <1>6, <1>7, <1>8, MoveLemma

\* The row names the new file, and the command goes on to its next report.
LEMMA UpdateInv ==
  ASSUME IInv, NEW p \in Cleaners, UpdateMoved(p)
  PROVE  IInv'
<1> DEFINE r == work[p].report
           to == work[p].to
           w == [work[p] EXCEPT !.at = "next_report", !.report = NoReport, !.moved = @ \cup {r}]
<1>1. work[p].at = "update" /\ work[p].at \in MovePlaces
  BY DEF UpdateMoved, Stands, MovePlaces
<1>2. /\ r \in ReportIds /\ work[p].op # "none" /\ to \in MailboxStates
      /\ r \notin shaky => /\ MoveSound(work[p], reports[r].artifact, FilesOf(r, files))
                           /\ \A q \in Cleaners \ {p} : ~Takes(work[q], r)
  BY <1>1, MoveFacts DEF Works
<1>3. /\ w \in Works /\ w.op = work[p].op /\ w.at = "next_report" /\ w.report = NoReport
      /\ w.listed = work[p].listed /\ w.archived = work[p].archived
      /\ w.todo = work[p].todo
  BY <1>2, Facts DEF Works
<1>4. /\ work' = [work EXCEPT ![p] = w] /\ UNCHANGED <<rows, legacy, residue, audits, shaky>>
      /\ reports' = [reports EXCEPT ![r] = [status |-> to, artifact |-> to]]
      /\ UNCHANGED files
  BY DEF UpdateMoved, UpdateReport, cleanupRows, auditVars
<1> HIDE DEF w
<1>5. work[p].todo \subseteq ReportIds
  BY <1>1, Facts DEF Naming
<1>6. Naming(w) /\ ListingSound(w, rows) /\ ArchivingSound(w, residue)
  BY <1>1, <1>2, <1>3, <1>5, Facts DEF Naming, MovePlaces, ListingSound, ArchivingSound
<1>7. /\ reports'[r].artifact = to
      /\ \A z \in ReportIds \ {r} : reports'[z] = reports[z]
      /\ TypesOf(reports', files', rows, residue)
  BY <1>2, <1>4, Shapes DEF TypesOf
<1>8. \A z \in ReportIds : FilesOf(z, files') = FilesOf(z, files)
  BY <1>4
<1>9. r \notin shaky' =>
        /\ \A q \in Cleaners \ {p} : ~Takes(work[q], r)
        /\ ~Takes(w, r) /\ FilesOf(r, files') = {reports'[r].artifact}
  BY <1>1, <1>2, <1>3, <1>4, <1>7, <1>8, NoReportAssumption DEF Takes, MoveSound
<1> QED
  BY <1>2, <1>3, <1>4, <1>6, <1>7, <1>8, <1>9, MoveLemma

LEMMA MoveDoneInv ==
  ASSUME IInv, NEW p \in Cleaners, MoveDone(p)
  PROVE  IInv'
<1>1. work[p].report = NoReport
  BY Facts DEF MoveDone, Stands, Naming, MovePlaces
<1> QED
  BY <1>1, Shapes, RestLemma DEF MoveDone, cleanupRows, auditVars

------------------------------------------------------------------------------
(* The runs *)

\* A command between its reports and its audit that changes its state, and perhaps rows.
LEMMA RunsLemma ==
  ASSUME IInv, NEW p \in Cleaners, NEW w \in Works, work' = [work EXCEPT ![p] = w],
         UNCHANGED <<mailbox, residue, audits, shaky>>,
         rows' \in [CleanupRuns -> RunRows], RowsMove, LegacySound',
         work[p].report = NoReport, w.op = "none" \/ w.report = NoReport,
         Naming(w), ListingSound(w, rows'), ArchivingSound(w, residue)
  PROVE  IInv'
<1>1. ResidueMoves /\ AuditsSound(audits', residue')
  BY Shapes DEF ResidueMoves
<1>2. TypesOf(reports', files', rows', residue')
  BY Shapes DEF mailbox, TypesOf
<1>3. \A r \in ReportIds \ shaky' : ReportSound(r, work', reports', files')
  BY NoMoveLemma
<1> QED
  BY <1>1, <1>2, <1>3, StepLemma

LEMMA ListRunsInv ==
  ASSUME IInv, NEW p \in Cleaners, ListRuns(p)
  PROVE  IInv'
<1> DEFINE waiting == {q \in CleanupRuns : /\ rows'[q].revision > 0
                                           /\ rows'[q].status = "awaiting_author_review"}
           listed == {[run |-> r, revision |-> rows'[r].revision] : r \in waiting}
           w == [work[p] EXCEPT !.at = "runs", !.listed = listed]
<1>1. /\ work[p].at = "next_report" /\ work[p].op \notin {"none", "move"}
      /\ work[p].report = NoReport
      /\ work' = [work EXCEPT ![p] = w] /\ legacy' = {}
      /\ UNCHANGED <<mailbox, residue, audits, shaky>>
      /\ rows' = [r \in CleanupRuns |->
                    IF r \in legacy THEN [rows[r] EXCEPT !.revision = 1] ELSE rows[r]]
  BY Facts DEF ListRuns, auditVars, Stands, Working, Naming, MovePlaces
<1>2. \A r \in CleanupRuns :
        /\ rows'[r] \in RunRows
        /\ r \in legacy => rows'[r].revision = 1 /\ rows[r].revision = 0
        /\ r \notin legacy => rows'[r] = rows[r]
  BY <1>1, Shapes DEF TypesOf, RunRows, LegacySound
<1>3. rows' \in [CleanupRuns -> RunRows] /\ RowsMove /\ LegacySound'
  BY <1>1, <1>2 DEF RowsMove, LegacySound
<1>4. \A l \in listed : /\ l.run \in CleanupRuns /\ l.revision \in Nat
                        /\ l \in [run : CleanupRuns, revision : Nat]
                        /\ l.revision = rows'[l.run].revision /\ l.revision > 0
                        /\ rows'[l.run].status = "awaiting_author_review"
  BY <1>2 DEF RunRows
<1> HIDE DEF listed, waiting
<1>5. /\ w \in Works /\ w.at = "runs" /\ w.op = work[p].op /\ w.report = NoReport
      /\ w.listed = listed /\ w.archived = work[p].archived
  <2>1. listed \in SUBSET [run : CleanupRuns, revision : Nat]
    BY <1>4
  <2> QED
    BY <1>1, <2>1, Facts DEF Works
<1> HIDE DEF w
<1>6. ListingSound(w, rows')
  BY <1>4, <1>5 DEF ListingSound
<1>7. Naming(w) /\ ArchivingSound(w, residue)
  BY <1>1, <1>5, Facts DEF Naming, MovePlaces, ArchivingSound
<1> QED
  BY <1>1, <1>3, <1>5, <1>6, <1>7, RunsLemma

\* What a rejection does to the row, and that the run was in author review.
LEMMA RejectLemma ==
  ASSUME IInv, NEW p \in Cleaners, NEW l \in work[p].listed,
         rows[l.run].revision = l.revision, Revised(l.run, "rejected", "cleanup")
  PROVE  /\ l.run \in CleanupRuns /\ rows[l.run].status = "awaiting_author_review"
         /\ rows' \in [CleanupRuns -> RunRows] /\ RowsMove
         /\ \A q \in CleanupRuns \ {l.run} : rows'[q] = rows[q]
         /\ rows[l.run].revision > 0
         /\ UNCHANGED legacy => LegacySound'
<1>1. l \in [run : CleanupRuns, revision : Nat]
  BY Facts DEF Works
<1>2. /\ l.run \in CleanupRuns /\ rows[l.run].status = "awaiting_author_review"
      /\ rows[l.run].revision \in Nat /\ rows[l.run].revision > 0
  BY <1>1, Facts, Shapes DEF ListingSound, TypesOf, RunRows
<1> DEFINE row == [revision |-> rows[l.run].revision + 1, status |-> "rejected",
                   by |-> "cleanup"]
<1>3. row \in RunRows /\ row.revision > rows[l.run].revision
      /\ rows' = [rows EXCEPT ![l.run] = row]
  BY <1>2, Shapes DEF Revised, RunRows, RUN_STATES, TypesOf
<1> HIDE DEF row
<1>4. /\ rows' \in [CleanupRuns -> RunRows] /\ RowsMove
      /\ \A q \in CleanupRuns \ {l.run} : rows'[q] = rows[q]
  BY <1>2, <1>3, Shapes DEF RowsMove, TypesOf
<1> QED
  BY <1>2, <1>4, Shapes DEF LegacySound

LEMMA RejectRunInv ==
  ASSUME IInv, NEW p \in Cleaners, NEW l \in work[p].listed,
         RejectRun(p, l) \/ RejectRunUnprojected(p, l)
  PROVE  IInv'
<1>1. /\ work[p].at = "runs" /\ work[p].op # "none" /\ work[p].report = NoReport
      /\ UNCHANGED <<mailbox, residue, audits, shaky, legacy>>
  BY Facts
     DEF RejectRun, RejectRunUnprojected, Fails, auditVars, Stands, Working, Naming, MovePlaces
<1>2. /\ l.run \in CleanupRuns /\ rows' \in [CleanupRuns -> RunRows] /\ RowsMove
      /\ LegacySound'
  BY <1>1, RejectLemma DEF RejectRun, RejectRunUnprojected
<1>3. CASE RejectRun(p, l)
  <2> DEFINE w == [work[p] EXCEPT !.listed = @ \ {l}, !.rejected = @ \cup {l.run}]
  <2>1. /\ w \in Works /\ w.at = "runs" /\ w.op = work[p].op /\ w.report = NoReport
        /\ w.listed = work[p].listed \ {l} /\ w.archived = work[p].archived
    BY <1>1, <1>2, Facts DEF Works
  <2>2. work' = [work EXCEPT ![p] = w]
    BY <1>3, Facts, Shapes DEF RejectRun
  <2> HIDE DEF w
  <2>3. Naming(w) /\ ArchivingSound(w, residue) /\ ListingSound(w, rows)
    BY <1>1, <2>1, Facts DEF Naming, MovePlaces, ArchivingSound, ListingSound
  <2>4. ListingSound(w, rows')
    BY <1>2, <2>1, <2>3, ListingKept
  <2> QED
    BY <1>1, <1>2, <2>1, <2>2, <2>3, <2>4, RunsLemma
<1>4. CASE RejectRunUnprojected(p, l)
  <2>1. work' = [work EXCEPT ![p] = Resting]
    BY <1>4 DEF RejectRunUnprojected, Fails, Rest
  <2>2. ListingSound(Resting, rows')
    BY DEF Resting, ListingSound
  <2> QED
    BY <1>1, <1>2, <2>1, <2>2, RestingFine, RunsLemma
<1> QED
  BY <1>3, <1>4

LEMMA RunsEndInv ==
  ASSUME IInv, NEW p \in Cleaners,
         (\E l \in work[p].listed : RunConflict(p, l)) \/ RunsDone(p)
  PROVE  IInv'
<1>1. /\ work[p].at = "runs" /\ work[p].op # "none" /\ work[p].report = NoReport
      /\ UNCHANGED <<mailbox, rows, legacy, residue, audits, shaky>>
      /\ AuditsSound(audits', residue)
  BY Facts, Shapes
     DEF RunConflict, RunsDone, Fails, Stands, Working, Naming, MovePlaces, cleanupRows, auditVars
<1>2. CASE \E l \in work[p].listed : RunConflict(p, l)
  BY <1>1, <1>2, RestLemma DEF RunConflict, Fails
<1>3. CASE RunsDone(p)
  <2> DEFINE place == IF work[p].op = "reject" THEN "audit" ELSE "scan"
             w == [work[p] EXCEPT !.at = place]
  <2>1. place \in {"audit", "scan"} /\ work' = [work EXCEPT ![p] = w]
    BY <1>3 DEF RunsDone
  <2> HIDE DEF place
  <2>2. /\ w \in Works /\ w.at = place /\ w.op = work[p].op /\ w.report = NoReport
        /\ w.listed = work[p].listed /\ w.archived = work[p].archived
    BY <1>1, <2>1, Facts DEF Works
  <2> HIDE DEF w
  <2>3. Naming(w) /\ ListingSound(w, rows) /\ ArchivingSound(w, residue)
    BY <1>1, <2>1, <2>2, Facts DEF Naming, MovePlaces, ListingSound, ArchivingSound
  <2> QED
    BY <1>1, <2>1, <2>2, <2>3, OwnLemma
<1> QED
  BY <1>2, <1>3

------------------------------------------------------------------------------
(* The callback files *)

LEMMA ScanInv ==
  ASSUME IInv, NEW p \in Cleaners, Scan(p) \/ FilesDone(p)
  PROVE  IInv'
<1>1. /\ work[p].op \notin {"none", "move"} /\ work[p].report = NoReport
      /\ UNCHANGED <<mailbox, rows, legacy, residue, audits, shaky>>
      /\ AuditsSound(audits', residue)
  BY Facts, Shapes
     DEF Scan, FilesDone, Stands, Working, Naming, MovePlaces, cleanupRows, auditVars
<1>2. CASE Scan(p)
  <2> DEFINE todo == {c \in Residue : /\ residue[c].at = "callbacks"
                                      /\ Classify(residue[c].said) = "world_scoped"}
             w == [work[p] EXCEPT !.at = "archive", !.todo = todo]
  <2>1. todo \subseteq Residue /\ \A c \in todo : Scoped(c, residue)
    BY DEF Scoped
  <2>2. work' = [work EXCEPT ![p] = w]
    BY <1>2 DEF Scan
  <2> HIDE DEF todo
  <2>3. /\ w \in Works /\ w.at = "archive" /\ w.op = work[p].op /\ w.report = NoReport
        /\ w.todo = todo /\ w.listed = work[p].listed /\ w.archived = work[p].archived
    BY <1>1, <2>1, Facts DEF Works
  <2> HIDE DEF w
  <2>4. Naming(w) /\ ListingSound(w, rows) /\ ArchivingSound(w, residue)
    BY <1>1, <2>1, <2>3, Facts DEF Naming, MovePlaces, ListingSound, ArchivingSound
  <2> QED
    BY <1>1, <2>2, <2>3, <2>4, OwnLemma
<1>3. CASE FilesDone(p)
  <2> DEFINE w == [work[p] EXCEPT !.at = "audit"]
  <2>1. work' = [work EXCEPT ![p] = w]
    BY <1>3 DEF FilesDone
  <2>2. /\ w \in Works /\ w.at = "audit" /\ w.op = work[p].op /\ w.report = NoReport
        /\ w.listed = work[p].listed /\ w.archived = work[p].archived
    BY <1>1, Facts DEF Works
  <2> HIDE DEF w
  <2>3. Naming(w) /\ ListingSound(w, rows) /\ ArchivingSound(w, residue)
    BY <1>1, <2>2, Facts DEF Naming, MovePlaces, ListingSound, ArchivingSound
  <2> QED
    BY <1>1, <2>1, <2>2, <2>3, OwnLemma
<1> QED
  BY <1>2, <1>3

LEMMA ArchiveFileInv ==
  ASSUME IInv, NEW p \in Cleaners, NEW c \in Residue, ArchiveFile(p, c)
  PROVE  IInv'
<1> DEFINE w == [work[p] EXCEPT !.todo = @ \ {c}, !.archived = @ \cup {c}]
<1>1. /\ work[p].op # "none" /\ work[p].at = "archive" /\ c \in work[p].todo
      /\ work[p].report = NoReport
      /\ UNCHANGED <<mailbox, rows, legacy, audits, shaky>>
      /\ residue' = [residue EXCEPT ![c].at = "archive"]
  BY Facts DEF ArchiveFile, Stands, Working, Naming, MovePlaces, cleanupRows, auditVars
<1>2. /\ w \in Works /\ w.at = "archive" /\ w.op = work[p].op /\ w.report = NoReport
      /\ w.todo = work[p].todo \ {c} /\ w.listed = work[p].listed
      /\ w.archived = work[p].archived \cup {c}
  BY <1>1, Facts DEF Works
<1>3. work' = [work EXCEPT ![p] = w]
  BY Facts, Shapes DEF ArchiveFile
<1> HIDE DEF w
<1>4. /\ residue' \in [Residue -> Left] /\ residue'[c].at = "archive"
      /\ \A z \in Residue : residue'[z].said = residue[z].said
      /\ \A z \in Residue \ {c} : residue'[z] = residue[z]
  BY <1>1, Shapes DEF TypesOf, Left
<1>5. ResidueMoves /\ RowsMove /\ LegacySound'
  BY <1>1, <1>4, Shapes DEF ResidueMoves, RowsMove, LegacySound
<1>6. \A z \in Residue : /\ Scoped(z, residue) => Scoped(z, residue')
                         /\ Archived(z, residue) => Archived(z, residue')
  BY <1>4 DEF Scoped, Archived
<1>7. AuditsSound(audits', residue')
  BY <1>1, <1>6, Shapes DEF AuditsSound
<1>8. ArchivingSound(w, residue')
  <2>1. Scoped(c, residue) /\ work[p].archived \subseteq Residue /\ work[p].todo \subseteq Residue
    BY <1>1, Facts DEF ArchivingSound, Works
  <2>2. Archived(c, residue')
    BY <1>4, <1>6, <2>1 DEF Archived
  <2> QED
    BY <1>1, <1>2, <1>6, <2>1, <2>2, Facts DEF ArchivingSound
<1>9. Naming(w) /\ ListingSound(w, rows')
  BY <1>1, <1>2, Facts DEF Naming, MovePlaces, ListingSound
<1>10. TypesOf(reports', files', rows', residue')
  BY <1>1, <1>4, Shapes DEF TypesOf, mailbox
<1>11. \A r \in ReportIds \ shaky' : ReportSound(r, work', reports', files')
  BY <1>1, <1>2, <1>3, NoMoveLemma
<1> QED
  BY <1>2, <1>3, <1>5, <1>7, <1>8, <1>9, <1>10, <1>11, StepLemma

\* The last steps of a command: a file is gone, the audit is written, or it dies.
LEMMA LastInv ==
  ASSUME IInv, NEW p \in Cleaners,
         (\E c \in Residue : FileGone(p, c)) \/ WriteAudit(p) \/ CleanupCrash(p)
  PROVE  IInv'
<1>1. /\ Rest(p) /\ UNCHANGED <<mailbox, rows, legacy, residue>> /\ shaky \subseteq shaky'
      /\ Working(p)
  BY DEF FileGone, Fails, WriteAudit, CleanupCrash, cleanupRows, Stands
<1>2. CASE \E c \in Residue : FileGone(p, c)
  <2>1. work[p].report = NoReport /\ AuditsSound(audits', residue)
    BY <1>2, Facts, Shapes DEF FileGone, Fails, Stands, Naming, MovePlaces
  <2> QED
    BY <1>1, <2>1, RestLemma
<1>3. CASE WriteAudit(p)
  <2>1. work[p].report = NoReport /\ work[p].archived \subseteq Residue
        /\ \A c \in work[p].archived : Archived(c, residue)
    BY <1>3, Facts DEF WriteAudit, Stands, Naming, MovePlaces, ArchivingSound, Works
  <2> DEFINE a == [op |-> work[p].op, reports |-> work[p].moved,
                   runs |-> work[p].rejected, files |-> work[p].archived]
  <2>2. a.files = work[p].archived /\ audits' = audits \cup {a}
    BY <1>3 DEF WriteAudit, Account
  <2> HIDE DEF a
  <2>3. AuditsSound(audits', residue)
    BY <2>1, <2>2, Shapes DEF AuditsSound
  <2> QED
    BY <1>1, <2>1, <2>3, RestLemma
<1>4. CASE CleanupCrash(p)
  <2>1. work[p].report \in {NoReport} \cup shaky' /\ AuditsSound(audits', residue)
    BY <1>4, Shapes DEF CleanupCrash
  <2> QED
    BY <1>1, <2>1, RestLemma
<1> QED
  BY <1>2, <1>3, <1>4

------------------------------------------------------------------------------

LEMMA InitInv == CleanupInit => IInv
<1> SUFFICES ASSUME CleanupInit
    PROVE  IInv
  OBVIOUS
<1>1. PICK status \in [ReportIds -> Pending \cup {"approved"}] :
        /\ reports = [r \in ReportIds |-> [status |-> status[r], artifact |-> status[r]]]
        /\ files = {<<r, status[r]>> : r \in ReportIds}
  BY DEF CleanupInit, MailboxLeft
<1>2. \A r \in ReportIds : status[r] \in MailboxStates
  BY DEF Pending, MailboxStates
<1>3. /\ reports \in [ReportIds -> [status : MailboxStates, artifact : MailboxStates]]
      /\ files \subseteq ReportIds \X MailboxStates
      /\ \A r \in ReportIds : reports[r].artifact = status[r]
  BY <1>1, <1>2
<1>4. \A r \in ReportIds : FilesOf(r, files) = {status[r]}
  BY <1>1, <1>2 DEF FilesOf
<1>5. /\ legacy \subseteq CleanupRuns /\ audits = {}
      /\ rows = [r \in CleanupRuns |->
                   [revision |-> IF r \in legacy THEN 0 ELSE 1,
                    status |-> "awaiting_author_review", by |-> "other"]]
      /\ residue \in [Residue -> [at : {"callbacks"}, said : Sayings]]
      /\ work = [p \in Cleaners |-> Resting]
  BY DEF CleanupInit, RunsLeft
<1>6. rows \in [CleanupRuns -> RunRows] /\ LegacySound
  BY <1>5 DEF RunRows, RUN_STATES, LegacySound
<1>7. residue \in [Residue -> Left]
  BY <1>5 DEF Left
<1>8. Types /\ \A p \in Cleaners : Fine(work[p])
  BY <1>3, <1>5, <1>6, <1>7, RestingFine DEF Types, Fine
<1>9. \A r \in ReportIds : ReportSound(r, work, reports, files)
  BY <1>3, <1>4, <1>5, RestingFine DEF ReportSound, Takes
<1> QED
  BY <1>5, <1>6, <1>8, <1>9 DEF IInv, Sound, AuditsSound

LEMMA NextInv == IInv /\ [CleanupNext]_cleanupVars => IInv'
<1> SUFFICES ASSUME IInv, [CleanupNext]_cleanupVars
    PROVE  IInv'
  OBVIOUS
<1>1. ASSUME NEW p \in Cleaners, Moving(p)
      PROVE  IInv'
  BY <1>1, ReadReportInv, RenderInv, UnlinkInv, UpdateInv, MoveDoneInv DEF Moving
<1>2. ASSUME NEW p \in Cleaners, RejectingRuns(p)
      PROVE  IInv'
  BY <1>2, ListRunsInv, RejectRunInv, RunsEndInv DEF RejectingRuns
<1>3. ASSUME NEW p \in Cleaners, Archiving(p) \/ CleanupCrash(p)
      PROVE  IInv'
  BY <1>3, ScanInv, ArchiveFileInv, LastInv DEF Archiving
<1>4. CASE UNCHANGED cleanupVars
  BY <1>4 DEF cleanupVars, cleanupRows, auditVars, mailbox, IInv, Types, Sound, LegacySound, Fine
<1> QED
  BY <1>1, <1>2, <1>3, <1>4, GiveInv, SaveInv DEF CleanupNext

\* Only a rejection lets the cleanup write a row.
LEMMA StepRejects ==
  ASSUME IInv, [CleanupNext]_cleanupVars
  PROVE  RejectedFromReview
<1>1. CASE UNCHANGED rows
  BY <1>1 DEF RejectedFromReview
<1>2. ASSUME NEW r \in CleanupRuns, NEW status \in SavedStatuses, SaveElsewhere(r, status)
      PROVE  RejectedFromReview
  BY <1>2, Shapes DEF SaveElsewhere, Revised, RejectedFromReview, TypesOf
<1>3. ASSUME NEW p \in Cleaners, ListRuns(p)
      PROVE  RejectedFromReview
  <2>1. \A r \in CleanupRuns : rows'[r].by = rows[r].by /\ (r \notin legacy => rows'[r] = rows[r])
    BY <1>3, Shapes DEF ListRuns, TypesOf, RunRows
  <2> QED
    BY <2>1, Shapes DEF LegacySound, RejectedFromReview
<1>4. ASSUME NEW p \in Cleaners, NEW l \in work[p].listed,
             RejectRun(p, l) \/ RejectRunUnprojected(p, l)
      PROVE  RejectedFromReview
  BY <1>4, RejectLemma DEF RejectRun, RejectRunUnprojected, RejectedFromReview
<1>5. ASSUME NEW p \in Cleaners,
             \/ \E archive \in BOOLEAN : RejectPending(p, archive)
             \/ ArchiveResidue(p)
             \/ \E r \in ReportIds, to \in Moves : MoveReport(p, r, to)
             \/ Moving(p) \/ CleanupCrash(p)
      PROVE  UNCHANGED rows
  BY <1>5 DEF RejectPending, ArchiveResidue, MoveReport, Moving, ReadReport, RenderMoved,
              UnlinkOld, UpdateMoved, MoveDone, CleanupCrash, cleanupRows
<1>6. ASSUME NEW p \in Cleaners,
             (\E l \in work[p].listed : RunConflict(p, l)) \/ RunsDone(p) \/ Archiving(p)
      PROVE  UNCHANGED rows
  BY <1>6 DEF RunConflict, RunsDone, Archiving, Scan, ArchiveFile, FileGone, FilesDone,
              WriteAudit, cleanupRows
<1>7. CASE UNCHANGED cleanupVars
  BY <1>1, <1>7 DEF cleanupVars, cleanupRows
<1> QED
  BY <1>1, <1>2, <1>3, <1>4, <1>5, <1>6, <1>7 DEF CleanupNext, RejectingRuns

------------------------------------------------------------------------------
(* Cleanup: what is in no audit *)

\* Account b tells all that a does.
Covers(b, a) ==
  a.reports \subseteq b.reports /\ a.runs \subseteq b.runs /\ a.files \subseteq b.files
\* A step forgets nothing, and tells of each run and each file that it changes.
StepTold ==
  /\ \A a \in Accounts : \E b \in Accounts' : Covers(b, a)
  /\ \A r \in CleanupRuns : rows'[r].by = "cleanup" =>
       rows[r].by = "cleanup" \/ \E b \in Accounts' : r \in b.runs
  /\ \A c \in Residue : residue'[c].at = "archive" =>
       residue[c].at = "archive" \/ \E b \in Accounts' : c \in b.files

LEMMA AccountsAre ==
  /\ \A a : a \in Accounts <=>
       a \in audits \cup failed \cup died \/ \E q \in Cleaners : Bulk(q) /\ a = Account(q)
  /\ \A q : /\ Account(q).reports = work[q].moved /\ Account(q).runs = work[q].rejected
            /\ Account(q).files = work[q].archived
BY DEF Accounts, Account

\* What the others account for stays, and what this one does if it is told.
LEMMA OthersTold ==
  ASSUME IInv, NEW p \in Cleaners, NEW w \in Works, work' = [work EXCEPT ![p] = w],
         audits \subseteq audits', failed \subseteq failed', died \subseteq died',
         Bulk(p) => \E b \in Accounts' : Covers(b, Account(p))
  PROVE  \A a \in Accounts : \E b \in Accounts' : Covers(b, a)
<1>1. \A q \in Cleaners \ {p} : work'[q] = work[q]
  BY Shapes
<1>2. \A q \in Cleaners \ {p} : Bulk(q) => Account(q) \in Accounts'
  <2>1. \A q \in Cleaners \ {p} : Bulk(q)' = Bulk(q) /\ Account(q)' = Account(q)
    BY <1>1 DEF Bulk, Working, Account
  <2> QED
    BY <2>1 DEF Accounts
<1>3. \A a \in audits \cup failed \cup died : a \in Accounts'
  BY DEF Accounts
<1>4. \A a : Covers(a, a)
  BY DEF Covers
<1> SUFFICES ASSUME NEW a \in Accounts
    PROVE  \E b \in Accounts' : Covers(b, a)
  OBVIOUS
<1>5. a \in audits \cup failed \cup died \/ \E q \in Cleaners : Bulk(q) /\ a = Account(q)
  BY AccountsAre
<1> QED
  BY <1>2, <1>3, <1>4, <1>5

\* A command goes on, and forgets nothing.
LEMMA GoesOn ==
  ASSUME IInv, NEW p \in Cleaners, NEW w \in Works, work' = [work EXCEPT ![p] = w],
         UNCHANGED auditVars, Working(p), w.op = work[p].op, work[p].moved \subseteq w.moved,
         work[p].rejected \subseteq w.rejected, work[p].archived \subseteq w.archived
  PROVE  /\ \A a \in Accounts : \E b \in Accounts' : Covers(b, a)
         /\ Bulk(p) => \E b \in Accounts' : b.runs = w.rejected /\ b.files = w.archived
<1>1. work'[p] = w
  BY Shapes
<1>2. Bulk(p)' = Bulk(p)
  BY <1>1 DEF Bulk, Working
<1>3. Bulk(p) => Account(p)' \in Accounts'
  BY <1>2 DEF Accounts
<1>4. /\ Account(p)'.reports = w.moved /\ Account(p)'.runs = w.rejected
      /\ Account(p)'.files = w.archived
  BY <1>1 DEF Account
<1>5. Covers(Account(p)', Account(p))
  BY <1>4, AccountsAre DEF Covers
<1>6. audits \subseteq audits' /\ failed \subseteq failed' /\ died \subseteq died'
  BY DEF auditVars
<1> QED
  BY <1>3, <1>4, <1>5, <1>6, OthersTold

\* A command ends, and what it did is told.
LEMMA EndsTold ==
  ASSUME IInv, NEW p \in Cleaners, Rest(p),
         audits \subseteq audits', failed \subseteq failed', died \subseteq died',
         Bulk(p) => \E b \in audits' \cup failed' \cup died' : Covers(b, Account(p))
  PROVE  \A a \in Accounts : \E b \in Accounts' : Covers(b, a)
<1>1. Bulk(p) => \E b \in Accounts' : Covers(b, Account(p))
  BY DEF Accounts
<1>2. Resting \in Works /\ work' = [work EXCEPT ![p] = Resting]
  BY RestingFine DEF Rest
<1> QED
  BY <1>1, <1>2, OthersTold

\* Commands begin.
LEMMA GiveTold ==
  ASSUME IInv, NEW p \in Cleaners,
         \/ \E archive \in BOOLEAN : RejectPending(p, archive)
         \/ ArchiveResidue(p)
         \/ \E r \in ReportIds, to \in Moves : MoveReport(p, r, to)
  PROVE  StepTold
<1>1. /\ ~Working(p) /\ \E w : work' = [work EXCEPT ![p] = w]
      /\ UNCHANGED <<rows, residue, audits, failed, died>>
  BY DEF RejectPending, ArchiveResidue, MoveReport, Give, cleanupRows, auditVars
<1>2. work' \in [Cleaners -> Works]
  BY GiveInv, Shapes DEF IInv, Types
<1>3. work' = [work EXCEPT ![p] = work'[p]] /\ work'[p] \in Works
  BY <1>1, <1>2, Shapes
<1>4. \A a \in Accounts : \E b \in Accounts' : Covers(b, a)
  BY <1>1, <1>3, OthersTold DEF Bulk
<1> QED
  BY <1>1, <1>4 DEF StepTold

\* Steps of a command that change neither a run nor a file.
LEMMA MovingTold ==
  ASSUME IInv, NEW p \in Cleaners, IInv', Moving(p) \/ ListRuns(p) \/ RunsDone(p) \/ Scan(p)
                                          \/ FilesDone(p)
  PROVE  StepTold
<1> DEFINE w == work'[p]
<1>1. w \in Works /\ work[p] \in Works
  BY DEF IInv, Types
<1>2. /\ UNCHANGED auditVars /\ UNCHANGED residue
      /\ \A r \in CleanupRuns : rows'[r].by = rows[r].by
  <2>1. CASE Moving(p)
    BY <2>1 DEF Moving, ReadReport, RenderMoved, UnlinkOld, UpdateMoved, MoveDone, cleanupRows
  <2>2. CASE ListRuns(p)
    BY <2>2, Shapes DEF ListRuns, TypesOf, RunRows
  <2>3. CASE RunsDone(p) \/ Scan(p) \/ FilesDone(p)
    BY <2>3 DEF RunsDone, Scan, FilesDone, cleanupRows
  <2> QED
    BY <2>1, <2>2, <2>3
<1>3. CASE MoveDone(p)
  <2>1. ~Bulk(p) /\ Rest(p)
    BY <1>3 DEF MoveDone, Bulk
  <2> QED
    BY <1>2, <2>1, EndsTold DEF StepTold, auditVars
<1>4. CASE ~MoveDone(p)
  <2>1. /\ Working(p) /\ work' = [work EXCEPT ![p] = w] /\ w.op = work[p].op
        /\ work[p].moved \subseteq w.moved /\ work[p].rejected \subseteq w.rejected
        /\ work[p].archived \subseteq w.archived
    <3>1. CASE \E r \in ReportIds : ReadReport(p, r)
      BY <1>1, <3>1, Shapes DEF ReadReport, Stands, Works
    <3>2. CASE RenderMoved(p) \/ UnlinkOld(p)
      BY <1>1, <3>2, Shapes DEF RenderMoved, UnlinkOld, Stands, Works
    <3>3. CASE UpdateMoved(p)
      BY <1>1, <3>3, Shapes DEF UpdateMoved, Stands, Works
    <3>4. CASE ListRuns(p)
      BY <1>1, <3>4, Shapes DEF ListRuns, Stands, Works
    <3>5. CASE RunsDone(p) \/ Scan(p) \/ FilesDone(p)
      BY <1>1, <3>5, Shapes DEF RunsDone, Scan, FilesDone, Stands, Works
    <3> QED
      BY <1>4, <3>1, <3>2, <3>3, <3>4, <3>5 DEF Moving
  <2> HIDE DEF w
  <2> QED
    BY <1>1, <1>2, <2>1, GoesOn DEF StepTold
<1> QED
  BY <1>3, <1>4

\* A run is rejected, and the command goes on, or fails.
LEMMA RejectTold ==
  ASSUME IInv, NEW p \in Cleaners, NEW l \in work[p].listed,
         RejectRun(p, l) \/ RejectRunUnprojected(p, l)
  PROVE  StepTold
<1>1. /\ l.run \in CleanupRuns /\ \A q \in CleanupRuns \ {l.run} : rows'[q] = rows[q]
      /\ UNCHANGED residue
  BY RejectLemma DEF RejectRun, RejectRunUnprojected
<1>2. CASE RejectRun(p, l)
  <2> DEFINE w == [work[p] EXCEPT !.listed = @ \ {l}, !.rejected = @ \cup {l.run}]
  <2>1. /\ w \in Works /\ w.op = work[p].op /\ w.moved = work[p].moved
        /\ w.rejected = work[p].rejected \cup {l.run} /\ w.archived = work[p].archived
    BY <1>1, Facts DEF Works
  <2>2. work' = [work EXCEPT ![p] = w] /\ Working(p) /\ UNCHANGED auditVars
    BY <1>2, Facts, Shapes DEF RejectRun, Stands
  <2> HIDE DEF w
  <2>3. Bulk(p)
    BY <1>2, Facts DEF RejectRun, Stands, Bulk, Naming
  <2> QED
    BY <1>1, <2>1, <2>2, <2>3, GoesOn DEF StepTold
<1>3. CASE RejectRunUnprojected(p, l)
  <2> DEFINE a == [Account(p) EXCEPT !.runs = @ \cup {l.run}]
  <2>1. Covers(a, Account(p)) /\ l.run \in a.runs
    BY DEF Covers, Account
  <2> HIDE DEF a
  <2>2. a \in failed' /\ failed \subseteq failed' /\ Rest(p) /\ UNCHANGED <<audits, died>>
    BY <1>3 DEF RejectRunUnprojected, Fails, a
  <2>3. a \in Accounts'
    BY <2>2 DEF Accounts
  <2>4. \A b \in Accounts : \E d \in Accounts' : Covers(d, b)
    BY <2>1, <2>2, EndsTold
  <2> QED
    BY <1>1, <2>1, <2>3, <2>4 DEF StepTold
<1> QED
  BY <1>2, <1>3

\* A file is moved.
LEMMA ArchiveTold ==
  ASSUME IInv, NEW p \in Cleaners, NEW c \in Residue, ArchiveFile(p, c)
  PROVE  StepTold
<1> DEFINE w == [work[p] EXCEPT !.todo = @ \ {c}, !.archived = @ \cup {c}]
<1>1. /\ w \in Works /\ w.op = work[p].op /\ w.moved = work[p].moved
      /\ w.rejected = work[p].rejected /\ w.archived = work[p].archived \cup {c}
  BY Facts DEF Works
<1>2. /\ work' = [work EXCEPT ![p] = w] /\ Working(p) /\ UNCHANGED <<auditVars, rows>>
      /\ \A z \in Residue \ {c} : residue'[z] = residue[z]
  BY Facts, Shapes DEF ArchiveFile, Stands, cleanupRows, TypesOf
<1>3. Bulk(p)
  BY Facts DEF ArchiveFile, Stands, Bulk, Naming
<1> HIDE DEF w
<1> QED
  BY <1>1, <1>2, <1>3, GoesOn DEF StepTold

\* A command ends: with its audit, with an error, or because it dies.
LEMMA LastTold ==
  ASSUME IInv, NEW p \in Cleaners,
         \/ \E l \in work[p].listed : RunConflict(p, l)
         \/ \E c \in Residue : FileGone(p, c)
         \/ WriteAudit(p) \/ CleanupCrash(p)
  PROVE  StepTold
<1>1. Covers(Account(p), Account(p))
  BY DEF Covers
<1>2. /\ Rest(p) /\ UNCHANGED <<rows, residue>>
      /\ audits \subseteq audits' /\ failed \subseteq failed' /\ died \subseteq died'
      /\ Bulk(p) => Account(p) \in audits' \cup failed' \cup died'
  BY DEF RunConflict, FileGone, WriteAudit, CleanupCrash, Fails, cleanupRows
<1> QED
  BY <1>1, <1>2, EndsTold DEF StepTold

LEMMA StepTells == IInv /\ [CleanupNext]_cleanupVars => StepTold
<1> SUFFICES ASSUME IInv, [CleanupNext]_cleanupVars
    PROVE  StepTold
  OBVIOUS
<1>1. IInv'
  BY NextInv
<1>2. CASE UNCHANGED <<rows, residue, auditVars, work>>
  <2>1. Accounts' = Accounts
    BY <1>2 DEF Accounts, Account, Bulk, Working, auditVars
  <2> QED
    BY <1>2, <2>1 DEF StepTold, Covers
<1>3. ASSUME NEW r \in CleanupRuns, NEW status \in SavedStatuses, SaveElsewhere(r, status)
      PROVE  StepTold
  <2>1. Accounts' = Accounts /\ UNCHANGED residue
    BY <1>3 DEF SaveElsewhere, Accounts, Account, Bulk, Working, auditVars
  <2>2. \A q \in CleanupRuns : rows'[q].by = "cleanup" => rows[q].by = "cleanup"
    BY <1>3, Shapes DEF SaveElsewhere, Revised, TypesOf
  <2> QED
    BY <2>1, <2>2 DEF StepTold, Covers
<1>4. CASE UNCHANGED cleanupVars
  BY <1>2, <1>4 DEF cleanupVars, cleanupRows
<1>5. ASSUME NEW p \in Cleaners, Moving(p) \/ RejectingRuns(p) \/ Archiving(p) \/ CleanupCrash(p)
      PROVE  StepTold
  BY <1>1, <1>5, MovingTold, RejectTold, ArchiveTold, LastTold DEF RejectingRuns, Archiving
<1> QED
  BY <1>3, <1>4, <1>5, GiveTold DEF CleanupNext

------------------------------------------------------------------------------
(* Cleanup: theorems *)

\* IInv is an invariant.
THEOREM Inductive == CleanupSpec => []IInv
  BY InitInv, NextInv, PTL DEF CleanupSpec

\* Every report that nobody moves has the file its row names and no other, unless two of
\* its transitions overlapped or one died (transition_report, reject_pending_review).
THEOREM ReportsHaveTheirFiles == CleanupSpec => []ReportHasItsFile
<1>1. IInv => ReportHasItsFile
  BY Shapes
     DEF ReportHasItsFile, ReportSound, Touches, Working, Takes, FilesOf
<1> QED
  BY <1>1, Inductive, PTL

\* AuditIsComplete, kept.
LEMMA CompleteKept ==
  IInv /\ [CleanupNext]_cleanupVars /\ AuditIsComplete => AuditIsComplete' /\ ReportsStayTold
<1> SUFFICES ASSUME IInv, [CleanupNext]_cleanupVars, AuditIsComplete
    PROVE  AuditIsComplete' /\ ReportsStayTold
  OBVIOUS
<1>1. StepTold
  BY StepTells
<1> QED
  BY <1>1 DEF StepTold, Covers, AuditIsComplete, ReportsStayTold

LEMMA CompleteStart == CleanupInit => AuditIsComplete
<1> SUFFICES ASSUME CleanupInit
    PROVE  AuditIsComplete
  OBVIOUS
<1>1. /\ \A r \in CleanupRuns : rows[r].by = "other"
      /\ residue \in [Residue -> [at : {"callbacks"}, said : Sayings]]
  BY DEF CleanupInit, RunsLeft
<1>2. \A c \in Residue : residue[c].at = "callbacks"
  BY <1>1
<1> QED
  BY <1>1, <1>2 DEF AuditIsComplete

\* Bulk rejection rejects a run only from author review although it lists first; an audit
\* lists only files of this world that were archived; and what is in no audit was changed
\* by a command at work, or by one that failed or died (reject_pending_review,
\* archive_callback_residue).
THEOREM CleanupRecorded == CleanupSpec => CleanupIsRecorded
<1>1. IInv => AuditIsTrue
  BY Shapes DEF AuditIsTrue, AuditsSound, Archived, Scoped
<1>2. CleanupSpec => []AuditIsComplete
  BY CompleteStart, CompleteKept, Inductive, PTL DEF CleanupSpec
<1>3. IInv /\ IInv' /\ AuditIsComplete /\ [CleanupNext]_cleanupVars
        => [RejectedFromReview /\ AuditIsTrue' /\ AuditIsComplete' /\ ReportsStayTold]_cleanupVars
  <2>1. IInv' => AuditIsTrue'
    BY <1>1, PTL
  <2> QED
    BY <2>1, StepRejects, CompleteKept
<1> QED
  BY <1>2, <1>3, Inductive, PTL DEF CleanupSpec, CleanupIsRecorded

------------------------------------------------------------------------------
(* Meetings and scenes: what an agenda has *)

ReportSteps == {"report", "render", "name"}
Deeds == {"actor", "scene", "event", "commit", "ticket"}
FileNames == {"transcript", "receipt", "progress", "marker"}
Texts ==
  {"agenda", "contribution", "summary", "assignment", "context", "proposal", "progress",
   "packet", "final"}
Items ==
  [op : ReportSteps \cup Deeds \cup {"session", "row", "envelope", "file"}, session : Nat,
   what : {"none"} \cup FileNames \cup Texts]
IsMarker(item) == item.op = "file" /\ item.what = "marker"
IsReceipt(item) == item.op = "file" /\ item.what = "receipt"

\* Each row is followed by its envelope, and there are no other envelopes.
Paired(a) ==
  \A i \in 1..Len(a) :
    /\ a[i].op = "row" => i < Len(a) /\ a[i + 1].op = "envelope"
    /\ a[i].op = "envelope" => i > 1 /\ a[i - 1].op = "row"

\* A part of an agenda, before or after the report.
Part(a) ==
  /\ a \in Seq(Items) /\ Paired(a)
  /\ \A i \in 1..Len(a) : a[i].op \notin ReportSteps /\ ~IsMarker(a[i])

Has(a, item) == \E i \in 1..Len(a) : a[i] = item
HasOp(a, op) == \E i \in 1..Len(a) : a[i].op = op

Early(a) == \A i \in 1..Len(a) : a[i].op \in {"actor", "scene"}

\* There is a receipt, and nothing before it but actors and a scene.
Receipted(a) ==
  \E j \in 1..Len(a) :
    /\ IsReceipt(a[j])
    /\ \A i \in 1..(j - 1) : a[i].op \in {"actor", "scene"}

Said(item, s) ==
  item.op = "row" /\ item.session = s /\ item.what \in {"contribution", "proposal"}
Answers(a) == \A s \in Seats : \E i \in 1..Len(a) : Said(a[i], s)

LEMMA JoinedItems ==
  ASSUME NEW a \in Seq(Items), NEW b \in Seq(Items)
  PROVE  /\ a \o b \in Seq(Items)
         /\ Len(a) \in Nat /\ Len(b) \in Nat /\ Len(a \o b) = Len(a) + Len(b)
         /\ \A i \in 1..Len(a) : (a \o b)[i] = a[i]
         /\ \A i \in 1..Len(b) : (a \o b)[Len(a) + i] = b[i]
         /\ \A i \in 1..Len(a \o b) :
              \/ i \in 1..Len(a)
              \/ i - Len(a) \in 1..Len(b) /\ i = Len(a) + (i - Len(a))
<1>1. a \o b \in Seq(Items) /\ Len(a) \in Nat /\ Len(b) \in Nat
  OBVIOUS
<1>2. Len(a \o b) = Len(a) + Len(b)
  OBVIOUS
<1>3. \A i \in 1..Len(a) : (a \o b)[i] = a[i]
  OBVIOUS
<1>4. \A i \in 1..Len(b) : (a \o b)[Len(a) + i] = b[i]
  OBVIOUS
<1>5. \A i \in 1..Len(a \o b) :
        \/ i \in 1..Len(a)
        \/ i - Len(a) \in 1..Len(b) /\ i = Len(a) + (i - Len(a))
  BY <1>1, <1>2
<1> QED
  BY <1>1, <1>2, <1>3, <1>4, <1>5

LEMMA JoinedPairs ==
  ASSUME NEW a \in Seq(Items), NEW b \in Seq(Items), Paired(a), Paired(b)
  PROVE  Paired(a \o b)
<1> DEFINE c == a \o b
<1>1. /\ Len(a) \in Nat /\ Len(b) \in Nat /\ Len(c) = Len(a) + Len(b)
      /\ \A i \in 1..Len(a) : c[i] = a[i]
      /\ \A i \in 1..Len(b) : c[Len(a) + i] = b[i]
      /\ \A i \in 1..Len(c) :
           i \in 1..Len(a) \/ (i - Len(a) \in 1..Len(b) /\ i = Len(a) + (i - Len(a)))
  BY JoinedItems
<1> HIDE DEF c
<1>2. ASSUME NEW i \in 1..Len(a)
      PROVE  /\ c[i].op = "row" => i < Len(c) /\ c[i + 1].op = "envelope"
             /\ c[i].op = "envelope" => i > 1 /\ c[i - 1].op = "row"
  <2>1. c[i] = a[i] /\ Len(a) <= Len(c)
    BY <1>1
  <2>2. i < Len(a) => c[i + 1] = a[i + 1]
    BY <1>1
  <2>3. i > 1 => c[i - 1] = a[i - 1]
    BY <1>1
  <2>4. /\ a[i].op = "row" => i < Len(a) /\ a[i + 1].op = "envelope"
        /\ a[i].op = "envelope" => i > 1 /\ a[i - 1].op = "row"
    BY DEF Paired
  <2> QED
    BY <1>1, <2>1, <2>2, <2>3, <2>4
<1>3. ASSUME NEW j \in 1..Len(b)
      PROVE  /\ c[Len(a) + j].op = "row" =>
                  Len(a) + j < Len(c) /\ c[Len(a) + j + 1].op = "envelope"
             /\ c[Len(a) + j].op = "envelope" =>
                  Len(a) + j > 1 /\ c[Len(a) + j - 1].op = "row"
  <2>1. c[Len(a) + j] = b[j]
    BY <1>1
  <2>2. j < Len(b) => c[Len(a) + j + 1] = b[j + 1]
    <3>1. j < Len(b) => j + 1 \in 1..Len(b) /\ Len(a) + (j + 1) = Len(a) + j + 1
      BY <1>1
    <3> QED
      BY <1>1, <3>1
  <2>3. j > 1 => c[Len(a) + j - 1] = b[j - 1]
    <3>1. j > 1 => j - 1 \in 1..Len(b) /\ Len(a) + (j - 1) = Len(a) + j - 1
      BY <1>1
    <3> QED
      BY <1>1, <3>1
  <2>4. /\ b[j].op = "row" => j < Len(b) /\ b[j + 1].op = "envelope"
        /\ b[j].op = "envelope" => j > 1 /\ b[j - 1].op = "row"
    BY DEF Paired
  <2> QED
    BY <1>1, <2>1, <2>2, <2>3, <2>4
<1>4. Paired(c)
  <2>1. ASSUME NEW i \in 1..Len(c)
        PROVE  /\ c[i].op = "row" => i < Len(c) /\ c[i + 1].op = "envelope"
               /\ c[i].op = "envelope" => i > 1 /\ c[i - 1].op = "row"
    <3>1. CASE i \in 1..Len(a)
      BY <1>2, <3>1
    <3>2. CASE i - Len(a) \in 1..Len(b) /\ i = Len(a) + (i - Len(a))
      <4> DEFINE j == i - Len(a)
      <4>1. j \in 1..Len(b) /\ i = Len(a) + j
        BY <3>2
      <4> HIDE DEF j
      <4> QED
        BY <1>3, <4>1
    <3> QED
      BY <1>1, <3>1, <3>2
  <2> QED
    BY <2>1 DEF Paired
<1> QED
  BY <1>4 DEF c

\* What two parts have, both together have.
LEMMA Joined ==
  ASSUME NEW a, NEW b, Part(a), Part(b)
  PROVE  /\ Part(a \o b)
         /\ \A item \in Items : Has(a, item) \/ Has(b, item) => Has(a \o b, item)
         /\ \A op : HasOp(a, op) \/ HasOp(b, op) => HasOp(a \o b, op)
         /\ Early(a) /\ Early(b) => Early(a \o b)
         /\ Receipted(a) => Receipted(a \o b)
         /\ Answers(a) \/ Answers(b) => Answers(a \o b)
<1> DEFINE c == a \o b
<1>1. /\ c \in Seq(Items) /\ Paired(c)
      /\ Len(a) \in Nat /\ Len(b) \in Nat /\ Len(c) = Len(a) + Len(b)
      /\ \A i \in 1..Len(a) : c[i] = a[i]
      /\ \A i \in 1..Len(b) : c[Len(a) + i] = b[i]
      /\ \A i \in 1..Len(c) :
           i \in 1..Len(a) \/ (i - Len(a) \in 1..Len(b) /\ i = Len(a) + (i - Len(a)))
  BY JoinedItems, JoinedPairs DEF Part
<1> HIDE DEF c
<1>2. \A i \in 1..Len(a) : i \in 1..Len(c)
  BY <1>1
<1>3. \A i \in 1..Len(b) : Len(a) + i \in 1..Len(c)
  BY <1>1
<1>4. Part(c)
  BY <1>1 DEF Part
<1>5. \A item \in Items : Has(a, item) \/ Has(b, item) => Has(c, item)
  BY <1>1, <1>2, <1>3 DEF Has
<1>6. \A op : HasOp(a, op) \/ HasOp(b, op) => HasOp(c, op)
  BY <1>1, <1>2, <1>3 DEF HasOp
<1>7. ASSUME Receipted(a)
      PROVE  Receipted(c)
  <2>1. PICK j \in 1..Len(a) :
          IsReceipt(a[j]) /\ \A i \in 1..(j - 1) : a[i].op \in {"actor", "scene"}
    BY <1>7 DEF Receipted
  <2>2. \A i \in 1..(j - 1) : i \in 1..Len(a)
    BY <1>1
  <2>3. /\ j \in 1..Len(c) /\ IsReceipt(c[j])
        /\ \A i \in 1..(j - 1) : c[i].op \in {"actor", "scene"}
    BY <1>1, <1>2, <2>1, <2>2
  <2> QED
    BY <2>3 DEF Receipted
<1>9. ASSUME Early(a), Early(b)
      PROVE  Early(c)
  <2>1. ASSUME NEW i \in 1..Len(c)
        PROVE  c[i].op \in {"actor", "scene"}
    <3>1. CASE i \in 1..Len(a)
      BY <1>1, <1>9, <3>1 DEF Early
    <3>2. CASE i \notin 1..Len(a)
      <4>1. PICK k \in 1..Len(b) : i = Len(a) + k
        BY <1>1, <3>2
      <4> QED
        BY <1>1, <1>9, <4>1 DEF Early
    <3> QED
      BY <3>1, <3>2
  <2> QED
    BY <2>1 DEF Early
<1>8. Answers(a) \/ Answers(b) => Answers(c)
  BY <1>1, <1>2, <1>3 DEF Answers
<1> QED
  BY <1>4, <1>5, <1>6, <1>7, <1>8, <1>9 DEF c

\* An agenda: its first part, the report, a second part, and the marker last.
Framed(a, x, n) ==
  /\ a \in Seq(Items) /\ Paired(a) /\ n \in Nat /\ 0 < n /\ n + 2 < Len(a)
  /\ \A i \in 1..Len(a) :
       /\ (a[i].op = "report" <=> i = n) /\ (a[i].op = "render" <=> i = n + 1)
       /\ (a[i].op = "name" <=> i = n + 2) /\ (IsMarker(a[i]) <=> i = Len(a))
  /\ \A op : HasOp(x, op) => HasOp(a, op)
  /\ (Receipted(x) => Receipted(a)) /\ (Answers(x) => Answers(a))

LEMMA OneItem ==
  ASSUME NEW op \in ReportSteps \cup Deeds
  PROVE  Do(op) \in Seq(Items) /\ Len(Do(op)) = 1 /\ Do(op)[1].op = op
<1>1. [op |-> op, session |-> Manager, what |-> "none"] \in Items
  BY DEF Items, Manager
<1>2. Do(op) = <<[op |-> op, session |-> Manager, what |-> "none"]>>
  BY DEF Do
<1> QED
  BY <1>1, <1>2

LEMMA ReportIsThree ==
  /\ FileReport \in Seq(Items) /\ Len(FileReport) = 3 /\ Paired(FileReport)
  /\ FileReport[1].op = "report" /\ FileReport[2].op = "render" /\ FileReport[3].op = "name"
<1> DEFINE one == Do("report")
           two == Do("render")
           three == Do("name")
<1>1. /\ one \in Seq(Items) /\ two \in Seq(Items) /\ three \in Seq(Items)
      /\ Len(one) = 1 /\ Len(two) = 1 /\ Len(three) = 1
      /\ one[1].op = "report" /\ two[1].op = "render" /\ three[1].op = "name"
  BY OneItem DEF ReportSteps
<1> HIDE DEF one, two, three
<1>2. /\ one \o two \in Seq(Items) /\ Len(one \o two) = 2
      /\ (one \o two)[1].op = "report" /\ (one \o two)[2].op = "render"
  BY <1>1
<1>3. /\ (one \o two) \o three \in Seq(Items) /\ Len((one \o two) \o three) = 3
      /\ ((one \o two) \o three)[1].op = "report" /\ ((one \o two) \o three)[2].op = "render"
      /\ ((one \o two) \o three)[3].op = "name"
  BY <1>1, <1>2
<1>4. FileReport = (one \o two) \o three
  BY DEF FileReport, one, two, three
<1>5. \A i \in 1..Len(FileReport) : FileReport[i].op \in {"report", "render", "name"}
  <2>1. \A i \in 1..3 : i = 1 \/ i = 2 \/ i = 3
    OBVIOUS
  <2> QED
    BY <1>3, <1>4, <2>1
<1>6. Paired(FileReport)
  BY <1>5 DEF Paired
<1> QED
  BY <1>3, <1>4, <1>6

LEMMA FileIsOne ==
  ASSUME NEW name \in FileNames
  PROVE  /\ File(name) \in Seq(Items) /\ Len(File(name)) = 1 /\ Paired(File(name))
         /\ File(name)[1] = [op |-> "file", session |-> 0, what |-> name]
<1>1. [op |-> "file", session |-> 0, what |-> name] \in Items
  BY DEF Items
<1>2. File(name) = <<[op |-> "file", session |-> 0, what |-> name]>>
  BY DEF File, Manager
<1>3. /\ File(name) \in Seq(Items) /\ Len(File(name)) = 1
      /\ File(name)[1] = [op |-> "file", session |-> 0, what |-> name]
  BY <1>1, <1>2
<1>4. \A i \in 1..Len(File(name)) : File(name)[i].op = "file"
  BY <1>3
<1> QED
  BY <1>3, <1>4 DEF Paired

LEMMA Frame ==
  ASSUME NEW x, NEW y, Part(x), Part(y)
  PROVE  Framed(((x \o FileReport) \o y) \o File("marker"), x, Len(x) + 1)
<1> DEFINE n == Len(x) + 1
           f == FileReport
           m == File("marker")
           u == x \o f
           v == u \o y
           a == v \o m
<1>1. /\ f \in Seq(Items) /\ Len(f) = 3 /\ Paired(f)
      /\ f[1].op = "report" /\ f[2].op = "render" /\ f[3].op = "name"
      /\ m \in Seq(Items) /\ Len(m) = 1 /\ IsMarker(m[1]) /\ Paired(m)
      /\ x \in Seq(Items) /\ Paired(x) /\ y \in Seq(Items) /\ Paired(y)
  BY ReportIsThree, FileIsOne DEF Part, IsMarker, FileNames
<1> HIDE DEF f, m
<1>2. /\ u \in Seq(Items) /\ Paired(u) /\ Len(x) \in Nat /\ Len(u) = Len(x) + 3
      /\ \A i \in 1..Len(x) : u[i] = x[i]
      /\ u[n] = f[1] /\ u[n + 1] = f[2] /\ u[n + 2] = f[3]
  <2>1. /\ u \in Seq(Items) /\ Paired(u) /\ Len(x) \in Nat /\ Len(u) = Len(x) + 3
        /\ \A i \in 1..Len(x) : u[i] = x[i]
        /\ \A i \in 1..Len(f) : u[Len(x) + i] = f[i]
    <3>1. u \in Seq(Items) /\ Len(x) \in Nat /\ Len(u) = Len(x) + Len(f)
      BY <1>1, JoinedItems
    <3>2. \A i \in 1..Len(x) : u[i] = x[i]
      BY <1>1, JoinedItems
    <3>3. \A i \in 1..Len(f) : u[Len(x) + i] = f[i]
      BY <1>1, JoinedItems
    <3>4. Paired(u)
      BY <1>1, JoinedPairs
    <3> QED
      BY <1>1, <3>1, <3>2, <3>3, <3>4
  <2>2. 1 \in 1..Len(f) /\ 2 \in 1..Len(f) /\ 3 \in 1..Len(f)
    BY <1>1
  <2>3. u[Len(x) + 1] = f[1] /\ u[Len(x) + 2] = f[2] /\ u[Len(x) + 3] = f[3]
    BY <2>1, <2>2
  <2>4. n + 1 = Len(x) + 2 /\ n + 2 = Len(x) + 3
    BY <2>1
  <2> QED
    BY <2>1, <2>3, <2>4
<1> HIDE DEF u
<1>3. /\ v \in Seq(Items) /\ Paired(v) /\ Len(y) \in Nat /\ Len(v) = Len(u) + Len(y)
      /\ \A i \in 1..Len(u) : v[i] = u[i]
      /\ \A i \in 1..Len(y) : v[Len(u) + i] = y[i]
  BY <1>1, <1>2, JoinedItems, JoinedPairs
<1> HIDE DEF v
<1>4. /\ a \in Seq(Items) /\ Paired(a) /\ Len(a) = Len(v) + 1
      /\ \A i \in 1..Len(v) : a[i] = v[i]
      /\ a[Len(a)] = m[1]
  <2>1. /\ a \in Seq(Items) /\ Paired(a) /\ Len(v) \in Nat /\ Len(a) = Len(v) + Len(m)
        /\ \A i \in 1..Len(v) : a[i] = v[i]
        /\ \A i \in 1..Len(m) : a[Len(v) + i] = m[i]
    BY <1>1, <1>3, JoinedItems, JoinedPairs
  <2>2. 1 \in 1..Len(m)
    BY <1>1
  <2> QED
    BY <1>1, <2>1, <2>2
<1> HIDE DEF a
<1>5. \A i \in 1..Len(x) : a[i] = x[i] /\ i \in 1..Len(a)
  BY <1>2, <1>3, <1>4
<1>6. a[n] = f[1] /\ a[n + 1] = f[2] /\ a[n + 2] = f[3]
  <2>1. \A i \in {n, n + 1, n + 2} : i \in 1..Len(u) /\ i \in 1..Len(v)
    BY <1>2, <1>3
  <2> QED
    BY <1>2, <1>3, <1>4, <2>1
<1>7. \A i \in 1..Len(y) : a[n + 2 + i] = y[i]
  <2>1. ASSUME NEW i \in 1..Len(y)
        PROVE  a[n + 2 + i] = y[i]
    <3>1. Len(u) + i \in 1..Len(v) /\ n + 2 + i = Len(u) + i
      BY <1>2, <1>3
    <3> QED
      BY <1>3, <1>4, <3>1
  <2> QED
    BY <2>1
<1>8. \A i \in 1..Len(a) :
        \/ i \in 1..Len(x)
        \/ i \in {n, n + 1, n + 2, Len(a)}
        \/ i - (n + 2) \in 1..Len(y) /\ i = n + 2 + (i - (n + 2))
  <2>1. Len(x) \in Nat /\ Len(y) \in Nat /\ Len(a) = Len(x) + 3 + Len(y) + 1
    BY <1>2, <1>3, <1>4
  <2> QED
    BY <2>1
<1>9. n \in Nat /\ Len(x) < n /\ n + 2 + Len(y) < Len(a) /\ Len(a) \in Nat
  <2>1. Len(x) \in Nat /\ Len(y) \in Nat /\ Len(a) = Len(x) + 3 + Len(y) + 1
    BY <1>2, <1>3, <1>4
  <2> QED
    BY <2>1
<1>10. ASSUME NEW i \in 1..Len(a)
       PROVE  /\ (a[i].op = "report" <=> i = n) /\ (a[i].op = "render" <=> i = n + 1)
              /\ (a[i].op = "name" <=> i = n + 2) /\ (IsMarker(a[i]) <=> i = Len(a))
  <2>1. CASE i \in 1..Len(x)
    <3>1. x[i].op \notin ReportSteps /\ ~IsMarker(x[i])
      BY <2>1 DEF Part
    <3>2. a[i].op \notin ReportSteps /\ ~IsMarker(a[i])
      BY <1>5, <2>1, <3>1
    <3>3. i # n /\ i # n + 1 /\ i # n + 2 /\ i # Len(a)
      BY <1>3, <1>9, <2>1
    <3> QED
      BY <3>2, <3>3 DEF ReportSteps
  <2>2. CASE i \in {n, n + 1, n + 2, Len(a)}
    BY <1>1, <1>3, <1>4, <1>6, <1>9, <2>2 DEF IsMarker
  <2>3. CASE i - (n + 2) \in 1..Len(y) /\ i = n + 2 + (i - (n + 2))
    <3>1. PICK j \in 1..Len(y) : i = n + 2 + j
      BY <2>3
    <3>2. a[i].op \notin ReportSteps /\ ~IsMarker(a[i])
      BY <1>7, <3>1 DEF Part
    <3> QED
      BY <1>3, <1>9, <3>1, <3>2 DEF ReportSteps
  <2> QED
    BY <1>8, <2>1, <2>2, <2>3
<1>11. \A op : HasOp(x, op) => HasOp(a, op)
  BY <1>5 DEF HasOp
<1>12. ASSUME Receipted(x)
       PROVE  Receipted(a)
  <2>1. PICK j \in 1..Len(x) :
          IsReceipt(x[j]) /\ \A i \in 1..(j - 1) : x[i].op \in {"actor", "scene"}
    BY <1>12 DEF Receipted
  <2>2. j \in 1..Len(a) /\ IsReceipt(a[j])
    BY <1>5, <2>1
  <2>3. \A i \in 1..(j - 1) : i \in 1..Len(x)
    BY <1>2
  <2>4. \A i \in 1..(j - 1) : a[i].op \in {"actor", "scene"}
    BY <1>5, <2>1, <2>3
  <2> QED
    BY <2>2, <2>4 DEF Receipted
<1>13. Answers(x) => Answers(a)
  BY <1>5 DEF Answers
<1>14. Framed(a, x, n)
  BY <1>3, <1>4, <1>9, <1>10, <1>11, <1>12, <1>13 DEF Framed
<1> QED
  BY <1>14 DEF a, v, u, m, f, n

------------------------------------------------------------------------------
(* The agendas *)

\* All parts that an agenda is made of.
LEMMA DoPart ==
  ASSUME NEW op \in Deeds
  PROVE  /\ Part(Do(op)) /\ HasOp(Do(op), op)
         /\ op \in {"actor", "scene"} => Early(Do(op))
<1>1. Do(op) \in Seq(Items) /\ Len(Do(op)) = 1 /\ Do(op)[1].op = op
  BY OneItem
<1>2. \A i \in 1..Len(Do(op)) : Do(op)[i].op = op
  BY <1>1
<1>3. 1 \in 1..Len(Do(op)) /\ op \notin ReportSteps /\ op \notin {"row", "envelope", "file"}
  BY <1>1 DEF Deeds, ReportSteps
<1> QED
  BY <1>1, <1>2, <1>3 DEF Part, Paired, HasOp, IsMarker, Early

LEMMA FilePart ==
  ASSUME NEW name \in FileNames \ {"marker"}
  PROVE  Part(File(name)) /\ (name = "receipt" => Receipted(File(name)))
<1>1. /\ File(name) \in Seq(Items) /\ Len(File(name)) = 1 /\ Paired(File(name))
      /\ File(name)[1].op = "file" /\ File(name)[1].what = name
  <2>1. name \in FileNames
    OBVIOUS
  <2>2. /\ File(name) \in Seq(Items) /\ Len(File(name)) = 1 /\ Paired(File(name))
        /\ File(name)[1] = [op |-> "file", session |-> 0, what |-> name]
    BY <2>1, FileIsOne
  <2> QED
    BY <2>2
<1>2. \A i \in 1..Len(File(name)) : i = 1
  BY <1>1
<1>3. Part(File(name))
  BY <1>1, <1>2 DEF Part, IsMarker, ReportSteps
<1> QED
  BY <1>1, <1>3 DEF Receipted, IsReceipt

LEMMA OpenPart ==
  ASSUME NEW s \in Nat
  PROVE  Part(Open(s)) /\ Len(Open(s)) = 1
<1>1. [op |-> "session", session |-> s, what |-> "none"] \in Items
  BY DEF Items
<1>2. Open(s) = <<[op |-> "session", session |-> s, what |-> "none"]>>
  BY DEF Open
<1>3. Open(s) \in Seq(Items) /\ Len(Open(s)) = 1 /\ Open(s)[1].op = "session"
  BY <1>1, <1>2
<1>4. \A i \in 1..Len(Open(s)) : Open(s)[i].op = "session"
  BY <1>3
<1> QED
  BY <1>3, <1>4 DEF Part, Paired, IsMarker, ReportSteps

LEMMA SendPart ==
  ASSUME NEW s \in Nat, NEW text \in Texts
  PROVE  /\ Part(Send(s, text)) /\ Len(Send(s, text)) = 2
         /\ Send(s, text)[1] = [op |-> "row", session |-> s, what |-> text]
<1> DEFINE row == [op |-> "row", session |-> s, what |-> text]
           envelope == [op |-> "envelope", session |-> s, what |-> text]
           a == Send(s, text)
<1>1. row \in Items /\ envelope \in Items /\ row.op = "row" /\ envelope.op = "envelope"
  BY DEF Items
<1>2. a = <<row, envelope>>
  BY DEF Send
<1> HIDE DEF row, envelope, a
<1>3. a \in Seq(Items) /\ Len(a) = 2 /\ a[1] = row /\ a[2] = envelope
  BY <1>1, <1>2
<1>4. \A i \in 1..Len(a) : i = 1 \/ i = 2
  BY <1>3
<1>5. Paired(a)
  BY <1>1, <1>3, <1>4 DEF Paired
<1>6. Part(a)
  BY <1>1, <1>3, <1>4, <1>5 DEF Part, ReportSteps, IsMarker
<1> QED
  BY <1>3, <1>6 DEF a, row

LEMMA Five ==
  ASSUME NEW n \in Nat, NEW k \in 1..(5 * n)
  PROVE  /\ (k + 4) \div 5 \in 1..n /\ ((k - 1) % 5) + 1 \in 1..5
         /\ ((k - 1) % 5) + 1 < 5 =>
              /\ k < 5 * n /\ ((k + 1) + 4) \div 5 = (k + 4) \div 5
              /\ (((k + 1) - 1) % 5) + 1 = ((k - 1) % 5) + 2
         /\ ((k - 1) % 5) + 1 > 1 =>
              /\ k > 1 /\ ((k - 1) + 4) \div 5 = (k + 4) \div 5
              /\ (((k - 1) - 1) % 5) + 1 = ((k - 1) % 5)
OBVIOUS

LEMMA FifthOf ==
  ASSUME NEW n \in Nat, NEW s \in 1..n
  PROVE  /\ 5 * s - 1 \in 1..(5 * n)
         /\ ((5 * s - 1) + 4) \div 5 = s /\ (((5 * s - 1) - 1) % 5) + 1 = 4
OBVIOUS

\* Four of the five items are two rows with their envelopes; the second is the answer.
LEMMA SeatPart ==
  ASSUME NEW s \in Nat, NEW told \in Texts, NEW answer \in Texts
  PROVE  /\ Part(SeatItems(s, told, answer)) /\ Len(SeatItems(s, told, answer)) = 5
         /\ SeatItems(s, told, answer)[4] = [op |-> "row", session |-> s, what |-> answer]
<1> DEFINE o == Open(s)
           t == Send(s, told)
           a == Send(s, answer)
<1>1. /\ Part(o) /\ Len(o) = 1 /\ Part(t) /\ Len(t) = 2 /\ Part(a) /\ Len(a) = 2
      /\ a[1] = [op |-> "row", session |-> s, what |-> answer]
  BY OpenPart, SendPart
<1> HIDE DEF o, t, a
<1>2. Part(o \o t) /\ o \in Seq(Items) /\ t \in Seq(Items) /\ a \in Seq(Items)
  BY <1>1, Joined DEF Part
<1>3. o \o t \in Seq(Items) /\ Len(o \o t) = 3 /\ Part((o \o t) \o a)
  <2>1. o \o t \in Seq(Items) /\ Len(o \o t) = Len(o) + Len(t)
    BY <1>2, JoinedItems
  <2>2. Part((o \o t) \o a)
    BY <1>1, <1>2, Joined
  <2> QED
    BY <1>1, <2>1, <2>2
<1>4. Len((o \o t) \o a) = 5
  <2>1. Len((o \o t) \o a) = Len(o \o t) + Len(a)
    BY <1>2, <1>3, JoinedItems
  <2> QED
    BY <1>1, <1>3, <2>1
<1>5. ((o \o t) \o a)[4] = a[1]
  <2>1. \A i \in 1..Len(a) : ((o \o t) \o a)[Len(o \o t) + i] = a[i]
    BY <1>2, <1>3, JoinedItems
  <2>2. 1 \in 1..Len(a) /\ Len(o \o t) + 1 = 4
    BY <1>1, <1>3
  <2> QED
    BY <2>1, <2>2
<1> QED
  BY <1>1, <1>3, <1>4, <1>5 DEF SeatItems, o, t, a

LEMMA EachSeatPart ==
  ASSUME gathering.seats \in Nat, NEW told \in Texts, NEW answer \in Texts
  PROVE  /\ Part(EachSeat(told, answer))
         /\ answer \in {"contribution", "proposal"} => Answers(EachSeat(told, answer))
<1> DEFINE n == gathering.seats
           a == EachSeat(told, answer)
           seat(k) == (k + 4) \div 5
           place(k) == ((k - 1) % 5) + 1
           item(s, r) == SeatItems(s, told, answer)[r]
<1>1. n \in Nat /\ 5 * n \in Nat
  OBVIOUS
<1>2. /\ Len(a) = 5 * n
      /\ \A k \in 1..(5 * n) : a[k] = item(seat(k), place(k))
  BY <1>1 DEF EachSeat
<1>3. \A s \in Nat, r \in 1..5 :
        /\ item(s, r) \in Items /\ item(s, r).op \notin ReportSteps /\ ~IsMarker(item(s, r))
        /\ item(s, r).op = "row" => r < 5 /\ item(s, r + 1).op = "envelope"
        /\ item(s, r).op = "envelope" => r > 1 /\ item(s, r - 1).op = "row"
  <2>1. ASSUME NEW s \in Nat
        PROVE  /\ Part(SeatItems(s, told, answer)) /\ Len(SeatItems(s, told, answer)) = 5
               /\ SeatItems(s, told, answer) \in Seq(Items)
    <3>1. Part(SeatItems(s, told, answer)) /\ Len(SeatItems(s, told, answer)) = 5
      BY SeatPart
    <3> QED
      BY <3>1 DEF Part
  <2>2. \A s \in Nat, r \in 1..5 : item(s, r) \in Items
    BY <2>1
  <2> QED
    BY <2>1, <2>2 DEF Part, Paired
<1>4. \A k \in 1..(5 * n) :
        /\ seat(k) \in Nat /\ place(k) \in 1..5
        /\ place(k) < 5 => k < 5 * n /\ seat(k + 1) = seat(k) /\ place(k + 1) = place(k) + 1
        /\ place(k) > 1 => k > 1 /\ seat(k - 1) = seat(k) /\ place(k - 1) = place(k) - 1
  BY <1>1, Five
<1>5. a \in Seq(Items)
  <2>1. a = [k \in 1..(5 * n) |-> item(seat(k), place(k))]
    BY DEF EachSeat
  <2> HIDE DEF a, seat, place, item
  <2>2. \A k \in 1..(5 * n) : item(seat(k), place(k)) \in Items
    BY <1>3, <1>4
  <2> QED
    BY <1>1, <2>1, <2>2
<1> HIDE DEF a, seat, place, item
<1>6. Paired(a)
  <2>1. ASSUME NEW k \in 1..Len(a)
        PROVE  /\ a[k].op = "row" => k < Len(a) /\ a[k + 1].op = "envelope"
               /\ a[k].op = "envelope" => k > 1 /\ a[k - 1].op = "row"
    <3>1. k \in 1..(5 * n) /\ a[k] = item(seat(k), place(k))
      BY <1>2
    <3>2. k < 5 * n => a[k + 1] = item(seat(k + 1), place(k + 1))
      BY <1>1, <1>2, <3>1
    <3>3. k > 1 => a[k - 1] = item(seat(k - 1), place(k - 1))
      BY <1>1, <1>2, <3>1
    <3>4. seat(k) \in Nat /\ place(k) \in 1..5
      BY <1>4, <3>1
    <3>5. CASE a[k].op = "row"
      <4>1. place(k) < 5 /\ item(seat(k), place(k) + 1).op = "envelope"
        BY <1>3, <3>1, <3>4, <3>5
      <4>2. k < 5 * n /\ seat(k + 1) = seat(k) /\ place(k + 1) = place(k) + 1
        BY <1>4, <3>1, <4>1
      <4> QED
        BY <1>2, <3>2, <3>5, <4>1, <4>2
    <3>6. CASE a[k].op = "envelope"
      <4>1. place(k) > 1 /\ item(seat(k), place(k) - 1).op = "row"
        BY <1>3, <3>1, <3>4, <3>6
      <4>2. k > 1 /\ seat(k - 1) = seat(k) /\ place(k - 1) = place(k) - 1
        BY <1>4, <3>1, <4>1
      <4> QED
        BY <3>3, <3>6, <4>1, <4>2
    <3> QED
      BY <3>5, <3>6
  <2> QED
    BY <2>1 DEF Paired
<1>7. Part(a)
  <2>1. ASSUME NEW k \in 1..Len(a)
        PROVE  a[k].op \notin ReportSteps /\ ~IsMarker(a[k])
    <3>1. /\ a[k] = item(seat(k), place(k)) /\ seat(k) \in Nat /\ place(k) \in 1..5
      BY <1>2, <1>4
    <3> QED
      BY <1>3, <3>1
  <2> QED
    BY <1>5, <1>6, <2>1 DEF Part
<1>8. ASSUME answer \in {"contribution", "proposal"}
      PROVE  Answers(a)
  <2>1. ASSUME NEW s \in Seats
        PROVE  \E i \in 1..Len(a) : Said(a[i], s)
    <3>1. 5 * s - 1 \in 1..(5 * n) /\ seat(5 * s - 1) = s /\ place(5 * s - 1) = 4
      BY <1>1, FifthOf DEF Seats, seat, place
    <3>2. s \in Nat
      BY <1>1 DEF Seats
    <3>3. a[5 * s - 1] = [op |-> "row", session |-> s, what |-> answer]
      BY <1>2, <3>1, <3>2, SeatPart DEF item
    <3>4. Said(a[5 * s - 1], s)
      BY <1>8, <3>3 DEF Said
    <3> QED
      BY <1>2, <3>1, <3>4
  <2> QED
    BY <2>1 DEF Answers
<1> QED
  BY <1>7, <1>8 DEF a

LEMMA ActorsPart ==
  ASSUME gathering.seats \in Nat \ {0}
  PROVE  Part(EachActor) /\ HasOp(EachActor, "actor") /\ Early(EachActor)
<1> DEFINE actor == [op |-> "actor", session |-> Manager, what |-> "none"]
           a == EachActor
<1>1. actor \in Items /\ actor.op = "actor"
  BY DEF Items, Manager, Deeds
<1>2. a = [s \in 1..gathering.seats |-> actor]
  BY DEF EachActor, Seats
<1> HIDE DEF actor, a
<1>3. /\ a \in Seq(Items) /\ Len(a) = gathering.seats
      /\ \A i \in 1..Len(a) : a[i].op = "actor"
  BY <1>1, <1>2
<1>4. Part(a)
  BY <1>3 DEF Part, Paired, IsMarker, ReportSteps
<1>5. HasOp(a, "actor")
  BY <1>3 DEF HasOp
<1>6. Early(a)
  BY <1>3 DEF Early
<1> QED
  BY <1>4, <1>5, <1>6 DEF a

\* What comes after actors and scene is a receipt.
LEMMA ReceiptAfter ==
  ASSUME NEW a, NEW b, Part(a), Part(b), Early(a), Receipted(b)
  PROVE  Receipted(a \o b)
<1>1. PICK j \in 1..Len(b) :
        IsReceipt(b[j]) /\ \A i \in 1..(j - 1) : b[i].op \in {"actor", "scene"}
  BY DEF Receipted
<1> DEFINE c == a \o b
<1>2. /\ Len(a) \in Nat /\ Len(b) \in Nat /\ Len(c) = Len(a) + Len(b)
      /\ \A i \in 1..Len(a) : c[i] = a[i]
      /\ \A i \in 1..Len(b) : c[Len(a) + i] = b[i]
      /\ \A i \in 1..Len(c) :
           i \in 1..Len(a) \/ (i - Len(a) \in 1..Len(b) /\ i = Len(a) + (i - Len(a)))
  BY JoinedItems DEF Part
<1> HIDE DEF c
<1>3. Len(a) + j \in 1..Len(c) /\ IsReceipt(c[Len(a) + j])
  BY <1>1, <1>2
<1>4. ASSUME NEW i \in 1..(Len(a) + j - 1)
      PROVE  c[i].op \in {"actor", "scene"}
  <2>1. CASE i \in 1..Len(a)
    BY <1>2, <2>1 DEF Early
  <2>2. CASE i \notin 1..Len(a)
    <3>1. PICK k \in 1..Len(b) : k = i - Len(a)
      BY <1>2, <2>2
    <3>2. i = Len(a) + k /\ k \in 1..(j - 1)
      BY <1>2, <3>1
    <3> QED
      BY <1>1, <1>2, <3>1, <3>2
  <2> QED
    BY <2>1, <2>2
<1>5. Receipted(c)
  BY <1>3, <1>4 DEF Receipted
<1> QED
  BY <1>5 DEF c

LEMMA MeetingSound ==
  ASSUME gathering.seats \in Nat \ {0}
  PROVE  \E x, n : Framed(MeetingAgenda, x, n) /\ Answers(x)
<1> DEFINE o == Open(Manager)
           first == Send(Manager, "agenda")
           each == EachSeat("agenda", "contribution")
           talk == File("transcript")
           x == ((o \o first) \o each) \o talk
           y == Send(Manager, "summary")
<1>1. /\ Part(o) /\ Part(first) /\ Part(each) /\ Answers(each) /\ Part(talk) /\ Part(y)
  BY OpenPart, SendPart, EachSeatPart, FilePart DEF Manager, Texts, FileNames
<1>2. MeetingAgenda = ((x \o FileReport) \o y) \o File("marker")
  BY DEF MeetingAgenda
<1> HIDE DEF o, first, each, talk, y
<1>3. Part(o \o first)
  BY <1>1, Joined
<1>4. Part((o \o first) \o each) /\ Answers((o \o first) \o each)
  BY <1>1, <1>3, Joined
<1>5. Part(x) /\ Answers(x)
  BY <1>1, <1>4, Joined
<1> HIDE DEF x
<1>6. Framed(MeetingAgenda, x, Len(x) + 1)
  BY <1>1, <1>2, <1>5, Frame
<1> QED
  BY <1>5, <1>6

LEMMA SceneSound ==
  ASSUME gathering.seats \in Nat \ {0}
  PROVE  \E x, n :
           /\ Framed(SceneAgenda, x, n) /\ Answers(x) /\ Receipted(x)
           /\ \A op \in Deeds : HasOp(x, op)
<1> DEFINE a == EachActor
           b == Do("scene")
           c == File("receipt")
           d == Open(Manager)
           e == Send(Manager, "assignment")
           f == EachSeat("context", "proposal")
           g == Do("event")
           h == Do("commit")
           i == File("progress")
           j == Send(Manager, "progress")
           k == Do("ticket")
           l == Send(Manager, "packet")
           m == Send(Manager, "final")
           x1 == a \o b
           x2 == x1 \o c
           x3 == x2 \o d
           x4 == x3 \o e
           x5 == x4 \o f
           x6 == x5 \o g
           x7 == x6 \o h
           x8 == x7 \o i
           x9 == x8 \o j
           x10 == x9 \o k
           x11 == x10 \o l
<1>1. /\ Part(a) /\ HasOp(a, "actor") /\ Early(a) /\ Part(b) /\ HasOp(b, "scene") /\ Early(b)
      /\ Part(c) /\ Receipted(c)
  BY ActorsPart, DoPart, FilePart DEF Deeds, FileNames
<1>2. /\ Part(d) /\ Part(e) /\ Part(f) /\ Answers(f) /\ Part(j) /\ Part(l) /\ Part(m)
  BY OpenPart, SendPart, EachSeatPart DEF Manager, Texts
<1>3. /\ Part(g) /\ HasOp(g, "event") /\ Part(h) /\ HasOp(h, "commit") /\ Part(i)
      /\ Part(k) /\ HasOp(k, "ticket")
  BY DoPart, FilePart DEF Deeds, FileNames
<1>4. SceneAgenda = ((x11 \o FileReport) \o m) \o File("marker")
  BY DEF SceneAgenda
<1> HIDE DEF a, b, c, d, e, f, g, h, i, j, k, l, m
<1>5. Part(x1) /\ Early(x1) /\ HasOp(x1, "actor") /\ HasOp(x1, "scene")
  BY <1>1, Joined
<1> HIDE DEF x1
<1> DEFINE Begun(z) == Receipted(z) /\ HasOp(z, "actor") /\ HasOp(z, "scene")
           Answered(z) == Part(z) /\ Begun(z) /\ Answers(z)
<1>6. Part(x2) /\ Begun(x2)
  BY <1>1, <1>5, Joined, ReceiptAfter
<1> HIDE DEF x2
<1>7. Part(x3) /\ Begun(x3)
  BY <1>2, <1>6, Joined
<1> HIDE DEF x3
<1>8. Part(x4) /\ Begun(x4)
  BY <1>2, <1>7, Joined
<1> HIDE DEF x4
<1>9. Answered(x5)
  BY <1>2, <1>8, Joined
<1> HIDE DEF x5
<1>10. Answered(x6) /\ HasOp(x6, "event")
  BY <1>3, <1>9, Joined
<1> HIDE DEF x6
<1>11. Answered(x7) /\ HasOp(x7, "event") /\ HasOp(x7, "commit")
  BY <1>3, <1>10, Joined
<1> HIDE DEF x7
<1>12. Answered(x8) /\ HasOp(x8, "event") /\ HasOp(x8, "commit")
  BY <1>3, <1>11, Joined
<1> HIDE DEF x8
<1>13. Answered(x9) /\ HasOp(x9, "event") /\ HasOp(x9, "commit")
  BY <1>2, <1>12, Joined
<1> HIDE DEF x9
<1>14. Answered(x10) /\ HasOp(x10, "event") /\ HasOp(x10, "commit") /\ HasOp(x10, "ticket")
  BY <1>3, <1>13, Joined
<1> HIDE DEF x10
<1>15. Answered(x11) /\ HasOp(x11, "event") /\ HasOp(x11, "commit") /\ HasOp(x11, "ticket")
  BY <1>2, <1>14, Joined
<1> HIDE DEF x11
<1>16. Framed(SceneAgenda, x11, Len(x11) + 1)
  BY <1>2, <1>4, <1>15, Frame
<1>17. \A op \in Deeds : HasOp(x11, op)
  BY <1>15 DEF Deeds
<1> QED
  BY <1>15, <1>16, <1>17

\* Either agenda: everybody answers, the report is made once, the marker comes last, and
\* the receipt of a scene comes before all that a scene must not leave unnoticed.
AgendaSound(a, n) ==
  /\ a \in Seq(Items) /\ Paired(a) /\ n \in Nat /\ 0 < n /\ n + 2 < Len(a)
  /\ \A i \in 1..Len(a) :
       /\ (a[i].op = "report" <=> i = n) /\ (a[i].op = "render" <=> i = n + 1)
       /\ (a[i].op = "name" <=> i = n + 2) /\ (IsMarker(a[i]) <=> i = Len(a))
  /\ Answers(a)
  /\ gathering.kind = "scene" => Receipted(a) /\ \A op \in Deeds : HasOp(a, op)

GatheringType == gathering \in [kind : {"meeting", "scene"}, seats : Nat \ {0}]

LEMMA Agendas ==
  ASSUME GatheringType
  PROVE  \E n : AgendaSound(Agenda, n)
<1>1. gathering.seats \in Nat \ {0} /\ gathering.kind \in {"meeting", "scene"}
  BY DEF GatheringType
<1>2. CASE gathering.kind = "meeting"
  <2>1. PICK x, n : Framed(MeetingAgenda, x, n) /\ Answers(x)
    BY <1>1, MeetingSound
  <2>2. Agenda = MeetingAgenda
    BY <1>2 DEF Agenda
  <2>3. AgendaSound(Agenda, n)
    BY <1>2, <2>1, <2>2 DEF Framed, AgendaSound
  <2> QED
    BY <2>3
<1>3. CASE gathering.kind = "scene"
  <2>1. PICK x, n :
          /\ Framed(SceneAgenda, x, n) /\ Answers(x) /\ Receipted(x)
          /\ \A op \in Deeds : HasOp(x, op)
    BY <1>1, SceneSound
  <2>2. Agenda = SceneAgenda
    BY <1>3 DEF Agenda
  <2>3. AgendaSound(Agenda, n)
    BY <2>1, <2>2 DEF Framed, AgendaSound
  <2> QED
    BY <2>3
<1> QED
  BY <1>1, <1>2, <1>3

------------------------------------------------------------------------------
(* The command that plays it *)

ReportPlace == CHOOSE n : AgendaSound(Agenda, n)

Enveloped(i) ==
  i \in envelopes
    \/ (i = Len(messages) /\ next <= Len(Agenda) /\ Agenda[next].op = "envelope")
IsSent(item, sent) ==
  \E i \in 1..Len(sent) : sent[i].session = item.session /\ sent[i].about = item.what

\* What the agenda says up to this place is done, and nothing else.
PlaySound ==
  /\ GatheringType /\ next \in 1..(Len(Agenda) + 1)
  /\ \E S : messages \in Seq(S)
  /\ \A i \in 1..(next - 1) :
       /\ Agenda[i].op = "row" => IsSent(Agenda[i], messages)
       /\ Agenda[i].op = "file" => Agenda[i].what \in written
       /\ Agenda[i].op \in Deeds => Agenda[i].op \in records
  /\ \A name \in written : \E i \in 1..(next - 1) : Agenda[i].op = "file" /\ Agenda[i].what = name
  /\ records \subseteq Deeds /\ \A op \in records : \E i \in 1..(next - 1) : Agenda[i].op = op
  /\ messages # <<>> => \E i \in 1..(next - 1) : Agenda[i].op = "row"
  /\ \A i \in 1..Len(messages) : Enveloped(i)

LEMMA AgendaFacts ==
  ASSUME GatheringType
  PROVE  /\ AgendaSound(Agenda, ReportPlace)
         /\ Agenda \in Seq(Items) /\ Paired(Agenda) /\ Len(Agenda) \in Nat
         /\ ReportPlace \in Nat /\ 0 < ReportPlace /\ ReportPlace + 2 < Len(Agenda)
<1>1. AgendaSound(Agenda, ReportPlace)
  BY Agendas DEF ReportPlace
<1> QED
  BY <1>1 DEF AgendaSound

LEMMA AgendaKept ==
  ASSUME gathering' = gathering
  PROVE  Agenda' = Agenda /\ ReportPlace' = ReportPlace /\ (GatheringType => GatheringType')
<1>1. Agenda' = Agenda
  BY DEF Agenda, MeetingAgenda, SceneAgenda, EachSeat, EachActor, Seats
<1>2. \A a, n : AgendaSound(a, n)' <=> AgendaSound(a, n)
  BY DEF AgendaSound, Answers, Seats
<1>3. \A n : AgendaSound(Agenda, n)' <=> AgendaSound(Agenda, n)
  BY <1>1 DEF AgendaSound, Answers, Seats
<1>4. ReportPlace' = ReportPlace
  BY <1>3 DEF ReportPlace
<1> QED
  BY <1>1, <1>4 DEF GatheringType

\* Where the command is, and where it goes.
LEMMA StepFacts ==
  ASSUME PlaySound, NEW op, Step(op)
  PROVE  /\ Agenda' = Agenda /\ GatheringType' /\ next' = next + 1 /\ Agenda[next].op = op
         /\ next \in 1..Len(Agenda) /\ next' \in 1..(Len(Agenda) + 1)
         /\ Agenda[next] \in Items
         /\ \A i \in 1..(next' - 1) : i \in 1..(next - 1) \/ i = next
         /\ \A i \in 1..(next - 1) : i \in 1..(next' - 1)
         /\ next \in 1..(next' - 1)
         /\ op # "envelope" =>
              \A i \in 1..Len(messages) : i \in envelopes
         /\ op = "row" => next < Len(Agenda) /\ Agenda[next + 1].op = "envelope"
<1>1. /\ Agenda' = Agenda /\ GatheringType' /\ next' = next + 1 /\ Agenda[next].op = op
      /\ next <= Len(Agenda)
  BY AgendaKept DEF Step, PlaySound
<1>2. Agenda \in Seq(Items) /\ Paired(Agenda) /\ Len(Agenda) \in Nat
  BY AgendaFacts DEF PlaySound
<1>3. next \in 1..Len(Agenda)
  BY <1>1, <1>2 DEF PlaySound
<1>4. Agenda[next] \in Items
  BY <1>2, <1>3
<1>5. op # "envelope" => \A i \in 1..Len(messages) : i \in envelopes
  BY <1>1 DEF PlaySound, Enveloped
<1>6. op = "row" => next < Len(Agenda) /\ Agenda[next + 1].op = "envelope"
  BY <1>1, <1>2, <1>3 DEF Paired
<1>7. /\ next' \in 1..(Len(Agenda) + 1) /\ next \in 1..(next' - 1)
      /\ \A i \in 1..(next' - 1) : i \in 1..(next - 1) \/ i = next
      /\ \A i \in 1..(next - 1) : i \in 1..(next' - 1)
  BY <1>1, <1>2, <1>3
<1> QED
  BY <1>1, <1>3, <1>4, <1>5, <1>6, <1>7

LEMMA Posted ==
  ASSUME PlaySound, Post
  PROVE  PlaySound'
<1> DEFINE here == Agenda[next]
<1>1. PICK m :
        /\ messages' = Append(messages, m) /\ m.session = here.session /\ m.about = here.what
        /\ Step("row") /\ UNCHANGED <<envelopes, written, records>>
  BY DEF Post, InsertMessage, Here, transport
<1>2. PICK S : messages \in Seq(S)
  BY DEF PlaySound
<1>3. /\ messages' \in Seq(S \cup {m}) /\ Len(messages') = Len(messages) + 1
      /\ Len(messages) \in Nat /\ messages' # <<>>
      /\ \A i \in 1..Len(messages) : messages'[i] = messages[i]
      /\ messages'[Len(messages) + 1] = m
  <2>1. messages \in Seq(S \cup {m}) /\ m \in S \cup {m} /\ Len(messages) \in Nat
    BY <1>2
  <2> QED
    BY <1>1, <2>1
<1>4. /\ Agenda' = Agenda /\ GatheringType' /\ next' = next + 1 /\ here.op = "row"
      /\ next' \in 1..(Len(Agenda) + 1)
      /\ \A i \in 1..(next' - 1) : i \in 1..(next - 1) \/ i = next
      /\ \A i \in 1..(next - 1) : i \in 1..(next' - 1)
      /\ next \in 1..(next' - 1) /\ next < Len(Agenda) /\ Agenda[next + 1].op = "envelope"
      /\ \A i \in 1..Len(messages) : i \in envelopes
  <2> HIDE DEF here
  <2>1. Step("row")
    BY <1>1
  <2>2. /\ Agenda' = Agenda /\ GatheringType' /\ next' = next + 1 /\ Agenda[next].op = "row"
        /\ next' \in 1..(Len(Agenda) + 1) /\ next \in 1..(next' - 1)
        /\ \A i \in 1..(next' - 1) : i \in 1..(next - 1) \/ i = next
        /\ \A i \in 1..(next - 1) : i \in 1..(next' - 1)
    BY <2>1, StepFacts, Zenon
  <2>3. /\ next < Len(Agenda) /\ Agenda[next + 1].op = "envelope"
        /\ \A i \in 1..Len(messages) : i \in envelopes
    <3>1. "row" # "envelope"
      OBVIOUS
    <3> QED
      BY <2>1, <3>1, StepFacts, Zenon
  <2> QED
    BY <2>2, <2>3 DEF here
<1>5. \A item : IsSent(item, messages) => IsSent(item, messages')
  BY <1>3 DEF IsSent
<1>6. IsSent(here, messages')
  BY <1>1, <1>3 DEF IsSent
<1>7. ASSUME NEW i \in 1..(next' - 1)
      PROVE  /\ Agenda[i].op = "row" => IsSent(Agenda[i], messages')
             /\ Agenda[i].op = "file" => Agenda[i].what \in written'
             /\ Agenda[i].op \in Deeds => Agenda[i].op \in records'
  <2>1. CASE i \in 1..(next - 1)
    BY <1>1, <1>5, <2>1 DEF PlaySound
  <2>2. CASE i = next
    BY <1>4, <1>6, <2>2 DEF Deeds
  <2> QED
    BY <1>4, <2>1, <2>2
<1>8. \A i \in 1..Len(messages') : Enveloped(i)'
  BY <1>1, <1>3, <1>4 DEF Enveloped
<1>9. \A name \in written' :
        \E i \in 1..(next' - 1) : Agenda[i].op = "file" /\ Agenda[i].what = name
  BY <1>1, <1>4 DEF PlaySound
<1>10. records' \subseteq Deeds /\ \A op \in records' : \E i \in 1..(next' - 1) : Agenda[i].op = op
  BY <1>1, <1>4 DEF PlaySound
<1>11. \E i \in 1..(next' - 1) : Agenda[i].op = "row"
  BY <1>4
<1> QED
  BY <1>3, <1>4, <1>7, <1>8, <1>9, <1>10, <1>11 DEF PlaySound

\* A step that sends nothing, when every message has its envelope.
LEMMA Stepped ==
  ASSUME PlaySound, NEW op, Step(op), op # "row", messages' = messages,
         \A i \in 1..Len(messages) : i \in envelopes',
         written' = IF op = "file" THEN written \cup {Agenda[next].what} ELSE written,
         records' = IF op \in Deeds THEN records \cup {op} ELSE records
  PROVE  PlaySound'
<1>1. /\ Agenda' = Agenda /\ GatheringType' /\ next' = next + 1 /\ Agenda[next].op = op
      /\ next' \in 1..(Len(Agenda) + 1)
      /\ \A i \in 1..(next' - 1) : i \in 1..(next - 1) \/ i = next
      /\ \A i \in 1..(next - 1) : i \in 1..(next' - 1)
      /\ next \in 1..(next' - 1)
  BY StepFacts
<1>2. ASSUME NEW i \in 1..(next' - 1)
      PROVE  /\ Agenda[i].op = "row" => IsSent(Agenda[i], messages')
             /\ Agenda[i].op = "file" => Agenda[i].what \in written'
             /\ Agenda[i].op \in Deeds => Agenda[i].op \in records'
  <2>1. CASE i \in 1..(next - 1)
    BY <2>1 DEF PlaySound
  <2>2. CASE i = next
    BY <1>1, <2>2
  <2> QED
    BY <1>1, <2>1, <2>2
<1>3. \A i \in 1..Len(messages') : Enveloped(i)'
  BY DEF Enveloped
<1>4. \A name \in written' :
        \E i \in 1..(next' - 1) : Agenda[i].op = "file" /\ Agenda[i].what = name
  BY <1>1 DEF PlaySound
<1>5. /\ records' \subseteq Deeds
      /\ \A o \in records' : \E i \in 1..(next' - 1) : Agenda[i].op = o
  BY <1>1 DEF PlaySound
<1>6. messages' # <<>> => \E i \in 1..(next' - 1) : Agenda[i].op = "row"
  BY <1>1 DEF PlaySound
<1>7. \E S : messages' \in Seq(S)
  BY DEF PlaySound
<1> QED
  BY <1>1, <1>2, <1>3, <1>4, <1>5, <1>6, <1>7 DEF PlaySound

LEMMA PlaySteps ==
  ASSUME PlaySound, Play
  PROVE  PlaySound'
<1>1. CASE OpenSession
  <2>1. Step("session") /\ UNCHANGED <<messages, envelopes, written, records>>
    BY <1>1 DEF OpenSession, StartSession
  <2> QED
    BY <2>1, StepFacts, Stepped DEF Deeds
<1>2. CASE Post
  BY <1>2, Posted
<1>3. CASE Envelop
  <2>1. Step("envelope") /\ UNCHANGED <<messages, written, records>>
        /\ envelopes' = envelopes \cup {Len(messages)}
    BY <1>3 DEF Envelop, WriteEnvelope
  <2>2. \A i \in 1..Len(messages) : i \in envelopes'
    BY <2>1 DEF PlaySound, Enveloped
  <2> QED
    BY <2>1, <2>2, Stepped DEF Deeds
<1>4. CASE WriteFile
  <2>1. Step("file") /\ UNCHANGED <<messages, envelopes, records>>
        /\ written' = written \cup {Agenda[next].what}
    BY <1>4 DEF WriteFile, Here, transport
  <2> QED
    BY <2>1, StepFacts, Stepped DEF Deeds
<1>5. CASE Record
  <2>1. PICK op \in Deeds :
          Step(op) /\ records' = records \cup {op} /\ UNCHANGED <<messages, envelopes, written>>
    BY <1>5 DEF Record, Deeds, transport
  <2>2. op # "row" /\ op # "envelope" /\ op # "file"
    BY DEF Deeds
  <2>3. \A i \in 1..Len(messages) : i \in envelopes'
    BY <2>1, <2>2, StepFacts
  <2> QED
    BY <2>1, <2>2, <2>3, Stepped
<1>6. CASE Report
  <2>1. PICK op \in ReportSteps :
          Step(op) /\ UNCHANGED <<messages, envelopes, written, records>>
    BY <1>6 DEF Report, ReportSteps, transport
  <2>2. op # "row" /\ op # "envelope" /\ op # "file" /\ op \notin Deeds
    BY DEF ReportSteps, Deeds
  <2>3. \A i \in 1..Len(messages) : i \in envelopes'
    BY <2>1, <2>2, StepFacts
  <2> QED
    BY <2>1, <2>2, <2>3, Stepped
<1> QED
  BY <1>1, <1>2, <1>3, <1>4, <1>5, <1>6 DEF Play

\* Whoever decides, and a death, leave all that was played.
LEMMA PlayLeft ==
  ASSUME PlaySound, UNCHANGED <<gathering, next, written, records, messages, envelopes>>
  PROVE  PlaySound'
<1>1. Agenda' = Agenda /\ GatheringType'
  BY AgendaKept DEF PlaySound
<1>2. \A i \in 1..Len(messages') : Enveloped(i)'
  BY <1>1 DEF PlaySound, Enveloped
<1> QED
  BY <1>1, <1>2 DEF PlaySound

\* What a scene leaves behind, it leaves behind its receipt.
LEMMA ReceiptWritten ==
  ASSUME PlaySound, gathering.kind = "scene", NEW i \in 1..(next - 1),
         Agenda[i].op \notin {"actor", "scene"}
  PROVE  written # {}
<1>1. Receipted(Agenda) /\ Len(Agenda) \in Nat
  BY AgendaFacts DEF PlaySound, AgendaSound
<1>2. PICK j \in 1..Len(Agenda) :
        IsReceipt(Agenda[j]) /\ \A k \in 1..(j - 1) : Agenda[k].op \in {"actor", "scene"}
  BY <1>1 DEF Receipted
<1>3. j <= i
  <2>1. ~(i \in 1..(j - 1))
    BY <1>2
  <2>2. i \in Nat /\ 1 <= i
    BY <1>1 DEF PlaySound
  <2> QED
    BY <1>2, <2>1, <2>2
<1>4. j \in 1..(next - 1)
  BY <1>1, <1>2, <1>3 DEF PlaySound
<1>5. Agenda[j].what \in written
  BY <1>2, <1>4 DEF PlaySound, IsReceipt
<1> QED
  BY <1>5

------------------------------------------------------------------------------
(* Those who decide on the report *)

Verdicts == {"approve", "retry", "hold"}
DecisionWorks ==
  [at : {"none", "render", "unlink", "update", "log", "ticket", "commit"},
   decision : Verdicts \cup {"none"}, old : MailboxStates \cup {"none"}]
Have == {s \in MailboxStates : <<Minutes, s>> \in files}
Row(status, artifact) == [status |-> status, artifact |-> artifact]
Settled(s) == reports[Minutes] = Row(s, s) /\ Have = {s}

\* The report is there once it was made, and a candidate only of an approval.
DecideSound ==
  /\ reports \in [ReportIds -> ReportRows \cup {NoReport}]
  /\ deciding \in [Deciders -> DecisionWorks] /\ candidates \in Nat
  /\ last \in Verdicts \cup {"none"} /\ tangled \in BOOLEAN
  /\ Reported(Minutes) <=> next > ReportPlace
  /\ candidates > 0 => "approve" \in decisions
  /\ \A p \in Deciders :
       /\ Decides(p) => deciding[p].at # "none" /\ deciding[p].decision \in Verdicts
       /\ Decides(p) => next > ReportPlace
       /\ deciding[p].at \in {"ticket", "commit"} =>
            deciding[p].decision = "approve" /\ "approve" \in decisions

\* What row, file and log are while a decision that nothing disturbs is under way.
Underway(w) ==
  LET new == StatusOf[w.decision]
  IN \E s \in MailboxStates :
       /\ w.at = "render" => w.old = s /\ Settled(s)
       /\ w.at = "unlink" => w.old = s /\ reports[Minutes] = Row(s, s) /\ Have = {s, new}
       /\ w.at = "update" => reports[Minutes] = Row(s, s) /\ Have = {new}
       /\ w.at \in {"log", "ticket", "commit"} => Settled(new) /\ last = w.decision
       /\ w.at \in {"ticket", "commit"} => w.decision \in decisions

AtRest ==
  \E s \in MailboxStates :
    Settled(s) /\ (last # "none" => s = StatusOf[last] /\ last \in decisions)

\* As long as decisions do not overlap, the report goes from one to the next.
CalmSound ==
  ~tangled =>
    /\ \A p, q \in Deciders : Decides(p) /\ Decides(q) => p = q
    /\ (\E p \in Deciders : Decides(p)) \/ last # "none" => next > ReportPlace + 2
    /\ next <= ReportPlace + 1 => Have = {}
    /\ next = ReportPlace + 1 => reports[Minutes] = Row("inbox", "none")
    /\ next = ReportPlace + 2 => reports[Minutes] = Row("inbox", "none") /\ Have = {"inbox"}
    /\ next > ReportPlace + 2 /\ (\A p \in Deciders : ~Decides(p)) => AtRest
    /\ \A p \in Deciders : Decides(p) => Underway(deciding[p])

GatheringInv == PlaySound /\ DecideSound /\ CalmSound

LEMMA StatusFacts ==
  /\ DOMAIN StatusOf = Verdicts /\ \A d \in Verdicts : StatusOf[d] \in MailboxStates
  /\ NotDeciding \in DecisionWorks /\ NotDeciding.at = "none"
BY DEF StatusOf, Verdicts, MailboxStates, NotDeciding, DecisionWorks

LEMMA NamedWhen ==
  ASSUME GatheringType, next \in Nat
  PROVE  Named <=> next > ReportPlace + 2
<1>1. AgendaSound(Agenda, ReportPlace) /\ Agenda \in Seq(Items) /\ Len(Agenda) \in Nat
  BY AgendaFacts
<1>2. /\ \A i \in DOMAIN Agenda : Agenda[i].op = "render" <=> i = ReportPlace + 1
      /\ ReportPlace \in Nat /\ ReportPlace + 1 \in DOMAIN Agenda
  BY <1>1 DEF AgendaSound
<1>3. (CHOOSE i \in DOMAIN Agenda : Agenda[i].op = "render") = ReportPlace + 1
  BY <1>2
<1> QED
  BY <1>2, <1>3 DEF Named

\* One decider goes on, and the others stay where they are.
LEMMA Decided ==
  ASSUME GatheringInv, NEW p \in Deciders, NEW w \in DecisionWorks,
         deciding' = [deciding EXCEPT ![p] = w],
         UNCHANGED <<gathering, next, written, records, messages, envelopes>>,
         next > ReportPlace,
         reports' \in [ReportIds -> ReportRows \cup {NoReport}], Reported(Minutes)',
         candidates' \in Nat, last' \in Verdicts \cup {"none"}, tangled' \in BOOLEAN,
         decisions \subseteq decisions', candidates' > 0 => "approve" \in decisions',
         w # NotDeciding => w.at # "none" /\ w.decision \in Verdicts,
         w.at \in {"ticket", "commit"} => w.decision = "approve" /\ "approve" \in decisions',
         ~tangled' =>
           /\ ~tangled /\ next > ReportPlace + 2 /\ \A q \in Deciders \ {p} : ~Decides(q)
           /\ IF w = NotDeciding THEN AtRest' ELSE Underway(w)'
  PROVE  GatheringInv'
<1>1. /\ PlaySound' /\ Agenda' = Agenda /\ ReportPlace' = ReportPlace
      /\ next \in Int /\ ReportPlace \in Nat
  BY PlayLeft, AgendaKept, AgendaFacts DEF GatheringInv, PlaySound
<1>2. /\ deciding' \in [Deciders -> DecisionWorks] /\ deciding'[p] = w
      /\ \A q \in Deciders \ {p} : deciding'[q] = deciding[q]
  BY DEF GatheringInv, DecideSound
<1>3. DecideSound'
  <2>1. ASSUME NEW q \in Deciders
        PROVE  /\ Decides(q)' => deciding'[q].at # "none" /\ deciding'[q].decision \in Verdicts
               /\ deciding'[q].at \in {"ticket", "commit"} =>
                    deciding'[q].decision = "approve" /\ "approve" \in decisions'
    <3>1. CASE q = p
      BY <1>2, <3>1 DEF Decides
    <3>2. CASE q # p
      BY <1>2, <3>2 DEF Decides, GatheringInv, DecideSound
    <3> QED
      BY <3>1, <3>2
  <2> QED
    BY <1>1, <1>2, <2>1 DEF DecideSound
<1>4. CalmSound'
  <2>1. CASE ~tangled'
    <3>1. \A q \in Deciders : Decides(q)' => q = p
      BY <1>2, <2>1 DEF Decides
    <3>2. /\ ~(next' <= ReportPlace' + 1) /\ next' # ReportPlace' + 1 /\ next' # ReportPlace' + 2
          /\ next' > ReportPlace' + 2
      BY <1>1, <2>1
    <3>3. CASE w = NotDeciding
      <4>1. AtRest' /\ \A q \in Deciders : ~Decides(q)'
        BY <1>2, <2>1, <3>1, <3>3 DEF Decides
      <4> QED
        BY <3>2, <4>1 DEF CalmSound
    <3>4. CASE w # NotDeciding
      <4>1. Underway(w)' /\ Decides(p)'
        BY <1>2, <2>1, <3>4 DEF Decides
      <4>2. Underway(deciding[p])'
        BY <1>2, <4>1 DEF Underway
      <4> QED
        BY <3>1, <3>2, <4>1, <4>2 DEF CalmSound
    <3> QED
      BY <3>3, <3>4
  <2> QED
    BY <2>1 DEF CalmSound
<1> QED
  BY <1>1, <1>3, <1>4 DEF GatheringInv

\* What a decider that is at work finds, if nothing disturbed it.
LEMMA AtWork ==
  ASSUME GatheringInv, NEW p \in Deciders, deciding[p].at # "none"
  PROVE  /\ deciding[p] \in DecisionWorks /\ deciding[p].decision \in Verdicts
         /\ StatusOf[deciding[p].decision] \in MailboxStates
         /\ next > ReportPlace /\ Reported(Minutes)
         /\ reports \in [ReportIds -> ReportRows \cup {NoReport}] /\ Minutes \in ReportIds
         /\ candidates \in Nat /\ last \in Verdicts \cup {"none"} /\ tangled \in BOOLEAN
         /\ candidates > 0 => "approve" \in decisions
         /\ ~tangled =>
              /\ next > ReportPlace + 2 /\ \A q \in Deciders \ {p} : ~Decides(q)
              /\ Underway(deciding[p])
<1>1. Decides(p)
  BY StatusFacts DEF Decides
<1> QED
  BY <1>1, StatusFacts, MinutesAssumption DEF GatheringInv, DecideSound, CalmSound

\* A step of a decision under way that changes neither what it decides nor what it knows.
LEMMA WorkMoves ==
  ASSUME GatheringInv, NEW p \in Deciders, deciding[p].at # "none",
         NEW place \in {"unlink", "update", "log", "ticket", "commit"}, Proceed(p, place)
  PROVE  \E w \in DecisionWorks :
           /\ deciding' = [deciding EXCEPT ![p] = w]
           /\ w.at = place /\ w.decision = deciding[p].decision /\ w.old = deciding[p].old
           /\ w # NotDeciding
<1> DEFINE w == [deciding[p] EXCEPT !.at = place]
<1>1. deciding[p] \in DecisionWorks
  BY AtWork
<1>2. /\ w \in DecisionWorks /\ w.at = place
      /\ w.decision = deciding[p].decision /\ w.old = deciding[p].old
  BY <1>1 DEF DecisionWorks
<1>3. deciding' = [deciding EXCEPT ![p] = w]
  BY DEF Proceed
<1>4. w # NotDeciding
  BY <1>2, StatusFacts
<1> HIDE DEF w
<1> QED
  BY <1>2, <1>3, <1>4

LEMMA Begins ==
  ASSUME GatheringInv, NEW p \in Deciders, NEW d \in Verdicts, DecideMeeting(p, d)
  PROVE  GatheringInv'
<1> DEFINE w == [at |-> "render", decision |-> d, old |-> reports[Minutes].artifact]
<1>1. /\ deciding' = [deciding EXCEPT ![p] = w] /\ ~Decides(p) /\ Reported(Minutes)
      /\ tangled' = (tangled \/ ~Named \/ \E q \in Deciders : Decides(q))
      /\ UNCHANGED <<reports, files, decisions, candidates, last>>
      /\ UNCHANGED <<gathering, next, written, records, messages, envelopes>>
  BY DEF DecideMeeting, mailbox, transport, playVars
<1>2. /\ reports \in [ReportIds -> ReportRows \cup {NoReport}] /\ next > ReportPlace
      /\ candidates \in Nat /\ last \in Verdicts \cup {"none"} /\ tangled \in BOOLEAN
      /\ candidates > 0 => "approve" \in decisions
  BY <1>1 DEF GatheringInv, DecideSound
<1>3. reports[Minutes] \in ReportRows
  BY <1>1, <1>2, MinutesAssumption DEF Reported
<1>4. w \in DecisionWorks /\ w.at = "render" /\ w.decision = d /\ w.old = reports[Minutes].artifact
  BY <1>3 DEF DecisionWorks, ReportRows
<1>5. w # NotDeciding
  BY <1>4, StatusFacts
<1> HIDE DEF w
<1>6. GatheringType /\ next \in Nat
  BY AgendaFacts DEF GatheringInv, PlaySound
<1>7. ASSUME ~tangled'
      PROVE  /\ ~tangled /\ next > ReportPlace + 2 /\ \A q \in Deciders \ {p} : ~Decides(q)
             /\ \E s \in MailboxStates : w.old = s /\ Settled(s)'
  <2>1. ~tangled /\ next > ReportPlace + 2 /\ \A q \in Deciders : ~Decides(q)
    BY <1>1, <1>2, <1>6, <1>7, NamedWhen
  <2>2. PICK s \in MailboxStates : Settled(s)
    BY <2>1 DEF GatheringInv, CalmSound, AtRest
  <2>3. w.old = s
    BY <1>4, <2>2 DEF Settled, Row
  <2>4. Settled(s)'
    BY <1>1, <2>2 DEF Settled, Have
  <2> QED
    BY <2>1, <2>3, <2>4
<1>8. PICK v \in DecisionWorks : v = w
  BY <1>4
<1>9. ~tangled' => Underway(v)'
  BY <1>4, <1>7, <1>8 DEF Underway
<1>10. Reported(Minutes)' /\ tangled' \in BOOLEAN
  BY <1>1, <1>2 DEF Reported
<1> QED
  BY <1>1, <1>2, <1>4, <1>5, <1>7, <1>8, <1>9, <1>10, Decided

LEMMA Renders ==
  ASSUME GatheringInv, NEW p \in Deciders, RenderDecision(p)
  PROVE  GatheringInv'
<1> DEFINE new == StatusOf[deciding[p].decision]
<1>1. /\ deciding[p].at = "render" /\ Proceed(p, "unlink") /\ files' = files \cup {<<Minutes, new>>}
      /\ UNCHANGED <<reports, decisions, candidates, last, tangled>>
      /\ UNCHANGED <<gathering, next, written, records, messages, envelopes>>
  BY DEF RenderDecision, DecidingAt, RenderReport, transport, playVars
<1>2. PICK w \in DecisionWorks :
        /\ deciding' = [deciding EXCEPT ![p] = w] /\ w # NotDeciding
        /\ w.at = "unlink" /\ w.decision = deciding[p].decision /\ w.old = deciding[p].old
  BY <1>1, WorkMoves
<1>3. /\ new \in MailboxStates
      /\ ~tangled => Underway(deciding[p])
  BY <1>1, AtWork
<1>4. ASSUME ~tangled'
      PROVE  Underway(w)'
  <2>1. PICK s \in MailboxStates : deciding[p].old = s /\ Settled(s)
    BY <1>1, <1>3, <1>4 DEF Underway
  <2>2. reports'[Minutes] = Row(s, s) /\ Have' = {s, new}
    BY <1>1, <1>3, <2>1 DEF Settled, Have
  <2> QED
    BY <1>2, <2>1, <2>2 DEF Underway, StatusOf
<1>5. Reported(Minutes)'
  BY <1>1, AtWork DEF Reported
<1> QED
  BY <1>1, <1>2, <1>4, <1>5, AtWork, Decided

LEMMA Unlinks ==
  ASSUME GatheringInv, NEW p \in Deciders, UnlinkUndecided(p)
  PROVE  GatheringInv'
<1> DEFINE new == StatusOf[deciding[p].decision]
           old == deciding[p].old
<1>1. /\ deciding[p].at = "unlink" /\ Proceed(p, "update")
      /\ files' = IF old # new THEN files \ {<<Minutes, old>>} ELSE files
      /\ UNCHANGED <<reports, decisions, candidates, last, tangled>>
      /\ UNCHANGED <<gathering, next, written, records, messages, envelopes>>
  BY DEF UnlinkUndecided, DecidingAt, RemoveArtifact, transport, playVars
<1>2. PICK w \in DecisionWorks :
        /\ deciding' = [deciding EXCEPT ![p] = w] /\ w # NotDeciding
        /\ w.at = "update" /\ w.decision = deciding[p].decision /\ w.old = deciding[p].old
  BY <1>1, WorkMoves
<1>3. /\ new \in MailboxStates
      /\ ~tangled => Underway(deciding[p])
  BY <1>1, AtWork
<1>4. ASSUME ~tangled'
      PROVE  Underway(w)'
  <2>1. PICK s \in MailboxStates :
          old = s /\ reports[Minutes] = Row(s, s) /\ Have = {s, new}
    BY <1>1, <1>3, <1>4 DEF Underway
  <2>2. reports'[Minutes] = Row(s, s) /\ Have' = {new}
    BY <1>1, <1>3, <2>1 DEF Have
  <2> QED
    BY <1>2, <2>1, <2>2 DEF Underway, StatusOf
<1>5. Reported(Minutes)'
  BY <1>1, AtWork DEF Reported
<1> QED
  BY <1>1, <1>2, <1>4, <1>5, AtWork, Decided

LEMMA Updates ==
  ASSUME GatheringInv, NEW p \in Deciders, MoveDecided(p)
  PROVE  GatheringInv'
<1> DEFINE d == deciding[p].decision
           new == StatusOf[d]
<1>1. /\ deciding[p].at = "update" /\ Proceed(p, "log") /\ last' = d
      /\ reports' = [reports EXCEPT ![Minutes] = Row(new, new)]
      /\ UNCHANGED <<files, decisions, candidates, tangled>>
      /\ UNCHANGED <<gathering, next, written, records, messages, envelopes>>
  BY DEF MoveDecided, DecidingAt, UpdateReport, Row, transport, playVars
<1>2. PICK w \in DecisionWorks :
        /\ deciding' = [deciding EXCEPT ![p] = w] /\ w # NotDeciding
        /\ w.at = "log" /\ w.decision = d /\ w.old = deciding[p].old
  BY <1>1, WorkMoves
<1>3. /\ new \in MailboxStates /\ d \in Verdicts
      /\ ~tangled => Underway(deciding[p])
  BY <1>1, AtWork
<1>4. Row(new, new) \in ReportRows
  BY <1>3 DEF Row, ReportRows
<1>5. /\ reports' \in [ReportIds -> ReportRows \cup {NoReport}] /\ reports'[Minutes] = Row(new, new)
      /\ Reported(Minutes)'
  BY <1>1, <1>4, AtWork, NoReportAssumption DEF Reported
<1>6. ASSUME ~tangled'
      PROVE  Underway(w)'
  <2>1. Have = {new}
    BY <1>1, <1>3, <1>6 DEF Underway
  <2>2. Have' = {new}
    BY <1>1, <2>1 DEF Have
  <2> QED
    BY <1>1, <1>2, <1>3, <1>5, <2>2 DEF Underway, Settled, StatusOf
<1>7. last' \in Verdicts \cup {"none"}
  BY <1>1, <1>3
<1> QED
  BY <1>1, <1>2, <1>3, <1>5, <1>6, <1>7, AtWork, Decided

LEMMA Logs ==
  ASSUME GatheringInv, NEW p \in Deciders, LogDecision(p)
  PROVE  GatheringInv'
<1> DEFINE d == deciding[p].decision
<1>1. /\ deciding[p].at = "log" /\ decisions' = decisions \cup {d}
      /\ IF d = "approve" THEN Proceed(p, "ticket") ELSE Finish(p)
      /\ UNCHANGED <<reports, files, candidates, last, tangled>>
      /\ UNCHANGED <<gathering, next, written, records, messages, envelopes>>
  BY DEF LogDecision, DecidingAt, mailbox, transport, playVars
<1>2. PICK w \in DecisionWorks :
        /\ deciding' = [deciding EXCEPT ![p] = w]
        /\ IF d = "approve" THEN w # NotDeciding /\ w.at = "ticket" /\ w.decision = d
           ELSE w = NotDeciding
  <2>1. CASE d = "approve"
    <3>1. Proceed(p, "ticket")
      BY <1>1, <2>1
    <3> QED
      BY <1>1, <2>1, <3>1, WorkMoves
  <2>2. CASE d # "approve"
    BY <1>1, <2>2, StatusFacts DEF Finish
  <2> QED
    BY <2>1, <2>2
<1>3. /\ StatusOf[d] \in MailboxStates /\ d \in Verdicts
      /\ ~tangled => Underway(deciding[p])
  BY <1>1, AtWork
<1>4. ASSUME ~tangled'
      PROVE  IF w = NotDeciding THEN AtRest' ELSE Underway(w)'
  <2>1. Settled(StatusOf[d]) /\ last = d
    BY <1>1, <1>3, <1>4 DEF Underway
  <2>2. PICK s \in MailboxStates : s = StatusOf[d]
    BY <1>3
  <2>3. Settled(s)'
    BY <1>1, <2>1, <2>2 DEF Settled, Have
  <2>4. last' = d /\ d \in decisions'
    BY <1>1, <2>1
  <2>5. CASE d = "approve"
    <3>1. w # NotDeciding /\ w.at = "ticket" /\ w.decision = d
      BY <1>2, <2>5
    <3> QED
      BY <2>2, <2>3, <2>4, <3>1 DEF Underway, StatusOf
  <2>6. CASE d # "approve"
    <3>1. w = NotDeciding /\ StatusOf[last'] = s
      BY <1>2, <2>2, <2>4, <2>6
    <3>2. AtRest'
      BY <2>3, <2>4, <3>1 DEF AtRest, StatusOf
    <3> QED
      BY <3>1, <3>2
  <2> QED
    BY <2>5, <2>6
<1>5. Reported(Minutes)'
  BY <1>1, AtWork DEF Reported
<1>6. w # NotDeciding => w.at # "none" /\ w.decision \in Verdicts
  BY <1>2, <1>3
<1>7. w.at \in {"ticket", "commit"} => w.decision = "approve" /\ "approve" \in decisions'
  BY <1>1, <1>2, StatusFacts
<1> QED
  BY <1>1, <1>2, <1>4, <1>5, <1>6, <1>7, AtWork, Decided

LEMMA Proposes ==
  ASSUME GatheringInv, NEW p \in Deciders, CreateCandidate(p)
  PROVE  GatheringInv'
<1>1. /\ deciding[p].at = "ticket" /\ Proceed(p, "commit") /\ candidates' = candidates + 1
      /\ UNCHANGED <<reports, files, decisions, last, tangled>>
      /\ UNCHANGED <<gathering, next, written, records, messages, envelopes>>
  BY DEF CreateCandidate, DecidingAt, mailbox, transport, playVars
<1>2. PICK w \in DecisionWorks :
        /\ deciding' = [deciding EXCEPT ![p] = w] /\ w # NotDeciding
        /\ w.at = "commit" /\ w.decision = deciding[p].decision /\ w.old = deciding[p].old
  BY <1>1, WorkMoves
<1>3. deciding[p].decision = "approve" /\ "approve" \in decisions
  BY <1>1 DEF GatheringInv, DecideSound
<1>4. ASSUME ~tangled'
      PROVE  Underway(w)'
  <2>1. Underway(deciding[p])
    BY <1>1, <1>4, AtWork
  <2>2. Settled(StatusOf[w.decision]) /\ last = w.decision /\ w.decision \in decisions
    BY <1>1, <1>2, <2>1 DEF Underway
  <2>3. Settled(StatusOf[w.decision])'
    BY <1>1, <2>2 DEF Settled, Have, StatusOf
  <2> QED
    BY <1>1, <1>2, <1>3, <2>2, <2>3 DEF Underway, StatusOf, MailboxStates
<1>5. Reported(Minutes)' /\ candidates' \in Nat
  BY <1>1, AtWork DEF Reported
<1> QED
  BY <1>1, <1>2, <1>3, <1>4, <1>5, AtWork, Decided

LEMMA Ends ==
  ASSUME GatheringInv, NEW p \in Deciders, EndDecision(p)
  PROVE  GatheringInv'
<1>1. /\ deciding[p].at = "commit" /\ deciding' = [deciding EXCEPT ![p] = NotDeciding]
      /\ UNCHANGED <<reports, files, decisions, candidates, last, tangled>>
      /\ UNCHANGED <<gathering, next, written, records, messages, envelopes>>
  BY DEF EndDecision, DecidingAt, Finish, mailbox, transport, playVars
<1>2. PICK w \in DecisionWorks : w = NotDeciding
  BY StatusFacts
<1>3. ASSUME ~tangled'
      PROVE  AtRest'
  <2> DEFINE d == deciding[p].decision
  <2>1. Underway(deciding[p]) /\ StatusOf[d] \in MailboxStates
    BY <1>1, <1>3, AtWork
  <2>2. Settled(StatusOf[d]) /\ last = d /\ d \in decisions
    BY <1>1, <2>1 DEF Underway
  <2>3. Settled(StatusOf[last])' /\ last' = d /\ d \in decisions'
    BY <1>1, <2>2 DEF Settled, Have, StatusOf
  <2> QED
    BY <2>1, <2>3 DEF AtRest, StatusOf
<1>4. Reported(Minutes)'
  BY <1>1, AtWork DEF Reported
<1>5. /\ deciding' = [deciding EXCEPT ![p] = w]
      /\ w.at \in {"ticket", "commit"} => w.decision = "approve" /\ "approve" \in decisions'
  BY <1>1, <1>2, StatusFacts
<1> QED
  BY <1>1, <1>2, <1>3, <1>4, <1>5, AtWork, Decided

LEMMA Dies ==
  ASSUME GatheringInv, NEW p \in Deciders, DecisionDies(p)
  PROVE  GatheringInv'
<1>1. /\ Decides(p) /\ tangled' = TRUE /\ deciding' = [deciding EXCEPT ![p] = NotDeciding]
      /\ UNCHANGED <<reports, files, decisions, candidates, last>>
      /\ UNCHANGED <<gathering, next, written, records, messages, envelopes>>
  BY DEF DecisionDies, DecidingAt, Finish, mailbox, transport, playVars
<1>2. PICK w \in DecisionWorks : w = NotDeciding
  BY StatusFacts
<1>3. deciding[p].at # "none"
  BY <1>1 DEF GatheringInv, DecideSound
<1>4. Reported(Minutes)'
  BY <1>1, <1>3, AtWork DEF Reported
<1>5. /\ deciding' = [deciding EXCEPT ![p] = w]
      /\ w.at \in {"ticket", "commit"} => w.decision = "approve" /\ "approve" \in decisions'
  BY <1>1, <1>2, StatusFacts
<1> QED
  BY <1>1, <1>2, <1>3, <1>4, <1>5, AtWork, Decided

------------------------------------------------------------------------------
(* Playing, and what decisions see of it *)

\* A step of the agenda that is none of the report's leaves decisions as they were.
LEMMA PlaysOn ==
  ASSUME GatheringInv, NEW op, Step(op), op \notin ReportSteps,
         UNCHANGED <<reports, files, decisionVars>>
  PROVE  DecideSound' /\ CalmSound'
<1>1. /\ PlaySound /\ DecideSound /\ CalmSound /\ next \in 1..Len(Agenda)
      /\ next' = next + 1 /\ Agenda[next].op = op
  BY StepFacts DEF GatheringInv
<1>2. /\ ReportPlace' = ReportPlace /\ ReportPlace \in Nat /\ AgendaSound(Agenda, ReportPlace)
      /\ Len(Agenda) \in Nat
  BY <1>1, AgendaKept, AgendaFacts DEF Step, PlaySound
<1>3. next \notin {ReportPlace, ReportPlace + 1, ReportPlace + 2} /\ next \in Nat
  BY <1>1, <1>2 DEF AgendaSound, ReportSteps
<1>4. /\ next' > ReportPlace' <=> next > ReportPlace
      /\ next' > ReportPlace' + 2 <=> next > ReportPlace + 2
      /\ next' <= ReportPlace' + 1 => next <= ReportPlace + 1
      /\ next' # ReportPlace' + 1 /\ next' # ReportPlace' + 2
  BY <1>1, <1>2, <1>3
<1>5. DecideSound'
  BY <1>1, <1>4 DEF DecideSound, decisionVars, Reported, Decides
<1>6. AtRest => AtRest'
  BY DEF AtRest, Settled, Have, StatusOf, decisionVars
<1>7. \A p \in Deciders : Underway(deciding[p]) => Underway(deciding[p])'
  BY DEF Underway, Settled, Have, StatusOf, decisionVars
<1>8. CalmSound'
  BY <1>1, <1>4, <1>6, <1>7 DEF CalmSound, decisionVars, Decides, Have
<1> QED
  BY <1>5, <1>8

\* The report is inserted, rendered and named, before any decision that is not tangled.
LEMMA ReportsOn ==
  ASSUME GatheringInv, Report
  PROVE  DecideSound' /\ CalmSound'
<1> DEFINE n == ReportPlace
<1>1. PICK op \in ReportSteps : Step(op)
  BY DEF Report, ReportSteps
<1>2. /\ PlaySound /\ DecideSound /\ CalmSound /\ next \in 1..Len(Agenda)
      /\ next' = next + 1 /\ Agenda[next].op = op
  BY <1>1, StepFacts DEF GatheringInv
<1>3. /\ n' = n /\ n \in Nat /\ AgendaSound(Agenda, n) /\ Len(Agenda) \in Nat /\ next \in Nat
  BY <1>1, <1>2, AgendaKept, AgendaFacts DEF Step, PlaySound
<1>4. /\ (Agenda[next].op = "report" <=> next = n) /\ (Agenda[next].op = "render" <=> next = n + 1)
      /\ (Agenda[next].op = "name" <=> next = n + 2)
  BY <1>2, <1>3 DEF AgendaSound
<1>5. \A o : Step(o) => Agenda[next].op = o
  BY DEF Step
<1>6. /\ UNCHANGED <<deciding, decisions, candidates, last, tangled>>
      /\ Minutes \in ReportIds /\ "inbox" \in MailboxStates
  BY MinutesAssumption DEF Report, decisionVars, MailboxStates
<1>7. /\ reports \in [ReportIds -> ReportRows \cup {NoReport}] /\ tangled \in BOOLEAN
      /\ Reported(Minutes) <=> next > n
  BY <1>2 DEF DecideSound
<1>8. ~tangled /\ next <= n + 2 => last = "none" /\ \A p \in Deciders : ~Decides(p)
  BY <1>2, <1>3 DEF CalmSound
<1>9. Row("inbox", "none") \in ReportRows /\ Row("inbox", "inbox") \in ReportRows
  BY DEF Row, ReportRows, MailboxStates
<1> HIDE DEF n
<1>10. CASE next = n
  <2>1. InsertReport(Minutes, "inbox")
    BY <1>3, <1>4, <1>5, <1>10 DEF Report
  <2>2. /\ reports' = [reports EXCEPT ![Minutes] = Row("inbox", "none")] /\ UNCHANGED files
    BY <2>1 DEF InsertReport, Row
  <2>3. /\ reports' \in [ReportIds -> ReportRows \cup {NoReport}]
        /\ reports'[Minutes] = Row("inbox", "none") /\ Reported(Minutes)'
    BY <1>6, <1>7, <1>9, <2>2, NoReportAssumption DEF Reported
  <2>4. /\ next' > n' /\ ~(next' > n' + 2) /\ next' = n' + 1 /\ next' # n' + 2 /\ next <= n + 1
        /\ next <= n + 2
    BY <1>2, <1>3, <1>10
  <2>5. DecideSound'
    BY <1>2, <1>6, <2>3, <2>4 DEF DecideSound, Decides, n
  <2>6. ~tangled => Have' = {}
    BY <1>2, <2>2, <2>4 DEF CalmSound, Have, n
  <2>7. CalmSound'
    BY <1>6, <1>8, <2>3, <2>4, <2>6 DEF CalmSound, Decides, n
  <2> QED
    BY <2>5, <2>7
<1>11. CASE next = n + 1
  <2>1. RenderReport(Minutes, "inbox")
    BY <1>3, <1>4, <1>5, <1>11 DEF Report
  <2>2. /\ files' = files \cup {<<Minutes, "inbox">>} /\ UNCHANGED reports
    BY <2>1 DEF RenderReport
  <2>3. /\ next' > n' /\ ~(next' > n' + 2) /\ next' # n' + 1 /\ next' = n' + 2 /\ next > n
        /\ next <= n + 1 /\ next <= n + 2 /\ ~(next' <= n' + 1)
    BY <1>2, <1>3, <1>11
  <2>4. Reported(Minutes)'
    BY <1>7, <2>2, <2>3 DEF Reported
  <2>5. DecideSound'
    BY <1>2, <1>6, <2>2, <2>3, <2>4 DEF DecideSound, Decides, n
  <2>6. ~tangled => Have' = {"inbox"}
    BY <1>2, <1>6, <2>2, <2>3 DEF CalmSound, Have, n
  <2>7. ~tangled => reports'[Minutes] = Row("inbox", "none")
    BY <1>2, <1>11, <2>2 DEF CalmSound, n
  <2>8. CalmSound'
    BY <1>6, <1>8, <2>3, <2>6, <2>7 DEF CalmSound, Decides, n
  <2> QED
    BY <2>5, <2>8
<1>12. CASE next = n + 2
  <2>1. UpdateReport(Minutes, "inbox", "inbox")
    BY <1>3, <1>4, <1>5, <1>12 DEF Report
  <2>2. /\ reports' = [reports EXCEPT ![Minutes] = Row("inbox", "inbox")] /\ UNCHANGED files
    BY <2>1 DEF UpdateReport, Row
  <2>3. /\ reports' \in [ReportIds -> ReportRows \cup {NoReport}]
        /\ reports'[Minutes] = Row("inbox", "inbox") /\ Reported(Minutes)'
    BY <1>6, <1>7, <1>9, <2>2, NoReportAssumption DEF Reported
  <2>4. /\ next' > n' /\ next' > n' + 2 /\ next' # n' + 1 /\ next' # n' + 2 /\ next > n
        /\ next <= n + 2 /\ ~(next' <= n' + 1)
    BY <1>2, <1>3, <1>12
  <2>5. DecideSound'
    BY <1>2, <1>6, <2>3, <2>4 DEF DecideSound, Decides, n
  <2>6. ~tangled => Have' = {"inbox"}
    BY <1>2, <1>12, <2>2 DEF CalmSound, Have, n
  <2>7. ~tangled => AtRest'
    BY <1>6, <1>8, <2>3, <2>4, <2>6 DEF AtRest, Settled
  <2>8. CalmSound'
    BY <1>6, <1>8, <2>4, <2>7 DEF CalmSound, Decides, n
  <2> QED
    BY <2>5, <2>8
<1> QED
  BY <1>1, <1>2, <1>4, <1>10, <1>11, <1>12 DEF ReportSteps

\* The command dies: everything stays as it is.
LEMMA NothingElse ==
  ASSUME GatheringInv,
         UNCHANGED <<mailbox, transport, gathering, next, written, records, decisionVars>>
  PROVE  GatheringInv'
<1>1. PlaySound' /\ ReportPlace' = ReportPlace
  BY PlayLeft, AgendaKept DEF GatheringInv, transport
<1>2. DecideSound'
  BY <1>1 DEF GatheringInv, DecideSound, mailbox, decisionVars, Reported, Decides
<1>3. AtRest => AtRest'
  BY DEF AtRest, Settled, Have, StatusOf, decisionVars, mailbox
<1>4. \A p \in Deciders : Underway(deciding[p]) => Underway(deciding[p])'
  BY DEF Underway, Settled, Have, StatusOf, decisionVars, mailbox
<1>5. CalmSound'
  BY <1>1, <1>3, <1>4 DEF GatheringInv, CalmSound, decisionVars, mailbox, Decides, Have
<1> QED
  BY <1>1, <1>2, <1>5 DEF GatheringInv

LEMMA GatheringStarts == GatheringInit => GatheringInv
<1> SUFFICES ASSUME GatheringInit
             PROVE  GatheringInv
  OBVIOUS
<1>1. /\ GatheringType /\ next = 1 /\ written = {} /\ records = {} /\ messages = <<>>
      /\ decisions = {} /\ candidates = 0 /\ last = "none" /\ tangled = FALSE /\ files = {}
      /\ deciding = [p \in Deciders |-> NotDeciding] /\ reports = [r \in ReportIds |-> NoReport]
  BY MinutesAssumption DEF GatheringInit, MailboxInit, TransportInit, GatheringType
<1>2. ReportPlace \in Nat /\ 0 < ReportPlace /\ Len(Agenda) \in Nat
  BY <1>1, AgendaFacts
<1>3. PlaySound
  <2>1. messages \in Seq({}) /\ Len(messages) = 0
    BY <1>1
  <2> QED
    BY <1>1, <1>2, <2>1 DEF PlaySound
<1>4. \A p \in Deciders : ~Decides(p) /\ deciding[p] \in DecisionWorks /\ deciding[p].at = "none"
  BY <1>1, StatusFacts DEF Decides
<1>5. DecideSound
  <2>1. reports \in [ReportIds -> ReportRows \cup {NoReport}] /\ ~Reported(Minutes)
    BY <1>1, MinutesAssumption DEF Reported
  <2>2. deciding \in [Deciders -> DecisionWorks]
    BY <1>1, StatusFacts
  <2>3. ~(next > ReportPlace) /\ candidates \in Nat /\ ~(candidates > 0)
    BY <1>1, <1>2
  <2>4. \A p \in Deciders : ~Decides(p) /\ deciding[p].at \notin {"ticket", "commit"}
    BY <1>4
  <2>5. last \in Verdicts \cup {"none"} /\ tangled \in BOOLEAN
    BY <1>1
  <2> QED
    BY <2>1, <2>2, <2>3, <2>4, <2>5, Zenon DEF DecideSound
<1>6. CalmSound
  <2>1. Have = {} /\ next # ReportPlace + 1 /\ next # ReportPlace + 2 /\ ~(next > ReportPlace + 2)
    BY <1>1, <1>2 DEF Have
  <2> QED
    BY <1>1, <1>4, <2>1 DEF CalmSound
<1> QED
  BY <1>3, <1>5, <1>6 DEF GatheringInv

LEMMA GatheringInductive == GatheringSpec => []GatheringInv
<1>1. ASSUME GatheringInv, [GatheringNext]_gatheringVars
      PROVE  GatheringInv'
  <2>1. CASE UNCHANGED gatheringVars
    BY <1>1, <2>1, NothingElse DEF gatheringVars, playVars
  <2>2. CASE Play
    <3>1. PlaySound'
      BY <1>1, <2>2, PlaySteps DEF GatheringInv
    <3>2. CASE Report
      BY <1>1, <3>1, <3>2, ReportsOn DEF GatheringInv
    <3>3. CASE OpenSession \/ Post \/ Envelop \/ WriteFile \/ Record
      <4>1. PICK op : /\ Step(op) /\ op \notin ReportSteps
                       /\ UNCHANGED <<reports, files, decisionVars>>
        BY <3>3 DEF OpenSession, Post, Envelop, WriteFile, Record, mailbox, ReportSteps
      <4> QED
        BY <1>1, <3>1, <4>1, PlaysOn DEF GatheringInv
    <3> QED
      BY <2>2, <3>2, <3>3 DEF Play
  <2>3. CASE PlayDies
    BY <1>1, <2>3, NothingElse DEF PlayDies
  <2>4. ASSUME NEW p \in Deciders, Decision(p)
        PROVE  GatheringInv'
    BY <1>1, <2>4, StatusFacts, Begins, Renders, Unlinks, Updates, Logs, Proposes, Ends, Dies
    DEF Decision
  <2> QED
    BY <1>1, <2>1, <2>2, <2>3, <2>4 DEF GatheringNext
<1> QED
  BY <1>1, GatheringStarts, PTL DEF GatheringSpec

\* Wherever a meeting or a mock scene dies and whatever is decided on it meanwhile, what it
\* marked complete is whole, what it left unfinished is found, and decisions are kept
\* (run_meeting, run_mock_scene, decide_report), for any number of seats and deciders.
THEOREM GatheringsRecorded == GatheringSpec => []GatheringsAreRecorded
<1>1. ASSUME GatheringInv
      PROVE  GatheringsAreRecorded
  <2>1. /\ PlaySound /\ DecideSound /\ CalmSound /\ AgendaSound(Agenda, ReportPlace)
        /\ Len(Agenda) \in Nat /\ next \in 1..(Len(Agenda) + 1) /\ Agenda \in Seq(Items)
        /\ ReportPlace \in Nat /\ 0 < ReportPlace /\ ReportPlace + 2 < Len(Agenda)
    BY <1>1, AgendaFacts DEF GatheringInv, PlaySound
  <2>2. CompleteIsWhole
    <3> SUFFICES ASSUME Complete
                 PROVE  /\ \A s \in Seats : SeatAnswered(s)
                        /\ DOMAIN messages \subseteq envelopes
                        /\ Reported(Minutes)
                        /\ (gathering.kind = "scene" => records = Deeds)
      BY DEF CompleteIsWhole, Deeds
    <3>1. next = Len(Agenda) + 1
      <4>1. PICK i \in 1..(next - 1) : Agenda[i].op = "file" /\ Agenda[i].what = "marker"
        BY <2>1 DEF PlaySound, Complete
      <4>2. i \in 1..Len(Agenda) /\ IsMarker(Agenda[i])
        BY <2>1, <4>1 DEF IsMarker
      <4>3. i = Len(Agenda)
        BY <2>1, <4>2 DEF AgendaSound
      <4> QED
        BY <2>1, <4>1, <4>3
    <3>2. \A i \in 1..Len(Agenda) : i \in 1..(next - 1)
      BY <2>1, <3>1
    <3>3. PICK S : messages \in Seq(S)
      BY <2>1 DEF PlaySound
    <3>4. ASSUME NEW s \in Seats
          PROVE  SeatAnswered(s)
      <4>1. PICK i \in 1..Len(Agenda) : Said(Agenda[i], s)
        BY <2>1 DEF AgendaSound, Answers
      <4>2. IsSent(Agenda[i], messages)
        BY <2>1, <3>2, <4>1 DEF PlaySound, Said
      <4>3. PICK k \in 1..Len(messages) :
              messages[k].session = s /\ messages[k].about \in {"contribution", "proposal"}
        BY <4>1, <4>2 DEF IsSent, Said
      <4>4. messages[k] \in Range(messages)
        BY <3>3, <4>3 DEF Range
      <4> QED
        BY <4>3, <4>4 DEF SeatAnswered
    <3>5. DOMAIN messages \subseteq envelopes
      BY <2>1, <3>1, <3>3 DEF PlaySound, Enveloped
    <3>6. Reported(Minutes)
      BY <2>1, <3>1 DEF DecideSound
    <3>7. gathering.kind = "scene" => records = Deeds
      <4>1. ASSUME gathering.kind = "scene", NEW op \in Deeds
            PROVE  op \in records
        <5>1. PICK i \in 1..Len(Agenda) : Agenda[i].op = op
          BY <2>1, <4>1 DEF AgendaSound, HasOp
        <5> QED
          BY <2>1, <3>2, <5>1 DEF PlaySound
      <4> QED
        BY <2>1, <4>1 DEF PlaySound
    <3> QED
      BY <3>4, <3>5, <3>6, <3>7
  <2>3. UnfinishedIsFound
    <3>1. ASSUME gathering.kind = "scene",
                 messages # <<>> \/ records \ {"actor", "scene"} # {} \/ Reported(Minutes)
          PROVE  written # {}
      <4>1. CASE messages # <<>>
        <5>1. PICK i \in 1..(next - 1) : Agenda[i].op = "row"
          BY <2>1, <4>1 DEF PlaySound
        <5> QED
          BY <2>1, <3>1, <5>1, ReceiptWritten
      <4>2. CASE records \ {"actor", "scene"} # {}
        <5>1. PICK op \in records : op \notin {"actor", "scene"}
          BY <4>2
        <5>2. PICK i \in 1..(next - 1) : Agenda[i].op = op
          BY <2>1, <5>1 DEF PlaySound
        <5> QED
          BY <2>1, <3>1, <5>1, <5>2, ReceiptWritten
      <4>3. CASE Reported(Minutes)
        <5>1. ReportPlace \in 1..(next - 1) /\ ReportPlace \in 1..Len(Agenda)
          BY <2>1, <4>3 DEF DecideSound
        <5>2. Agenda[ReportPlace].op = "report"
          BY <2>1, <5>1 DEF AgendaSound
        <5> QED
          BY <2>1, <3>1, <5>1, <5>2, ReceiptWritten
      <4> QED
        BY <3>1, <4>1, <4>2, <4>3
    <3> QED
      BY <3>1 DEF UnfinishedIsFound
  <2>4. DecisionsAreKept
    <3>1. candidates > 0 => "approve" \in decisions
      BY <2>1 DEF DecideSound
    <3>2. ASSUME ~tangled, last # "none", \A p \in Deciders : ~Decides(p)
          PROVE  /\ reports[Minutes] = [status |-> StatusOf[last], artifact |-> StatusOf[last]]
                 /\ {s \in MailboxStates : <<Minutes, s>> \in files} = {StatusOf[last]}
                 /\ last \in decisions
      <4>1. AtRest
        BY <2>1, <3>2 DEF CalmSound
      <4>2. Settled(StatusOf[last]) /\ last \in decisions
        BY <3>2, <4>1 DEF AtRest
      <4> QED
        BY <4>2 DEF Settled, Have, Row
    <3> QED
      BY <3>1, <3>2 DEF DecisionsAreKept
  <2> QED
    BY <2>2, <2>3, <2>4 DEF GatheringsAreRecorded
<1> QED
  BY <1>1, GatheringInductive, PTL
================================================================================
