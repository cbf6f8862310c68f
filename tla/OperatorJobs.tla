---------------------------- MODULE OperatorJobs ----------------------------
(***************************************************************************)
(* The jobs operators run on one term beside the sync worker               *)
(* (src/easy_a/refresh, scripts/refresh_all_tampa.py):                     *)
(*                                                                         *)
(*   refresh_data       stages, each a transaction of its own;             *)
(*   refresh_all_tampa  subjects one after the other, each the             *)
(*                      refresh_targets of a child process, with a         *)
(*                      progress file to resume from;                      *)
(*   cleanup            deletes the target sections of other campuses in   *)
(*                      one transaction that locks the target rows.        *)
(*                                                                         *)
(* They share the tables with the sweeps; none of them takes the sweep     *)
(* lock.  Statements run at READ COMMITTED: a writer waits for the rows    *)
(* an open transaction has written, a reader sees what is committed.  So   *)
(* whoever rebuilds rankings may write, after its wait, what it computed   *)
(* before it.                                                              *)
(***************************************************************************)
EXTENDS Integers, FiniteSets, Sequences

CONSTANTS
  Crns,          \* CRNs of the term
  Rows,          \* what is listed of a section: [course, campus, details]
  Courses,       \* courses with a section
  Targets,       \* configured target courses
  SubjectOf,     \* [Courses -> Nat]: subjects, in their sorted order
  Catalogued,    \* courses in the catalog at the start
  CatalogFile,   \* courses of the catalog input of refresh_data
  CatalogPages,  \* courses the live catalog knows
  StoredRows,    \* [Crns -> Rows or NoRow]: the sections at the start
  SchedulePage,  \* rows of the schedule input: a function on some CRNs
  Listings,      \* set of [Crns -> Rows or NoRow]: what USF may list
  GradeFile,     \* CRNs with a row in the grade input
  Documents,     \* sequence of CRNs: the syllabus documents
  SweepRows,     \* [Crns -> sets of rows a sweep may find]
  Tampa,         \* the supported campus
  Unknown,       \* the blank campus
  MaxRefreshes, MaxBulks, MaxCleanups, MaxSweeps, MaxKills \* bounds

NoRow == [present |-> FALSE]
NoDocument == "none"

ASSUME JobsAssumption ==
  /\ Rows \subseteq [course : Courses, campus : STRING, details : Nat]
  /\ Targets \subseteq Courses /\ SubjectOf \in [Courses -> Nat]
  /\ StoredRows \in [Crns -> Rows \cup {NoRow}] /\ Listings \subseteq [Crns -> Rows \cup {NoRow}]
  /\ DOMAIN SchedulePage \subseteq Crns /\ Tampa # Unknown

(* A stored section's course is in the catalog: sections.course_id refers to it *)
ASSUME TablesAssumption ==
  /\ \A c \in Crns : StoredRows[c] # NoRow => StoredRows[c].course \in Catalogued
  /\ \A c \in DOMAIN SchedulePage : SchedulePage[c] \in Rows
  /\ SweepRows \in [Crns -> SUBSET Rows]
  /\ Documents \in Seq(Crns)

VARIABLES
  catalog,   \* course rows
  section,   \* section rows, by CRN
  kids,      \* observations written for each section: seats, instructors
  ranking,   \* section_rankings rows
  grades,    \* CRNs with grade rows
  syllabus,  \* CRNs with a document, [joined to the section]
  refresh,   \* refresh_data: the stage it is in and the documents it has done
  bulk,      \* refresh_all_tampa: where it is, the subjects to do, those failed
  child,     \* its child: the targets to do and what it has written so far
  progress,  \* the progress file
  cleanup,   \* the cleanup: the statement it is at and what it has read
  sweep,     \* a sweep's transaction: what it has written so far
  trailing,  \* history: CRNs that were written after their ranking was computed
  committed, \* history: subjects a child has committed
  spent      \* how often each bounded step has happened

tableVars == <<catalog, section, kids, ranking, grades, syllabus>>
jobVars == <<refresh, bulk, child, progress, cleanup, sweep>>
jobsVars == <<tableVars, jobVars, trailing, committed, spent>>

Bounds == [refresh |-> MaxRefreshes, bulk |-> MaxBulks, cleanup |-> MaxCleanups,
           sweep |-> MaxSweeps, kill |-> MaxKills]
Spend(kind) == /\ spent[kind] < Bounds[kind]
               /\ spent' = [spent EXCEPT ![kind] = @ + 1]

Subjects == {SubjectOf[course] : course \in Targets}
Least(S) == CHOOSE s \in S : \A t \in S : s <= t

---------------------------------------------------------------------------
(* Sections and their rankings *)

Unranked == [ranked |-> FALSE]

(* What refresh_section_rankings stores of a section: it reads the syllabi of
   the term by CRN *)
RankOf(row, documented) ==
  IF row = NoRow THEN Unranked
  ELSE [course |-> row.course, campus |-> row.campus, details |-> row.details,
        documented |-> documented]

CampusKind(campus) ==
  IF campus = Unknown THEN "ambiguous" ELSE IF campus = Tampa THEN "tampa" ELSE "other"

OtherCampus(row) == row.course \in Targets /\ CampusKind(row.campus) = "other"

TargetRows == {c \in Crns : section[c] # NoRow /\ section[c].course \in Targets}

Overlay(table, rows) == [c \in Crns |-> IF c \in DOMAIN rows THEN rows[c] ELSE table[c]]

(* Two kinds of row locks: cleanup holds the target sections from its first
   statement, the ranking rows of its candidates from the deletion on; a child
   and a sweep hold what they have written *)
CleanupLocks == IF cleanup.at \in {"idle", "lock"} THEN {} ELSE cleanup.locked
Deleted == IF cleanup.at \in {"after", "recount", "commit"} THEN cleanup.candidates ELSE {}
SectionsFree(crns) == crns \cap (CleanupLocks \cup DOMAIN child.rows \cup DOMAIN sweep.rows) = {}
RankingsFree(crns) == crns \cap (Deleted \cup DOMAIN child.ranks \cup DOMAIN sweep.ranks) = {}

Merged(f, g) == [c \in DOMAIN f \cup DOMAIN g |-> IF c \in DOMAIN g THEN g[c] ELSE f[c]]

NoRanks == [c \in {} |-> Unranked]

(* Fault: the rows are written and the rankings are left for later *)
RerankedLater(course, rows) == NoRanks

(* The rankings of one course, as a transaction that has written rows sees it *)
Reranked(course, rows) ==
  LET seen == Overlay(section, rows)
      crns == {c \in Crns : seen[c] # NoRow /\ seen[c].course = course}
  IN [c \in crns |-> RankOf(seen[c], syllabus[c] # NoDocument)]

(* A commit that others overlook: they computed rankings before it *)
Overlooks(job, crns) == [job EXCEPT !.since = @ \cup crns]

---------------------------------------------------------------------------
(* refresh_data *)

Stages == <<"catalog", "schedule", "grades", "syllabi", "rankings", "write", "counts">>
After(stage) == Stages[1 + CHOOSE i \in 1..Len(Stages) : Stages[i] = stage]
AtStage(stage) == refresh.at = stage

StartRefresh ==
  /\ refresh.at \in {"idle", "failed"} /\ Spend("refresh")
  /\ refresh' = [at |-> "catalog", done |-> 0, ranks |-> NoRanks, since |-> {}]
  /\ UNCHANGED <<tableVars, bulk, child, progress, cleanup, sweep, trailing, committed>>

GoOn == refresh' = [refresh EXCEPT !.at = After(@)]
RefreshFrame == UNCHANGED <<bulk, progress, cleanup, committed, spent>>
OthersSame == UNCHANGED <<child, sweep>>
OthersOverlook(crns) == child' = Overlooks(child, crns) /\ sweep' = Overlooks(sweep, crns)

LoadCatalog ==
  /\ AtStage("catalog") /\ GoOn
  /\ catalog' = catalog \cup CatalogFile
  /\ UNCHANGED <<section, kids, ranking, grades, syllabus, trailing>> /\ OthersSame /\ RefreshFrame

(* ingest_schedule_html: every course is known, or nothing of the page is kept *)
IngestSchedule ==
  /\ AtStage("schedule") /\ GoOn
  /\ \A c \in DOMAIN SchedulePage : SchedulePage[c].course \in catalog
  /\ SectionsFree(DOMAIN SchedulePage)
  /\ section' = Overlay(section, SchedulePage)
  /\ kids' = [c \in Crns |-> IF c \in DOMAIN SchedulePage THEN kids[c] + 1 ELSE kids[c]]
  /\ trailing' = trailing \cup DOMAIN SchedulePage
  /\ OthersOverlook(DOMAIN SchedulePage)
  /\ UNCHANGED <<catalog, ranking, grades, syllabus>> /\ RefreshFrame

ImportGrades ==
  /\ AtStage("grades") /\ GoOn
  /\ grades' = grades \cup GradeFile
  /\ UNCHANGED <<catalog, section, kids, ranking, syllabus, trailing>> /\ OthersSame /\ RefreshFrame

(* A document is committed on its own, joined to the section of its CRN; only a
   FOR UPDATE lock on that section keeps it waiting *)
IngestSyllabus ==
  /\ AtStage("syllabi") /\ refresh.done < Len(Documents)
  /\ LET c == Documents[refresh.done + 1]
     IN /\ section[c] # NoRow => c \notin CleanupLocks
        /\ syllabus' = [syllabus EXCEPT ![c] = IF section[c] = NoRow THEN "loose" ELSE "joined"]
        /\ trailing' = trailing \cup {c}
        /\ OthersOverlook({c})
  /\ refresh' = [refresh EXCEPT !.done = @ + 1]
  /\ UNCHANGED <<catalog, section, kids, ranking, grades>> /\ RefreshFrame

EndSyllabi ==
  /\ AtStage("syllabi") /\ refresh.done = Len(Documents) /\ GoOn
  /\ UNCHANGED <<tableVars, trailing>> /\ OthersSame /\ RefreshFrame

(* refresh_section_rankings of the whole term: it reads *)
ComputeRankings ==
  /\ AtStage("rankings")
  /\ refresh' = [refresh EXCEPT !.at = After(@), !.since = {},
       !.ranks = [c \in {d \in Crns : section[d] # NoRow} |-> RankOf(section[c], syllabus[c] # NoDocument)]]
  /\ UNCHANGED <<tableVars, trailing>> /\ OthersSame /\ RefreshFrame

(* and then writes; a row of a section deleted meanwhile fails the stage *)
WriteRankings ==
  /\ AtStage("write")
  /\ RankingsFree(DOMAIN refresh.ranks)
  /\ \A c \in DOMAIN refresh.ranks : section[c] # NoRow
  /\ ranking' = Overlay(ranking, refresh.ranks)
  /\ trailing' = refresh.since
  /\ refresh' = [refresh EXCEPT !.at = After(@), !.ranks = NoRanks]
  /\ UNCHANGED <<catalog, section, kids, grades, syllabus>> /\ OthersSame /\ RefreshFrame

(* the counts and quality checks read only *)
EndRefresh ==
  /\ AtStage("counts")
  /\ refresh' = [refresh EXCEPT !.at = "idle"]
  /\ UNCHANGED <<tableVars, trailing>> /\ OthersSame /\ RefreshFrame

(* A stage raises: RefreshStageError ends the run, the stages before it stay *)
FailStage ==
  /\ refresh.at \in {Stages[i] : i \in DOMAIN Stages}
  /\ refresh' = [refresh EXCEPT !.at = "failed", !.ranks = NoRanks]
  /\ UNCHANGED <<tableVars, trailing>> /\ OthersSame /\ RefreshFrame

---------------------------------------------------------------------------
(* refresh_all_tampa and its children *)

NoRows == [c \in {} |-> NoRow]
NoChild == [at |-> "none", subject |-> 0, targets |-> {}, known |-> {},
            rows |-> NoRows, ranks |-> NoRanks, since |-> {}]

BulkFrame == UNCHANGED <<cleanup, sweep>>
TablesSame == UNCHANGED <<tableVars, refresh, trailing>>

(* Subjects of the progress file are skipped *)
StartBulk ==
  /\ bulk.at = "idle" /\ Spend("bulk")
  /\ bulk' = [at |-> "next", todo |-> Subjects \ progress, failed |-> {}]
  /\ TablesSame /\ UNCHANGED <<child, progress, committed>> /\ BulkFrame

StartChild ==
  /\ bulk.at = "next" /\ bulk.todo # {}
  /\ LET subject == Least(bulk.todo)
     IN /\ bulk' = [bulk EXCEPT !.at = "wait", !.todo = @ \ {subject}]
        /\ child' = [NoChild EXCEPT !.at = "run", !.subject = subject, !.known = {},
                       !.targets = {course \in Targets : SubjectOf[course] = subject}]
  /\ TablesSame /\ UNCHANGED <<progress, committed, spent>> /\ BulkFrame

(* The response to the course search: exact rows only, and Tampa ones or the
   whole target is refused *)
Response(course, listing) == {c \in Crns : listing[c] # NoRow /\ listing[c].course = course}
InTampa(crns, listing) == \A c \in crns : listing[c].campus = Tampa

(* One target of refresh_targets: its catalog page and its sections, in the
   child's open transaction.  A target that neither the catalog page nor the
   catalog knows is passed over. *)
RefreshTarget ==
  /\ child.at = "run" /\ child.targets # {}
  /\ \E course \in child.targets, listing \in Listings :
       LET crns == Response(course, listing)
           rows == Merged(child.rows, [c \in crns |-> listing[c]])
           ranks == Reranked(course, rows)
       IN IF course \in CatalogPages
          THEN /\ InTampa(crns, listing)
               /\ crns \cap (CleanupLocks \cup DOMAIN sweep.rows) = {}
               /\ DOMAIN ranks \cap (Deleted \cup DOMAIN sweep.ranks) = {}
               /\ child' = [child EXCEPT !.targets = @ \ {course}, !.known = @ \cup {course},
                              !.rows = rows, !.ranks = Merged(@, ranks), !.since = @ \ DOMAIN ranks]
          ELSE child' = [child EXCEPT !.targets = @ \ {course}]
  /\ TablesSame /\ UNCHANGED <<bulk, progress, committed, spent>> /\ BulkFrame

(* What a commit of rows and ranks does to the tables *)
Store(job) ==
  /\ section' = Overlay(section, job.rows)
  /\ kids' = [c \in Crns |-> IF c \in DOMAIN job.rows THEN kids[c] + 1 ELSE kids[c]]
  /\ ranking' = Overlay(ranking, job.ranks)
  /\ trailing' = (trailing \ DOMAIN job.ranks) \cup (job.since \cap DOMAIN job.ranks)
  /\ refresh' = Overlooks(refresh, DOMAIN job.rows)
  /\ UNCHANGED <<grades, syllabus>>

(* The transaction commits; the child has yet to exit *)
CommitChild ==
  /\ child.at = "run" /\ child.targets = {}
  /\ Store(child)
  /\ catalog' = catalog \cup child.known
  /\ child' = [NoChild EXCEPT !.at = "committed", !.subject = child.subject]
  /\ sweep' = Overlooks(sweep, DOMAIN child.rows)
  /\ committed' = committed \cup {child.subject}
  /\ UNCHANGED <<bulk, progress, cleanup, spent>>

(* Exit 0, and the subject is recorded *)
RecordSubject ==
  /\ bulk.at = "wait" /\ child.at = "committed"
  /\ progress' = progress \cup {child.subject}
  /\ child' = NoChild
  /\ bulk' = [bulk EXCEPT !.at = "next"]
  /\ TablesSame /\ UNCHANGED <<committed, spent>> /\ BulkFrame

(* Fault: a subject that failed is recorded too *)
NoteFailureRecorded(subject) ==
  /\ bulk' = [bulk EXCEPT !.at = "next", !.failed = @ \cup {subject}]
  /\ progress' = progress \cup {subject}

(* A failed subject is not recorded, and the run goes on *)
NoteFailure(subject) ==
  /\ bulk' = [bulk EXCEPT !.at = "next", !.failed = @ \cup {subject}]
  /\ UNCHANGED progress

(* The child raises, and its transaction rolls back; or it is killed for its
   time, be it after the commit *)
FailChild ==
  /\ bulk.at = "wait" /\ child.at # "none" /\ Spend("kill")
  /\ NoteFailure(child.subject)
  /\ child' = NoChild
  /\ TablesSame /\ UNCHANGED <<committed>> /\ BulkFrame

(* A response beyond the Tampa scope is refused *)
RefuseResponse ==
  /\ child.at = "run"
  /\ \E course \in child.targets \cap CatalogPages, listing \in Listings :
       ~InTampa(Response(course, listing), listing)
  /\ NoteFailure(child.subject)
  /\ child' = NoChild
  /\ TablesSame /\ UNCHANGED <<committed, spent>> /\ BulkFrame

(* The orchestrator dies; its child goes with it, or is done *)
CrashBulk ==
  /\ bulk.at # "idle" /\ Spend("kill")
  /\ bulk' = [at |-> "idle", todo |-> {}, failed |-> {}]
  /\ child' = NoChild
  /\ TablesSame /\ UNCHANGED <<progress, committed>> /\ BulkFrame

EndBulk ==
  /\ bulk.at = "next" /\ bulk.todo = {}
  /\ bulk' = [bulk EXCEPT !.at = "idle"]
  /\ TablesSame /\ UNCHANGED <<child, progress, committed, spent>> /\ BulkFrame

---------------------------------------------------------------------------
(* A sweep writes one section and its course's rankings *)

NoSweep == [at |-> "none", rows |-> NoRows, ranks |-> NoRanks, since |-> {}]
SweepFrame == UNCHANGED <<bulk, progress, cleanup, committed>>

StartSweep ==
  /\ sweep.at = "none" /\ Spend("sweep")
  /\ \E c \in Crns : \E row \in SweepRows[c] :
       LET rows == [d \in {c} |-> row]
           ranks == Reranked(row.course, rows)
       IN /\ row.course \in catalog
          /\ {c} \cap (CleanupLocks \cup DOMAIN child.rows) = {}
          /\ DOMAIN ranks \cap (Deleted \cup DOMAIN child.ranks) = {}
          /\ sweep' = [at |-> "run", rows |-> rows, ranks |-> ranks, since |-> {}]
  /\ TablesSame /\ SweepFrame /\ UNCHANGED child

CommitSweep ==
  /\ sweep.at = "run"
  /\ Store(sweep)
  /\ sweep' = NoSweep
  /\ child' = Overlooks(child, DOMAIN sweep.rows)
  /\ UNCHANGED <<catalog, spent>> /\ SweepFrame

---------------------------------------------------------------------------
(* clean_other_campus_sections --apply, statement by statement *)

NoCleanup == [at |-> "idle", expect |-> 0, locked |-> {}, candidates |-> {}, before |-> <<>>]

(* The row identities of each table *)
Identities == [section |-> {c \in Crns : section[c] # NoRow}, kids |-> kids,
               ranking |-> {c \in Crns : ranking[c] # Unranked},
               syllabus |-> {c \in Crns : syllabus[c] # NoDocument},
               tampa |-> {c \in TargetRows : CampusKind(section[c].campus) = "tampa"},
               ambiguous |-> {c \in TargetRows : CampusKind(section[c].campus) = "ambiguous"},
               grades |-> grades]

(* before, with the candidates and what hangs on them taken away *)
Without(ids, candidates, joined) ==
  [ids EXCEPT !.section = @ \ candidates, !.ranking = @ \ candidates,
              !.syllabus = @ \ joined,
              !.kids = [c \in Crns |-> IF c \in candidates THEN 0 ELSE @[c]]]

Joined(candidates) == {c \in candidates : syllabus[c] = "joined"}
Matched == {c \in TargetRows : OtherCampus(section[c])}

CleanupFrame == UNCHANGED <<bulk, progress, committed>>
CleanupReads == TablesSame /\ UNCHANGED <<child, sweep>> /\ CleanupFrame

(* --expect-removed is the number the dry run showed *)
StartCleanup ==
  /\ cleanup.at = "idle" /\ Spend("cleanup")
  /\ cleanup' = [NoCleanup EXCEPT !.at = "lock", !.expect = Cardinality(Matched)]
  /\ CleanupReads

(* Fault: the rows are read without a lock *)
LockNothing ==
  /\ cleanup.at = "lock"
  /\ cleanup' = [cleanup EXCEPT !.at = "check", !.candidates = Matched]
  /\ UNCHANGED spent /\ CleanupReads

(* _target_rows with FOR UPDATE *)
LockTargets ==
  /\ cleanup.at = "lock"
  /\ TargetRows \cap (DOMAIN child.rows \cup DOMAIN sweep.rows) = {}
  /\ cleanup' = [cleanup EXCEPT !.at = "check", !.locked = TargetRows, !.candidates = Matched]
  /\ UNCHANGED spent /\ CleanupReads

(* Another number than reviewed, or a grade row at a candidate's CRN, refuses *)
CheckCandidates ==
  /\ cleanup.at = "check"
  /\ cleanup' = IF Cardinality(cleanup.candidates) = cleanup.expect /\ cleanup.candidates \cap grades = {}
                THEN [cleanup EXCEPT !.at = "before"] ELSE NoCleanup
  /\ UNCHANGED spent /\ CleanupReads

SnapshotBefore ==
  /\ cleanup.at = "before"
  /\ cleanup' = [cleanup EXCEPT !.at = "delete", !.before = Identities]
  /\ UNCHANGED spent /\ CleanupReads

(* Fault: the dependent rows are not locked first *)
DeleteUnlocked ==
  /\ cleanup.at = "delete"
  /\ cleanup' = [cleanup EXCEPT !.at = "after"]
  /\ UNCHANGED spent /\ CleanupReads

(* The dependent rows are locked and deleted, then the sections *)
DeleteCandidates ==
  /\ cleanup.at = "delete"
  /\ cleanup.candidates \cap (DOMAIN child.ranks \cup DOMAIN sweep.ranks) = {}
  /\ cleanup' = [cleanup EXCEPT !.at = "after"]
  /\ UNCHANGED spent /\ CleanupReads

(* _verify_identities: whatever else came or went meanwhile aborts *)
VerifyIdentities ==
  /\ cleanup.at = "after"
  /\ LET candidates == cleanup.candidates
         joined == Joined(candidates)
     IN cleanup' = IF Without(Identities, candidates, joined) = Without(cleanup.before, candidates, joined)
                   THEN [cleanup EXCEPT !.at = "recount"] ELSE NoCleanup
  /\ UNCHANGED spent /\ CleanupReads

(* No section at another campus may remain *)
RecountTargets ==
  /\ cleanup.at = "recount"
  /\ cleanup' = IF Matched \subseteq cleanup.candidates
                THEN [cleanup EXCEPT !.at = "commit"] ELSE NoCleanup
  /\ UNCHANGED spent /\ CleanupReads

(* A database error: while it waits it may be the victim of a deadlock with a
   child that holds a ranking row of a candidate *)
FailCleanup ==
  /\ cleanup.at \in {"lock", "delete"}
  /\ cleanup' = NoCleanup
  /\ UNCHANGED spent /\ CleanupReads

CommitCleanup ==
  /\ cleanup.at = "commit"
  /\ LET gone == cleanup.candidates
     IN /\ section' = [c \in Crns |-> IF c \in gone THEN NoRow ELSE section[c]]
        /\ kids' = [c \in Crns |-> IF c \in gone THEN 0 ELSE kids[c]]
        /\ ranking' = [c \in Crns |-> IF c \in gone THEN Unranked ELSE ranking[c]]
        /\ syllabus' = [c \in Crns |-> IF c \in Joined(gone) THEN NoDocument ELSE syllabus[c]]
        /\ refresh' = Overlooks(refresh, gone)
        /\ child' = Overlooks(child, gone) /\ sweep' = Overlooks(sweep, gone)
        /\ trailing' = trailing \ gone
  /\ cleanup' = NoCleanup
  /\ UNCHANGED <<catalog, grades, spent>> /\ CleanupFrame

---------------------------------------------------------------------------
Init ==
  /\ catalog = Catalogued /\ section = StoredRows
  /\ kids = [c \in Crns |-> IF StoredRows[c] = NoRow THEN 0 ELSE 1]
  /\ syllabus = [c \in Crns |-> NoDocument]
  /\ ranking = [c \in Crns |-> RankOf(StoredRows[c], FALSE)]
  /\ grades = {}
  /\ refresh = [at |-> "idle", done |-> 0, ranks |-> NoRanks, since |-> {}]
  /\ bulk = [at |-> "idle", todo |-> {}, failed |-> {}]
  /\ child = NoChild /\ progress = {} /\ cleanup = NoCleanup /\ sweep = NoSweep
  /\ trailing = {} /\ committed = {}
  /\ spent = [kind \in DOMAIN Bounds |-> 0]

RefreshStep ==
  \/ StartRefresh \/ LoadCatalog \/ IngestSchedule \/ ImportGrades \/ IngestSyllabus \/ EndSyllabi
  \/ ComputeRankings \/ WriteRankings \/ EndRefresh \/ FailStage

BulkStep ==
  \/ StartBulk \/ StartChild \/ RefreshTarget \/ CommitChild \/ RecordSubject
  \/ FailChild \/ RefuseResponse \/ CrashBulk \/ EndBulk

CleanupStep ==
  \/ StartCleanup \/ LockTargets \/ CheckCandidates \/ SnapshotBefore \/ DeleteCandidates
  \/ VerifyIdentities \/ RecountTargets \/ FailCleanup \/ CommitCleanup

Next == RefreshStep \/ BulkStep \/ CleanupStep \/ StartSweep \/ CommitSweep

Spec == Init /\ [][Next]_jobsVars

---------------------------------------------------------------------------
(* Properties *)

(* Types, and the references between the tables: a section's course is in the
   catalog, and nothing hangs on a section that is not there. *)
JobsTypeOK ==
  /\ section \in [Crns -> Rows \cup {NoRow}]
  /\ \A c \in Crns :
       IF section[c] = NoRow
       THEN ranking[c] = Unranked /\ kids[c] = 0 /\ syllabus[c] # "joined"
       ELSE section[c].course \in catalog
  /\ progress \subseteq Subjects /\ bulk.todo \subseteq Subjects /\ committed \subseteq Subjects

(* The jobs keep what TermTables promises: a Tampa section, one whose campus is
   blank, and one of another course are never deleted, whatever a sweep or a
   refresh commits between the cleanup's statements. *)
Tables == INSTANCE TermTables WITH rows <- section, Doomed <- OtherCampus
KeepsTables == Tables!TablesSpec

(* A section is ranked as the tables have it, but for those that refresh_data
   has written and not yet ranked (for good, when a later stage fails) and those
   that were written after an overlapping rebuild had read them. *)
RankingsTrailOnlyWrites ==
  \A c \in Crns : c \notin trailing => ranking[c] = RankOf(section[c], syllabus[c] # NoDocument)

(* A subject in the progress file was committed: a resumed run skips no subject
   whose child failed, was killed or died with the orchestrator. *)
RecordedIsCommitted == progress \subseteq committed
=============================================================================
