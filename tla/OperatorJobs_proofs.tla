------------------------ MODULE OperatorJobs_proofs ------------------------
(***************************************************************************)
(* Theorems about OperatorJobs for every set of sections, courses and      *)
(* targets, every listing and input file, and every bound on the runs.     *)
(***************************************************************************)
EXTENDS OperatorJobs, WellFoundedInduction, TLAPS

---------------------------------------------------------------------------
(* The inductive invariant *)

RankRows == {Unranked} \cup [course : Courses, campus : STRING, details : Nat, documented : BOOLEAN]
RowTables == UNION {[S -> Rows] : S \in SUBSET Crns}
RankTables == UNION {[S -> RankRows] : S \in SUBSET Crns}

RefreshPlaces == {"idle", "failed", "catalog", "schedule", "grades", "syllabi", "rankings",
                  "write", "counts"}

JobShapes ==
  /\ section \in [Crns -> Rows \cup {NoRow}]
  /\ syllabus \in [Crns -> {NoDocument, "loose", "joined"}]
  /\ refresh \in [at : RefreshPlaces, done : Nat, ranks : RankTables, since : SUBSET Crns]
  /\ bulk \in [at : {"idle", "next", "wait"}, todo : SUBSET Subjects, failed : SUBSET Nat]
  /\ child \in [at : {"none", "run", "committed"}, subject : Nat, targets : SUBSET Targets,
                known : SUBSET Courses, rows : RowTables, ranks : RankTables, since : SUBSET Crns]
  /\ sweep \in [at : {"none", "run"}, rows : RowTables, ranks : RankTables, since : SUBSET Crns]
  /\ DOMAIN cleanup = {"at", "expect", "locked", "candidates", "before"}
  /\ cleanup.locked \subseteq Crns /\ cleanup.candidates \subseteq Crns

(* Whom the progress file may name *)
SubjectsKnown ==
  /\ progress \subseteq committed /\ committed \subseteq Subjects
  /\ child.at # "none" => child.subject \in Subjects
  /\ child.at = "committed" => child.subject \in committed

(* What the row locks keep apart: nobody writes a section that the cleanup has
   read for update, nor the ranking of one it has deleted *)
LocksHold ==
  /\ CleanupLocks \cap (DOMAIN child.rows \cup DOMAIN sweep.rows) = {}
  /\ Deleted \cap (DOMAIN child.ranks \cup DOMAIN sweep.ranks) = {}
  /\ cleanup.at \notin {"idle", "lock"} =>
       /\ cleanup.candidates \subseteq cleanup.locked
       /\ \A c \in cleanup.candidates : section[c] # NoRow /\ OtherCampus(section[c])

(* A section as the open transaction of a job sees it *)
SeenBy(job, c) == Overlay(section, job.rows)[c]

JobRefers(job, known) ==
  /\ \A c \in DOMAIN job.rows : job.rows[c].course \in known
  /\ DOMAIN job.rows \subseteq DOMAIN job.ranks
  /\ \A c \in DOMAIN job.ranks : SeenBy(job, c) # NoRow

References ==
  \A c \in Crns :
    IF section[c] = NoRow
    THEN ranking[c] = Unranked /\ kids[c] = 0 /\ syllabus[c] # "joined"
    ELSE section[c].course \in catalog

TablesRefer ==
  /\ JobRefers(child, catalog \cup child.known) /\ JobRefers(sweep, catalog)
  /\ References

(* The rankings a job is about to write are current, but for the sections that
   others have committed since it computed them *)
CurrentRank(c) == RankOf(section[c], syllabus[c] # NoDocument)

JobCurrent(job) ==
  \A c \in DOMAIN job.ranks \ job.since :
    job.ranks[c] = RankOf(SeenBy(job, c), syllabus[c] # NoDocument)

RefreshCurrent ==
  refresh.at = "write" =>
    \A c \in Crns \ refresh.since :
      IF c \in DOMAIN refresh.ranks THEN refresh.ranks[c] = CurrentRank(c)
      ELSE section[c] = NoRow

RanksCurrent == JobCurrent(child) /\ JobCurrent(sweep) /\ RefreshCurrent

---------------------------------------------------------------------------
(* Partial tables *)

LEMMA RowTable ==
  ASSUME NEW f \in RowTables
  PROVE  DOMAIN f \subseteq Crns /\ \A c \in DOMAIN f : f[c] \in Rows
BY DEF RowTables

LEMMA IsRowTable ==
  ASSUME NEW S \in SUBSET Crns, NEW f \in [S -> Rows]
  PROVE  f \in RowTables
BY DEF RowTables

LEMMA RankTable ==
  ASSUME NEW f \in RankTables
  PROVE  DOMAIN f \subseteq Crns /\ \A c \in DOMAIN f : f[c] \in RankRows
BY DEF RankTables

LEMMA IsRankTable ==
  ASSUME NEW S \in SUBSET Crns, NEW f \in [S -> RankRows]
  PROVE  f \in RankTables
BY DEF RankTables

LEMMA EmptyTables == NoRows \in RowTables /\ NoRanks \in RankTables
<1>1. NoRows \in [{} -> Rows] /\ NoRanks \in [{} -> RankRows]
  BY DEF NoRows, NoRanks
<1> QED BY <1>1, IsRowTable, IsRankTable

LEMMA MergedRows ==
  ASSUME NEW f \in RowTables, NEW g \in RowTables
  PROVE  Merged(f, g) \in RowTables
<1>1. Merged(f, g) \in [DOMAIN f \cup DOMAIN g -> Rows]
  BY RowTable DEF Merged
<1> QED BY <1>1, RowTable, IsRowTable

LEMMA MergedRanks ==
  ASSUME NEW f \in RankTables, NEW g \in RankTables
  PROVE  Merged(f, g) \in RankTables
<1>1. Merged(f, g) \in [DOMAIN f \cup DOMAIN g -> RankRows]
  BY RankTable DEF Merged
<1> QED BY <1>1, RankTable, IsRankTable

(* No row is a row of the page: records of other fields *)
LEMMA NoRowIsNoRow == NoRow \notin Rows
<1> SUFFICES ASSUME NoRow \in Rows PROVE FALSE
  OBVIOUS
<1>1. NoRow \in [course : Courses, campus : STRING, details : Nat]
  BY JobsAssumption
<1>2. "course" \in DOMAIN NoRow
  BY <1>1
<1> QED BY <1>2 DEF NoRow

LEMMA RankOfRow ==
  ASSUME NEW row \in Rows \cup {NoRow}, NEW documented \in BOOLEAN
  PROVE  RankOf(row, documented) \in RankRows
<1>1. CASE row = NoRow
  BY <1>1 DEF RankOf, RankRows
<1>2. CASE row # NoRow
  <2>1. row \in [course : Courses, campus : STRING, details : Nat]
    BY <1>2, JobsAssumption
  <2> QED BY <1>2, <2>1 DEF RankOf, RankRows
<1> QED BY <1>1, <1>2

LEMMA OverlayType ==
  ASSUME NEW table \in [Crns -> Rows \cup {NoRow}], NEW rows \in RowTables
  PROVE  Overlay(table, rows) \in [Crns -> Rows \cup {NoRow}]
BY RowTable DEF Overlay

LEMMA RerankedType ==
  ASSUME JobShapes, NEW course, NEW rows \in RowTables
  PROVE  Reranked(course, rows) \in RankTables
<1> DEFINE seen == Overlay(section, rows)
<1> DEFINE crns == {c \in Crns : seen[c] # NoRow /\ seen[c].course = course}
<1>1. seen \in [Crns -> Rows \cup {NoRow}]
  BY OverlayType DEF JobShapes
<1> HIDE DEF seen
<1>2. [c \in crns |-> RankOf(seen[c], syllabus[c] # NoDocument)] \in [crns -> RankRows]
  BY <1>1, RankOfRow
<1> QED BY <1>2, IsRankTable DEF Reranked, seen

LEMMA AfterStage ==
  /\ After("catalog") = "schedule" /\ After("schedule") = "grades" /\ After("grades") = "syllabi"
  /\ After("syllabi") = "rankings" /\ After("rankings") = "write" /\ After("write") = "counts"
<1>1. \A s \in RefreshPlaces : \A i \in 1..7 :
        Stages[i] = s /\ (\A j \in 1..7 : Stages[j] = s => j = i) => After(s) = Stages[1 + i]
  BY DEF After, Stages
<1> QED BY <1>1 DEF Stages, RefreshPlaces

(* Every set of subjects to do has a first one *)
LEMMA NatHasLeast ==
  ASSUME NEW T \in SUBSET Nat, T # {}
  PROVE  \E n \in T : \A m \in T : n <= m
<1> DEFINE R == {ss \in Nat \X Nat : ss[1] < ss[2]}
<1>1. IsWellFoundedOn(R, Nat)
  BY NatLessThanWellFounded DEF OpToRel
<1>2. PICK n \in T : \A m \in T : ~ (<<m, n>> \in R)
  BY <1>1, WFMin
<1>3. ASSUME NEW m \in T PROVE n <= m
  <2>1. ~ (<<m, n>> \in R)
    BY <1>2
  <2>2. m \in Nat /\ n \in Nat
    OBVIOUS
  <2> QED BY <2>1, <2>2
<1> QED BY <1>3

LEMMA LeastIsIn ==
  ASSUME NEW S \in SUBSET Subjects, S # {}
  PROVE  Least(S) \in S
<1>1. S \subseteq Nat
  BY JobsAssumption DEF Subjects
<1> QED BY <1>1, NatHasLeast DEF Least

---------------------------------------------------------------------------
(* Every step keeps the shapes *)

LEMMA InitShapes == Init => JobShapes
<1> SUFFICES ASSUME Init PROVE JobShapes
  OBVIOUS
<1> USE DEF Init
<1>1. section \in [Crns -> Rows \cup {NoRow}]
  BY JobsAssumption
<1>2. syllabus \in [Crns -> {NoDocument, "loose", "joined"}]
  OBVIOUS
<1>3. refresh \in [at : RefreshPlaces, done : Nat, ranks : RankTables, since : SUBSET Crns]
  BY EmptyTables DEF RefreshPlaces
<1>4. bulk \in [at : {"idle", "next", "wait"}, todo : SUBSET Subjects, failed : SUBSET Nat]
  OBVIOUS
<1>5. child \in [at : {"none", "run", "committed"}, subject : Nat, targets : SUBSET Targets,
                known : SUBSET Courses, rows : RowTables, ranks : RankTables, since : SUBSET Crns]
  BY EmptyTables DEF NoChild
<1>6. sweep \in [at : {"none", "run"}, rows : RowTables, ranks : RankTables, since : SUBSET Crns]
  BY EmptyTables DEF NoSweep
<1>7. /\ DOMAIN cleanup = {"at", "expect", "locked", "candidates", "before"}
      /\ cleanup.locked \subseteq Crns /\ cleanup.candidates \subseteq Crns
  BY DEF NoCleanup
<1> QED BY <1>1, <1>2, <1>3, <1>4, <1>5, <1>6, <1>7 DEF JobShapes

LEMMA OverlooksShape ==
  ASSUME JobShapes, NEW crns \in SUBSET Crns
  PROVE  /\ Overlooks(refresh, crns)
              \in [at : RefreshPlaces, done : Nat, ranks : RankTables, since : SUBSET Crns]
         /\ Overlooks(child, crns)
              \in [at : {"none", "run", "committed"}, subject : Nat, targets : SUBSET Targets,
                  known : SUBSET Courses, rows : RowTables, ranks : RankTables, since : SUBSET Crns]
         /\ Overlooks(sweep, crns)
              \in [at : {"none", "run"}, rows : RowTables, ranks : RankTables, since : SUBSET Crns]
BY DEF JobShapes, Overlooks

(* A commit of rows and rankings *)
LEMMA StoreShape ==
  ASSUME JobShapes, NEW job, job.rows \in RowTables, Store(job)
  PROVE  /\ section' \in [Crns -> Rows \cup {NoRow}]
         /\ syllabus' = syllabus
         /\ refresh' \in [at : RefreshPlaces, done : Nat, ranks : RankTables, since : SUBSET Crns]
         /\ DOMAIN job.rows \in SUBSET Crns
<1>1. DOMAIN job.rows \in SUBSET Crns
  BY RowTable
<1>2. section' \in [Crns -> Rows \cup {NoRow}]
  BY OverlayType DEF Store, JobShapes
<1> QED BY <1>1, <1>2, OverlooksShape DEF Store

LEMMA GoOnShape ==
  ASSUME JobShapes, GoOn,
         refresh.at \in {"catalog", "schedule", "grades", "syllabi", "rankings", "write"}
  PROVE  refresh' \in [at : RefreshPlaces, done : Nat, ranks : RankTables, since : SUBSET Crns]
<1>1. After(refresh.at) \in RefreshPlaces
  BY AfterStage DEF RefreshPlaces
<1> QED BY <1>1 DEF JobShapes, GoOn

LEMMA RefreshShapes ==
  ASSUME JobShapes, RefreshStep
  PROVE  JobShapes'
<1>1. CASE StartRefresh
  <2>1. refresh' \in [at : RefreshPlaces, done : Nat, ranks : RankTables, since : SUBSET Crns]
    BY <1>1, EmptyTables DEF StartRefresh, RefreshPlaces
  <2> QED BY <1>1, <2>1 DEF StartRefresh, JobShapes, tableVars
<1>2. CASE LoadCatalog
  BY <1>2, GoOnShape DEF LoadCatalog, JobShapes, AtStage, OthersSame, RefreshFrame
<1>3. CASE IngestSchedule
  <2>1. DOMAIN SchedulePage \in SUBSET Crns
    BY JobsAssumption
  <2>2. section' \in [Crns -> Rows \cup {NoRow}]
    BY <1>3, TablesAssumption DEF IngestSchedule, Overlay, JobShapes
  <2>3. refresh' \in [at : RefreshPlaces, done : Nat, ranks : RankTables, since : SUBSET Crns]
    BY <1>3, GoOnShape DEF IngestSchedule, AtStage
  <2> QED BY <1>3, <2>1, <2>2, <2>3, OverlooksShape
             DEF IngestSchedule, JobShapes, OthersOverlook, RefreshFrame
<1>4. CASE ImportGrades
  BY <1>4, GoOnShape DEF ImportGrades, JobShapes, AtStage, OthersSame, RefreshFrame
<1>5. CASE IngestSyllabus
  <2> DEFINE c == Documents[refresh.done + 1]
  <2>1. c \in Crns
    BY <1>5, TablesAssumption DEF IngestSyllabus, JobShapes
  <2>2. syllabus' \in [Crns -> {NoDocument, "loose", "joined"}]
    BY <1>5 DEF IngestSyllabus, JobShapes
  <2>3. refresh' \in [at : RefreshPlaces, done : Nat, ranks : RankTables, since : SUBSET Crns]
    BY <1>5 DEF IngestSyllabus, JobShapes
  <2>4. child' = Overlooks(child, {c}) /\ sweep' = Overlooks(sweep, {c})
    BY <1>5 DEF IngestSyllabus, OthersOverlook
  <2>5. {c} \in SUBSET Crns
    BY <2>1
  <2> QED BY <1>5, <2>2, <2>3, <2>4, <2>5, OverlooksShape DEF IngestSyllabus, JobShapes, RefreshFrame
<1>6. CASE EndSyllabi
  BY <1>6, GoOnShape DEF EndSyllabi, JobShapes, AtStage, OthersSame, RefreshFrame, tableVars
<1>7. CASE ComputeRankings
  <2> DEFINE crns == {d \in Crns : section[d] # NoRow}
  <2> DEFINE ranks == [c \in crns |-> RankOf(section[c], syllabus[c] # NoDocument)]
  <2>1. ranks \in [crns -> RankRows]
    BY RankOfRow DEF JobShapes
  <2>2. ranks \in RankTables
    BY <2>1, IsRankTable
  <2>3. After(refresh.at) \in RefreshPlaces
    BY <1>7, AfterStage DEF ComputeRankings, AtStage, RefreshPlaces
  <2> HIDE DEF ranks
  <2>4. refresh' = [refresh EXCEPT !.at = After(@), !.since = {}, !.ranks = ranks]
    BY <1>7 DEF ComputeRankings, ranks
  <2>5. refresh' \in [at : RefreshPlaces, done : Nat, ranks : RankTables, since : SUBSET Crns]
    BY <2>2, <2>3, <2>4 DEF JobShapes
  <2> QED BY <1>7, <2>5 DEF ComputeRankings, JobShapes, OthersSame, RefreshFrame, tableVars
<1>8. CASE WriteRankings
  <2>1. After(refresh.at) \in RefreshPlaces
    BY <1>8, AfterStage DEF WriteRankings, AtStage, RefreshPlaces
  <2>2. refresh' \in [at : RefreshPlaces, done : Nat, ranks : RankTables, since : SUBSET Crns]
    BY <1>8, <2>1, EmptyTables DEF WriteRankings, JobShapes
  <2> QED BY <1>8, <2>2 DEF WriteRankings, JobShapes, OthersSame, RefreshFrame
<1>9. CASE EndRefresh \/ FailStage
  <2>1. refresh' \in [at : RefreshPlaces, done : Nat, ranks : RankTables, since : SUBSET Crns]
    BY <1>9, EmptyTables DEF EndRefresh, FailStage, JobShapes, RefreshPlaces
  <2> QED BY <1>9, <2>1 DEF EndRefresh, FailStage, JobShapes, OthersSame, RefreshFrame, tableVars
<1> QED BY <1>1, <1>2, <1>3, <1>4, <1>5, <1>6, <1>7, <1>8, <1>9 DEF RefreshStep

LEMMA BulkShapes ==
  ASSUME JobShapes, BulkStep
  PROVE  JobShapes'
<1> DEFINE Children == [at : {"none", "run", "committed"}, subject : Nat, targets : SUBSET Targets,
                        known : SUBSET Courses, rows : RowTables, ranks : RankTables,
                        since : SUBSET Crns]
<1> DEFINE Bulks == [at : {"idle", "next", "wait"}, todo : SUBSET Subjects, failed : SUBSET Nat]
<1>0. NoChild \in Children
  BY EmptyTables DEF NoChild
<1>1. CASE StartBulk
  BY <1>1 DEF StartBulk, JobShapes, TablesSame, BulkFrame, tableVars
<1>2. CASE StartChild
  <2> DEFINE subject == Least(bulk.todo)
  <2>1. subject \in Subjects /\ subject \in Nat
    BY <1>2, LeastIsIn, JobsAssumption DEF StartChild, JobShapes, Subjects
  <2>2. child' \in Children
    BY <1>2, <1>0, <2>1 DEF StartChild
  <2>3. bulk' \in Bulks
    BY <1>2 DEF StartChild, JobShapes
  <2> QED BY <1>2, <2>2, <2>3 DEF StartChild, JobShapes, TablesSame, BulkFrame, tableVars
<1>3. CASE RefreshTarget
  <2>1. PICK course \in child.targets, listing \in Listings :
          LET crns == Response(course, listing)
              rows == Merged(child.rows, [c \in crns |-> listing[c]])
              ranks == Reranked(course, rows)
          IN  \/ child' = [child EXCEPT !.targets = @ \ {course}, !.known = @ \cup {course},
                             !.rows = rows, !.ranks = Merged(@, ranks), !.since = @ \ DOMAIN ranks]
              \/ child' = [child EXCEPT !.targets = @ \ {course}]
    BY <1>3 DEF RefreshTarget
  <2> DEFINE crns == Response(course, listing)
  <2> DEFINE rows == Merged(child.rows, [c \in crns |-> listing[c]])
  <2> DEFINE ranks == Reranked(course, rows)
  <2>2. course \in Courses
    BY JobsAssumption DEF JobShapes
  <2>3. [c \in crns |-> listing[c]] \in [crns -> Rows] /\ crns \in SUBSET Crns
    BY JobsAssumption DEF Response
  <2>4. rows \in RowTables
    BY <2>3, IsRowTable, MergedRows DEF JobShapes
  <2>5. ranks \in RankTables
    BY <2>4, RerankedType
  <2>6. Merged(child.ranks, ranks) \in RankTables
    BY <2>5, MergedRanks DEF JobShapes
  <2>7. \/ child' = [child EXCEPT !.targets = @ \ {course}, !.known = @ \cup {course},
                       !.rows = rows, !.ranks = Merged(@, ranks), !.since = @ \ DOMAIN ranks]
        \/ child' = [child EXCEPT !.targets = @ \ {course}]
    BY <2>1
  <2> HIDE DEF crns, rows, ranks
  <2>8. child \in Children
    BY DEF JobShapes
  <2>9. ASSUME child' = [child EXCEPT !.targets = @ \ {course}, !.known = @ \cup {course},
                           !.rows = rows, !.ranks = Merged(@, ranks), !.since = @ \ DOMAIN ranks]
        PROVE  child' \in Children
    BY <2>2, <2>4, <2>6, <2>8, <2>9
  <2>10. ASSUME child' = [child EXCEPT !.targets = @ \ {course}]
         PROVE  child' \in Children
    BY <2>8, <2>10
  <2>11. child' \in Children
    BY <2>7, <2>9, <2>10
  <2> QED BY <1>3, <2>11 DEF RefreshTarget, JobShapes, TablesSame, BulkFrame, tableVars
<1>4. CASE CommitChild
  <2>1. /\ section' \in [Crns -> Rows \cup {NoRow}]
        /\ syllabus' = syllabus
        /\ refresh' \in [at : RefreshPlaces, done : Nat, ranks : RankTables, since : SUBSET Crns]
        /\ DOMAIN child.rows \in SUBSET Crns
    BY <1>4, StoreShape DEF CommitChild, JobShapes
  <2>2. child' \in Children
    BY <1>0, <1>4 DEF CommitChild, JobShapes
  <2> QED BY <1>4, <2>1, <2>2, OverlooksShape DEF CommitChild, JobShapes
<1>5. CASE RecordSubject \/ FailChild \/ RefuseResponse
  <2>1. child' = NoChild
    BY <1>5 DEF RecordSubject, FailChild, RefuseResponse
  <2>2. \/ bulk' = [bulk EXCEPT !.at = "next"]
        \/ bulk' = [bulk EXCEPT !.at = "next", !.failed = @ \cup {child.subject}]
    BY <1>5 DEF RecordSubject, FailChild, RefuseResponse, NoteFailure
  <2>3. bulk \in Bulks /\ child.subject \in Nat
    BY DEF JobShapes
  <2>4. bulk.failed \cup {child.subject} \in SUBSET Nat
    BY <2>3
  <2>5. ASSUME bulk' = [bulk EXCEPT !.at = "next"] PROVE bulk' \in Bulks
    BY <2>3, <2>5
  <2>6. ASSUME bulk' = [bulk EXCEPT !.at = "next", !.failed = @ \cup {child.subject}]
        PROVE  bulk' \in Bulks
    BY <2>3, <2>4, <2>6
  <2>7. bulk' \in Bulks
    BY <2>2, <2>5, <2>6
  <2> QED
    BY <1>0, <1>5, <2>1, <2>7
       DEF RecordSubject, FailChild, RefuseResponse, NoteFailure, JobShapes, TablesSame, BulkFrame,
           tableVars
<1>6. CASE CrashBulk \/ EndBulk
  <2>1. child' \in Children
    BY <1>0, <1>6 DEF CrashBulk, EndBulk, JobShapes
  <2>2. bulk' \in Bulks
    BY <1>6 DEF CrashBulk, EndBulk, JobShapes
  <2> QED BY <1>6, <2>1, <2>2 DEF CrashBulk, EndBulk, JobShapes, TablesSame, BulkFrame, tableVars
<1> QED BY <1>1, <1>2, <1>3, <1>4, <1>5, <1>6 DEF BulkStep

LEMMA SweepShapes ==
  ASSUME JobShapes, StartSweep \/ CommitSweep
  PROVE  JobShapes'
<1> DEFINE Sweeps == [at : {"none", "run"}, rows : RowTables, ranks : RankTables,
                      since : SUBSET Crns]
<1>1. CASE StartSweep
  <2>0. PICK c \in Crns : \E row \in SweepRows[c] :
          LET rows == [d \in {c} |-> row]
          IN  sweep' = [at |-> "run", rows |-> rows, ranks |-> Reranked(row.course, rows), since |-> {}]
    BY <1>1 DEF StartSweep
  <2>1. PICK row \in SweepRows[c] :
          LET rows == [d \in {c} |-> row]
          IN  sweep' = [at |-> "run", rows |-> rows, ranks |-> Reranked(row.course, rows), since |-> {}]
    BY <2>0
  <2> DEFINE rows == [d \in {c} |-> row]
  <2>2. rows \in [{c} -> Rows]
    BY TablesAssumption
  <2>3. rows \in RowTables
    BY <2>2, IsRowTable
  <2>4. Reranked(row.course, rows) \in RankTables
    BY <2>3, RerankedType
  <2> HIDE DEF rows
  <2>5. sweep' \in Sweeps
    BY <2>1, <2>3, <2>4 DEF rows
  <2> QED BY <1>1, <2>5 DEF StartSweep, JobShapes, TablesSame, SweepFrame, tableVars
<1>2. CASE CommitSweep
  <2>1. /\ section' \in [Crns -> Rows \cup {NoRow}]
        /\ syllabus' = syllabus
        /\ refresh' \in [at : RefreshPlaces, done : Nat, ranks : RankTables, since : SUBSET Crns]
        /\ DOMAIN sweep.rows \in SUBSET Crns
    BY <1>2, StoreShape DEF CommitSweep, JobShapes
  <2>2. sweep' \in Sweeps
    BY <1>2, EmptyTables DEF CommitSweep, NoSweep
  <2> QED BY <1>2, <2>1, <2>2, OverlooksShape DEF CommitSweep, JobShapes, SweepFrame
<1> QED BY <1>1, <1>2

LEMMA CleanupShapes ==
  ASSUME JobShapes, CleanupStep
  PROVE  JobShapes'
<1> DEFINE Shape(job) == /\ DOMAIN job = {"at", "expect", "locked", "candidates", "before"}
                         /\ job.locked \subseteq Crns /\ job.candidates \subseteq Crns
<1>0. Shape(cleanup) /\ Shape(NoCleanup) /\ TargetRows \subseteq Crns /\ Matched \subseteq Crns
  BY DEF JobShapes, NoCleanup, TargetRows, Matched
<1>1. CASE StartCleanup \/ LockTargets
  <2>1. Shape(cleanup')
    BY <1>0, <1>1 DEF StartCleanup, LockTargets
  <2> QED BY <1>1, <2>1
             DEF StartCleanup, LockTargets, JobShapes, CleanupReads, CleanupFrame, TablesSame, tableVars
<1>2. CASE CheckCandidates \/ SnapshotBefore \/ DeleteCandidates
  <2>1. Shape(cleanup')
    BY <1>0, <1>2 DEF CheckCandidates, SnapshotBefore, DeleteCandidates
  <2> QED BY <1>2, <2>1 DEF CheckCandidates, SnapshotBefore, DeleteCandidates, JobShapes,
                            CleanupReads, CleanupFrame, TablesSame, tableVars
<1>3. CASE VerifyIdentities \/ RecountTargets \/ FailCleanup
  <2>1. Shape(cleanup')
    BY <1>0, <1>3 DEF VerifyIdentities, RecountTargets, FailCleanup
  <2> QED BY <1>3, <2>1 DEF VerifyIdentities, RecountTargets, FailCleanup, JobShapes,
                            CleanupReads, CleanupFrame, TablesSame, tableVars
<1>4. CASE CommitCleanup
  <2> DEFINE gone == cleanup.candidates
  <2>1. Shape(cleanup')
    BY <1>0, <1>4 DEF CommitCleanup
  <2>2. gone \in SUBSET Crns
    BY <1>0
  <2>3. section' \in [Crns -> Rows \cup {NoRow}]
    BY <1>4 DEF CommitCleanup, JobShapes
  <2>4. syllabus' \in [Crns -> {NoDocument, "loose", "joined"}]
    BY <1>4 DEF CommitCleanup, JobShapes
  <2>5. /\ refresh' = Overlooks(refresh, gone)
        /\ child' = Overlooks(child, gone) /\ sweep' = Overlooks(sweep, gone)
    BY <1>4 DEF CommitCleanup
  <2> QED BY <1>4, <2>1, <2>2, <2>3, <2>4, <2>5, OverlooksShape DEF CommitCleanup, JobShapes, CleanupFrame
<1> QED BY <1>1, <1>2, <1>3, <1>4 DEF CleanupStep

LEMMA StepShapes == JobShapes /\ [Next]_jobsVars => JobShapes'
<1> SUFFICES ASSUME JobShapes, [Next]_jobsVars PROVE JobShapes'
  OBVIOUS
<1>1. CASE UNCHANGED jobsVars
  BY <1>1 DEF jobsVars, tableVars, jobVars, JobShapes
<1> QED BY <1>1, RefreshShapes, BulkShapes, SweepShapes, CleanupShapes DEF Next

---------------------------------------------------------------------------
(* The progress file *)

LEMMA OverlooksKeeps ==
  ASSUME JobShapes, NEW crns
  PROVE  /\ \A f \in {"at", "done", "ranks"} : Overlooks(refresh, crns)[f] = refresh[f]
         /\ \A f \in {"at", "subject", "targets", "known", "rows", "ranks"} :
              Overlooks(child, crns)[f] = child[f]
         /\ \A f \in {"at", "rows", "ranks"} : Overlooks(sweep, crns)[f] = sweep[f]
         /\ Overlooks(refresh, crns).since = refresh.since \cup crns
         /\ Overlooks(child, crns).since = child.since \cup crns
         /\ Overlooks(sweep, crns).since = sweep.since \cup crns
BY DEF JobShapes, Overlooks

(* What the steps of the other jobs do to the child: it overlooks their commits *)
LEMMA OthersLeaveChild ==
  ASSUME JobShapes, RefreshStep \/ CleanupStep \/ StartSweep \/ CommitSweep
  PROVE  \E crns : child' = Overlooks(child, crns)
<1>0. child = Overlooks(child, {})
  BY DEF JobShapes, Overlooks
<1>1. CASE RefreshStep
  BY <1>0, <1>1 DEF RefreshStep, StartRefresh, LoadCatalog, IngestSchedule, ImportGrades,
       IngestSyllabus, EndSyllabi, ComputeRankings, WriteRankings, EndRefresh, FailStage,
       OthersSame, OthersOverlook
<1>2. CASE CleanupStep
  BY <1>0, <1>2 DEF CleanupStep, StartCleanup, LockTargets, CheckCandidates, SnapshotBefore,
       DeleteCandidates, VerifyIdentities, RecountTargets, FailCleanup, CommitCleanup, CleanupReads
<1>3. CASE StartSweep \/ CommitSweep
  BY <1>0, <1>3 DEF StartSweep, CommitSweep
<1> QED BY <1>1, <1>2, <1>3

LEMMA OthersLeaveProgress ==
  ASSUME RefreshStep \/ CleanupStep \/ StartSweep \/ CommitSweep
  PROVE  UNCHANGED <<progress, committed>>
<1>1. CASE RefreshStep
  BY <1>1 DEF RefreshStep, StartRefresh, LoadCatalog, IngestSchedule, ImportGrades,
       IngestSyllabus, EndSyllabi, ComputeRankings, WriteRankings, EndRefresh, FailStage, RefreshFrame
<1>2. CASE CleanupStep
  BY <1>2 DEF CleanupStep, StartCleanup, LockTargets, CheckCandidates, SnapshotBefore,
       DeleteCandidates, VerifyIdentities, RecountTargets, FailCleanup, CommitCleanup,
       CleanupReads, CleanupFrame
<1>3. CASE StartSweep \/ CommitSweep
  BY <1>3 DEF StartSweep, CommitSweep, SweepFrame
<1> QED BY <1>1, <1>2, <1>3

LEMMA SubjectsStep ==
  JobShapes /\ SubjectsKnown /\ [Next]_jobsVars => SubjectsKnown'
<1> SUFFICES ASSUME JobShapes, SubjectsKnown, [Next]_jobsVars PROVE SubjectsKnown'
  OBVIOUS
<1> USE DEF SubjectsKnown
<1>1. CASE RefreshStep \/ CleanupStep \/ StartSweep \/ CommitSweep
  <2>1. PICK crns : child' = Overlooks(child, crns)
    BY <1>1, OthersLeaveChild
  <2>2. child'.at = child.at /\ child'.subject = child.subject
    BY <2>1, OverlooksKeeps
  <2> QED BY <1>1, <2>2, OthersLeaveProgress
<1>2. CASE StartBulk \/ EndBulk
  BY <1>2 DEF StartBulk, EndBulk
<1>3. CASE StartChild
  <2>1. Least(bulk.todo) \in Subjects
    BY <1>3, LeastIsIn DEF StartChild, JobShapes
  <2>2. child'.at = "run" /\ child'.subject = Least(bulk.todo)
    BY <1>3 DEF StartChild, NoChild
  <2> QED BY <1>3, <2>1, <2>2 DEF StartChild
<1>4. CASE RefreshTarget
  <2>1. child'.at = child.at /\ child'.subject = child.subject
    BY <1>4 DEF RefreshTarget, JobShapes
  <2> QED BY <1>4, <2>1 DEF RefreshTarget
<1>5. CASE CommitChild
  <2>1. child'.subject = child.subject /\ committed' = committed \cup {child.subject}
    BY <1>5 DEF CommitChild, NoChild
  <2>2. child.subject \in Subjects
    BY <1>5 DEF CommitChild
  <2> QED BY <1>5, <2>1, <2>2 DEF CommitChild
<1>6. CASE RecordSubject
  <2>1. child'.at = "none"
    BY <1>6 DEF RecordSubject, NoChild
  <2> QED BY <1>6, <2>1 DEF RecordSubject
<1>7. CASE FailChild \/ RefuseResponse \/ CrashBulk
  <2>1. child'.at = "none"
    BY <1>7 DEF FailChild, RefuseResponse, CrashBulk, NoChild
  <2> QED BY <1>7, <2>1 DEF FailChild, RefuseResponse, CrashBulk, NoteFailure
<1>8. CASE UNCHANGED jobsVars
  BY <1>8 DEF jobsVars, jobVars
<1> QED BY <1>1, <1>2, <1>3, <1>4, <1>5, <1>6, <1>7, <1>8 DEF Next, BulkStep

---------------------------------------------------------------------------
(* The row locks *)

(* A cleanup that is not past the locks holds nothing *)
LEMMA NothingHeld ==
  ASSUME cleanup.at = "idle"
  PROVE  CleanupLocks = {} /\ Deleted = {}
BY DEF CleanupLocks, Deleted

LEMMA EmptyDomains ==
  /\ DOMAIN NoChild.rows = {} /\ DOMAIN NoChild.ranks = {}
  /\ DOMAIN NoSweep.rows = {} /\ DOMAIN NoSweep.ranks = {}
BY DEF NoChild, NoSweep, NoRows, NoRanks

(* While the cleanup stays where it is, its locks hold if nobody wrote to what it
   has locked and no job came to rank what it has deleted *)
LEMMA LocksKept ==
  ASSUME LocksHold, UNCHANGED cleanup,
         \A c \in CleanupLocks : section'[c] = section[c],
         CleanupLocks \cap (DOMAIN child'.rows \cup DOMAIN sweep'.rows) = {},
         Deleted \cap (DOMAIN child'.ranks \cup DOMAIN sweep'.ranks) = {}
  PROVE  LocksHold'
<1>1. CleanupLocks' = CleanupLocks /\ Deleted' = Deleted
  BY DEF CleanupLocks, Deleted
<1>2. ASSUME cleanup.at \notin {"idle", "lock"}
      PROVE  \A c \in cleanup.candidates : section'[c] # NoRow /\ OtherCampus(section'[c])
  <2>1. cleanup.candidates \subseteq CleanupLocks
    BY <1>2 DEF LocksHold, CleanupLocks
  <2> QED BY <1>2, <2>1 DEF LocksHold
<1> QED BY <1>1, <1>2 DEF LocksHold

LEMMA OverlayElsewhere ==
  ASSUME NEW table, NEW rows, NEW c \in Crns, c \notin DOMAIN rows
  PROVE  Overlay(table, rows)[c] = table[c]
BY DEF Overlay

LEMMA OthersLeaveSweep ==
  ASSUME JobShapes, RefreshStep \/ CleanupStep \/ BulkStep
  PROVE  \E crns : sweep' = Overlooks(sweep, crns)
<1>0. sweep = Overlooks(sweep, {})
  BY DEF JobShapes, Overlooks
<1>1. CASE RefreshStep
  BY <1>0, <1>1 DEF RefreshStep, StartRefresh, LoadCatalog, IngestSchedule, ImportGrades,
       IngestSyllabus, EndSyllabi, ComputeRankings, WriteRankings, EndRefresh, FailStage,
       OthersSame, OthersOverlook
<1>2. CASE CleanupStep
  BY <1>0, <1>2 DEF CleanupStep, StartCleanup, LockTargets, CheckCandidates, SnapshotBefore,
       DeleteCandidates, VerifyIdentities, RecountTargets, FailCleanup, CommitCleanup, CleanupReads
<1>3. CASE BulkStep
  BY <1>0, <1>3 DEF BulkStep, StartBulk, StartChild, RefreshTarget, CommitChild, RecordSubject,
       FailChild, RefuseResponse, CrashBulk, EndBulk, BulkFrame
<1> QED BY <1>1, <1>2, <1>3

LEMMA RefreshLocks ==
  ASSUME JobShapes, LocksHold, RefreshStep
  PROVE  LocksHold'
<1>1. PICK crns1 : child' = Overlooks(child, crns1)
  BY OthersLeaveChild
<1>2. PICK crns2 : sweep' = Overlooks(sweep, crns2)
  BY OthersLeaveSweep
<1>3. /\ child'.rows = child.rows /\ child'.ranks = child.ranks
      /\ sweep'.rows = sweep.rows /\ sweep'.ranks = sweep.ranks
  BY <1>1, <1>2, OverlooksKeeps
<1>4. UNCHANGED cleanup
  BY DEF RefreshStep, StartRefresh, LoadCatalog, IngestSchedule, ImportGrades,
       IngestSyllabus, EndSyllabi, ComputeRankings, WriteRankings, EndRefresh, FailStage, RefreshFrame
<1>5. \A c \in CleanupLocks : section'[c] = section[c]
  <2>1. CASE IngestSchedule
    <3>1. DOMAIN SchedulePage \cap CleanupLocks = {} /\ section' = Overlay(section, SchedulePage)
      BY <2>1 DEF IngestSchedule, SectionsFree
    <3>2. CleanupLocks \subseteq Crns
      BY DEF CleanupLocks, JobShapes
    <3> QED BY <3>1, <3>2, OverlayElsewhere
  <2>2. CASE ~IngestSchedule
    BY <2>2 DEF RefreshStep, StartRefresh, LoadCatalog, ImportGrades,
         IngestSyllabus, EndSyllabi, ComputeRankings, WriteRankings, EndRefresh, FailStage, tableVars
  <2> QED BY <2>1, <2>2
<1> QED BY <1>3, <1>4, <1>5, LocksKept DEF LocksHold

LEMMA StoreKeepsLocked ==
  ASSUME JobShapes, NEW job, Store(job), CleanupLocks \cap DOMAIN job.rows = {}
  PROVE  \A c \in CleanupLocks : section'[c] = section[c]
<1>1. CleanupLocks \subseteq Crns
  BY DEF CleanupLocks, JobShapes
<1> QED BY <1>1, OverlayElsewhere DEF Store

LEMMA BulkLocks ==
  ASSUME JobShapes, LocksHold, BulkStep
  PROVE  LocksHold'
<1>1. PICK crns2 : sweep' = Overlooks(sweep, crns2)
  BY OthersLeaveSweep
<1>2. sweep'.rows = sweep.rows /\ sweep'.ranks = sweep.ranks
  BY <1>1, OverlooksKeeps
<1>3. UNCHANGED cleanup
  BY DEF BulkStep, StartBulk, StartChild, RefreshTarget, CommitChild, RecordSubject,
       FailChild, RefuseResponse, CrashBulk, EndBulk, BulkFrame
<1>4. CASE RefreshTarget
  <2>1. section' = section
    BY <1>4 DEF RefreshTarget, TablesSame, tableVars
  <2>2. PICK course \in child.targets, listing \in Listings :
       LET crns == Response(course, listing)
           rows == Merged(child.rows, [c \in crns |-> listing[c]])
           ranks == Reranked(course, rows)
       IN \/ /\ crns \cap (CleanupLocks \cup DOMAIN sweep.rows) = {}
             /\ DOMAIN ranks \cap (Deleted \cup DOMAIN sweep.ranks) = {}
             /\ child' = [child EXCEPT !.targets = @ \ {course}, !.known = @ \cup {course},
                            !.rows = rows, !.ranks = Merged(@, ranks), !.since = @ \ DOMAIN ranks]
          \/ child' = [child EXCEPT !.targets = @ \ {course}]
    BY <1>4 DEF RefreshTarget
  <2> DEFINE crns == Response(course, listing)
  <2> DEFINE rows == Merged(child.rows, [c \in crns |-> listing[c]])
  <2> DEFINE ranks == Reranked(course, rows)
  <2>3. \/ /\ crns \cap CleanupLocks = {} /\ DOMAIN ranks \cap Deleted = {}
           /\ child' = [child EXCEPT !.targets = @ \ {course}, !.known = @ \cup {course},
                          !.rows = rows, !.ranks = Merged(@, ranks), !.since = @ \ DOMAIN ranks]
        \/ child' = [child EXCEPT !.targets = @ \ {course}]
    BY <2>2
  <2>4. DOMAIN rows = DOMAIN child.rows \cup crns
    BY DEF Merged
  <2>5. DOMAIN Merged(child.ranks, ranks) = DOMAIN child.ranks \cup DOMAIN ranks
    BY DEF Merged
  <2> HIDE DEF crns, rows, ranks
  <2>6. \/ /\ crns \cap CleanupLocks = {} /\ DOMAIN ranks \cap Deleted = {}
           /\ child'.rows = rows /\ child'.ranks = Merged(child.ranks, ranks)
        \/ child'.rows = child.rows /\ child'.ranks = child.ranks
    BY <2>3 DEF JobShapes
  <2> QED BY <1>2, <1>3, <2>1, <2>4, <2>5, <2>6, LocksKept DEF LocksHold
<1>5. CASE CommitChild
  <2>1. DOMAIN child'.rows = {} /\ DOMAIN child'.ranks = {}
    BY <1>5 DEF CommitChild, NoChild, NoRows, NoRanks
  <2>2. \A c \in CleanupLocks : section'[c] = section[c]
    BY <1>5, StoreKeepsLocked DEF CommitChild, LocksHold
  <2> QED BY <1>2, <1>3, <2>1, <2>2, LocksKept DEF LocksHold
<1>6. CASE StartBulk \/ EndBulk
  BY <1>2, <1>3, <1>6, LocksKept DEF StartBulk, EndBulk, TablesSame, tableVars, LocksHold
<1>7. CASE StartChild \/ RecordSubject \/ FailChild \/ RefuseResponse \/ CrashBulk
  <2>1. DOMAIN child'.rows = {} /\ DOMAIN child'.ranks = {} /\ section' = section
    BY <1>7, EmptyDomains DEF StartChild, RecordSubject, FailChild, RefuseResponse, CrashBulk,
         TablesSame, tableVars, NoChild
  <2> QED BY <1>2, <1>3, <2>1, LocksKept DEF LocksHold
<1> QED BY <1>4, <1>5, <1>6, <1>7 DEF BulkStep

LEMMA SweepLocks ==
  ASSUME JobShapes, LocksHold, StartSweep \/ CommitSweep
  PROVE  LocksHold'
<1>1. PICK crns1 : child' = Overlooks(child, crns1)
  BY OthersLeaveChild
<1>2. child'.rows = child.rows /\ child'.ranks = child.ranks
  BY <1>1, OverlooksKeeps
<1>3. UNCHANGED cleanup
  BY DEF StartSweep, CommitSweep, SweepFrame
<1>4. CASE StartSweep
  <2>1. section' = section
    BY <1>4 DEF StartSweep, TablesSame, tableVars
  <2>2. /\ DOMAIN sweep'.rows \cap CleanupLocks = {}
        /\ DOMAIN sweep'.ranks \cap Deleted = {}
    BY <1>4 DEF StartSweep
  <2> QED BY <1>2, <1>3, <2>1, <2>2, LocksKept DEF LocksHold
<1>5. CASE CommitSweep
  <2>1. DOMAIN sweep'.rows = {} /\ DOMAIN sweep'.ranks = {}
    BY <1>5, EmptyDomains DEF CommitSweep
  <2>2. \A c \in CleanupLocks : section'[c] = section[c]
    BY <1>5, StoreKeepsLocked DEF CommitSweep, LocksHold
  <2> QED BY <1>2, <1>3, <2>1, <2>2, LocksKept DEF LocksHold
<1> QED BY <1>4, <1>5

LEMMA CleanupKeepsLocks ==
  ASSUME JobShapes, LocksHold, CleanupStep
  PROVE  LocksHold'
<1>1. PICK crns1 : child' = Overlooks(child, crns1)
  BY OthersLeaveChild
<1>2. PICK crns2 : sweep' = Overlooks(sweep, crns2)
  BY OthersLeaveSweep
<1>3. /\ child'.rows = child.rows /\ child'.ranks = child.ranks
      /\ sweep'.rows = sweep.rows /\ sweep'.ranks = sweep.ranks
  BY <1>1, <1>2, OverlooksKeeps
<1>4. CASE cleanup'.at \in {"idle", "lock"}
  <2>1. CleanupLocks' = {} /\ Deleted' = {}
    BY <1>4 DEF CleanupLocks, Deleted
  <2>2. (CleanupLocks \cap (DOMAIN child.rows \cup DOMAIN sweep.rows) = {})'
    BY <2>1
  <2>3. (Deleted \cap (DOMAIN child.ranks \cup DOMAIN sweep.ranks) = {})'
    BY <2>1
  <2>4. (cleanup.at \notin {"idle", "lock"} =>
           /\ cleanup.candidates \subseteq cleanup.locked
           /\ \A c \in cleanup.candidates : section[c] # NoRow /\ OtherCampus(section[c]))'
    BY <1>4
  <2> QED BY <2>2, <2>3, <2>4 DEF LocksHold
<1>5. CASE LockTargets
  <2>1. cleanup'.at = "check" /\ cleanup'.locked = TargetRows /\ cleanup'.candidates = Matched
    BY <1>5 DEF LockTargets, JobShapes
  <2>2. section' = section
    BY <1>5 DEF LockTargets, CleanupReads, TablesSame, tableVars
  <2>3. TargetRows \cap (DOMAIN child.rows \cup DOMAIN sweep.rows) = {}
    BY <1>5 DEF LockTargets
  <2> QED BY <1>3, <2>1, <2>2, <2>3 DEF LocksHold, CleanupLocks, Deleted, Matched, TargetRows
<1>6. CASE CheckCandidates \/ SnapshotBefore \/ VerifyIdentities \/ RecountTargets
  <2>1. CASE cleanup' = NoCleanup
    BY <1>4, <2>1 DEF NoCleanup
  <2>2. CASE cleanup' # NoCleanup
    <3>1. /\ cleanup.at \notin {"idle", "lock"} /\ cleanup'.at \notin {"idle", "lock"}
          /\ cleanup'.locked = cleanup.locked /\ cleanup'.candidates = cleanup.candidates
          /\ (cleanup'.at \in {"after", "recount", "commit"}
                <=> cleanup.at \in {"after", "recount", "commit"})
      BY <1>6, <2>2 DEF CheckCandidates, SnapshotBefore, VerifyIdentities, RecountTargets, JobShapes
    <3>2. section' = section
      BY <1>6 DEF CheckCandidates, SnapshotBefore, VerifyIdentities, RecountTargets, CleanupReads,
           TablesSame, tableVars
    <3>3. CleanupLocks' = CleanupLocks /\ Deleted' = Deleted
      BY <3>1 DEF CleanupLocks, Deleted
    <3> QED BY <1>3, <3>1, <3>2, <3>3 DEF LocksHold
  <2> QED BY <2>1, <2>2
<1>7. CASE DeleteCandidates
  <2>1. /\ cleanup'.at = "after" /\ cleanup.at = "delete"
        /\ cleanup'.locked = cleanup.locked /\ cleanup'.candidates = cleanup.candidates
    BY <1>7 DEF DeleteCandidates, JobShapes
  <2>2. cleanup.candidates \cap (DOMAIN child.ranks \cup DOMAIN sweep.ranks) = {}
    BY <1>7 DEF DeleteCandidates
  <2>3. section' = section
    BY <1>7 DEF DeleteCandidates, CleanupReads, TablesSame, tableVars
  <2> QED BY <1>3, <2>1, <2>2, <2>3 DEF LocksHold, CleanupLocks, Deleted
<1>8. CASE StartCleanup
  <2>1. cleanup'.at = "lock"
    BY <1>8 DEF StartCleanup, NoCleanup
  <2> QED BY <1>4, <2>1
<1>9. CASE FailCleanup \/ CommitCleanup
  <2>1. cleanup' = NoCleanup
    BY <1>9 DEF FailCleanup, CommitCleanup
  <2>2. cleanup'.at = "idle"
    BY <2>1 DEF NoCleanup
  <2> QED BY <1>4, <2>2
<1> QED BY <1>5, <1>6, <1>7, <1>8, <1>9 DEF CleanupStep

LEMMA LocksStep ==
  JobShapes /\ LocksHold /\ [Next]_jobsVars => LocksHold'
<1> SUFFICES ASSUME JobShapes, LocksHold, [Next]_jobsVars PROVE LocksHold'
  OBVIOUS
<1>1. CASE UNCHANGED jobsVars
  BY <1>1, LocksKept DEF jobsVars, tableVars, jobVars, LocksHold
<1> QED BY <1>1, RefreshLocks, BulkLocks, SweepLocks, CleanupKeepsLocks DEF Next

---------------------------------------------------------------------------
(* The references between the tables *)

(* A job that others overlook still sees a row wherever it has ranked one, unless
   the cleanup has just taken it away *)
LEMMA JobRefersKept ==
  ASSUME NEW job, NEW other, NEW known, NEW more, JobRefers(job, known), known \subseteq more,
         other.rows = job.rows, other.ranks = job.ranks, DOMAIN job.ranks \subseteq Crns,
         \A c \in DOMAIN job.ranks \ DOMAIN job.rows : section[c] # NoRow => section'[c] # NoRow
  PROVE  /\ \A c \in DOMAIN other.rows : other.rows[c].course \in more
         /\ DOMAIN other.rows \subseteq DOMAIN other.ranks
         /\ \A c \in DOMAIN other.ranks : Overlay(section', other.rows)[c] # NoRow
BY DEF JobRefers, SeenBy, Overlay

LEMMA InitTables == Init => JobShapes /\ SubjectsKnown /\ LocksHold /\ TablesRefer
<1> SUFFICES ASSUME Init PROVE JobShapes /\ SubjectsKnown /\ LocksHold /\ TablesRefer
  OBVIOUS
<1>1. JobShapes
  BY InitShapes
<1>2. SubjectsKnown
  BY DEF Init, SubjectsKnown, NoChild
<1>3. LocksHold
  BY EmptyDomains, NothingHeld DEF Init, LocksHold, NoCleanup
<1>4. JobRefers(child, catalog \cup child.known) /\ JobRefers(sweep, catalog)
  BY EmptyDomains DEF Init, JobRefers
<1>5. ASSUME NEW c \in Crns
      PROVE  IF section[c] = NoRow
             THEN ranking[c] = Unranked /\ kids[c] = 0 /\ syllabus[c] # "joined"
             ELSE section[c].course \in catalog
  <2>1. section[c] = StoredRows[c] /\ catalog = Catalogued
    BY DEF Init
  <2>2. kids[c] = IF StoredRows[c] = NoRow THEN 0 ELSE 1
    BY DEF Init
  <2>3. syllabus[c] = "none" /\ ranking[c] = RankOf(StoredRows[c], FALSE)
    BY DEF Init, NoDocument
  <2> QED BY <2>1, <2>2, <2>3, TablesAssumption DEF RankOf
<1> QED BY <1>1, <1>2, <1>3, <1>4, <1>5 DEF TablesRefer, References

(* A commit of a job's rows and rankings *)
LEMMA StoreRefers ==
  ASSUME JobShapes, References, NEW job, Store(job), NEW known, JobRefers(job, known),
         job.rows \in RowTables, job.ranks \in RankTables,
         catalog \subseteq catalog', known \subseteq catalog'
  PROVE  References' /\ \A c \in Crns : section[c] # NoRow => section'[c] # NoRow
<1>1. \A c \in Crns : section'[c] = Overlay(section, job.rows)[c]
  BY DEF Store
<1>2. \A c \in DOMAIN job.rows : job.rows[c] # NoRow /\ job.rows[c].course \in known
  BY RowTable, NoRowIsNoRow DEF JobRefers
<1>3. \A c \in Crns : section'[c] = IF c \in DOMAIN job.rows THEN job.rows[c] ELSE section[c]
  BY <1>1 DEF Overlay
<1>4. ASSUME NEW c \in Crns, section'[c] = NoRow
      PROVE  ranking'[c] = Unranked /\ kids'[c] = 0 /\ syllabus'[c] # "joined"
  <2>1. c \notin DOMAIN job.rows /\ section[c] = NoRow
    BY <1>2, <1>3, <1>4
  <2>2. c \notin DOMAIN job.ranks
    BY <1>1, <1>4 DEF JobRefers, SeenBy
  <2>3. ranking'[c] = ranking[c] /\ kids'[c] = kids[c] /\ syllabus'[c] = syllabus[c]
    BY <2>1, <2>2, OverlayElsewhere DEF Store
  <2> QED BY <2>1, <2>3 DEF References
<1>5. ASSUME NEW c \in Crns, section'[c] # NoRow
      PROVE  section'[c].course \in catalog'
  BY <1>2, <1>3, <1>5 DEF References
<1> QED BY <1>2, <1>3, <1>4, <1>5 DEF References

LEMMA RefreshReferences ==
  ASSUME JobShapes, References, RefreshStep
  PROVE  References' /\ \A c \in Crns : section[c] # NoRow => section'[c] # NoRow
<1>1. CASE LoadCatalog
  BY <1>1 DEF LoadCatalog, References
<1>2. CASE IngestSchedule
  <2>1. \A c \in DOMAIN SchedulePage : SchedulePage[c] # NoRow /\ SchedulePage[c].course \in catalog
    BY <1>2, TablesAssumption, NoRowIsNoRow DEF IngestSchedule
  <2>2. \A c \in Crns : section'[c] = IF c \in DOMAIN SchedulePage THEN SchedulePage[c] ELSE section[c]
    BY <1>2 DEF IngestSchedule, Overlay
  <2>3. \A c \in Crns \ DOMAIN SchedulePage : kids'[c] = kids[c]
    BY <1>2 DEF IngestSchedule
  <2>4. UNCHANGED <<catalog, ranking, syllabus>>
    BY <1>2 DEF IngestSchedule
  <2> QED BY <2>1, <2>2, <2>3, <2>4 DEF References
<1>3. CASE IngestSyllabus
  <2> DEFINE d == Documents[refresh.done + 1]
  <2>1. \A c \in Crns : syllabus'[c] = IF c = d THEN IF section[d] = NoRow THEN "loose" ELSE "joined"
                                       ELSE syllabus[c]
    BY <1>3 DEF IngestSyllabus, JobShapes
  <2>2. UNCHANGED <<catalog, section, kids, ranking>>
    BY <1>3 DEF IngestSyllabus
  <2> QED BY <2>1, <2>2 DEF References
<1>4. CASE WriteRankings
  <2>1. \A c \in Crns : section[c] = NoRow => ranking'[c] = ranking[c]
    BY <1>4, OverlayElsewhere DEF WriteRankings
  <2> QED BY <1>4, <2>1 DEF WriteRankings, References
<1>5. CASE ~(LoadCatalog \/ IngestSchedule \/ IngestSyllabus \/ WriteRankings)
  BY <1>5 DEF RefreshStep, StartRefresh, ImportGrades, EndSyllabi, ComputeRankings, EndRefresh,
       FailStage, tableVars, References
<1> QED BY <1>1, <1>2, <1>3, <1>4, <1>5

LEMMA CleanupReferences ==
  ASSUME JobShapes, References, CommitCleanup
  PROVE  References'
<1> DEFINE gone == cleanup.candidates
<1>1. \A c \in Crns \ gone : section'[c] = section[c] /\ kids'[c] = kids[c] /\ ranking'[c] = ranking[c]
  BY DEF CommitCleanup
<1>2. \A c \in Crns \cap gone : /\ section'[c] = NoRow /\ kids'[c] = 0 /\ ranking'[c] = Unranked
                                /\ syllabus'[c] # "joined"
  BY DEF CommitCleanup, Joined, NoDocument
<1>3. \A c \in Crns \ gone : syllabus'[c] = syllabus[c]
  BY DEF CommitCleanup, Joined
<1>4. catalog' = catalog
  BY DEF CommitCleanup
<1> QED BY <1>1, <1>2, <1>3, <1>4 DEF References

(* Where a job's tables live *)
LEMMA JobDomains ==
  ASSUME JobShapes
  PROVE  /\ child.rows \in RowTables /\ child.ranks \in RankTables
         /\ sweep.rows \in RowTables /\ sweep.ranks \in RankTables
         /\ DOMAIN child.rows \subseteq Crns /\ DOMAIN child.ranks \subseteq Crns
         /\ DOMAIN sweep.rows \subseteq Crns /\ DOMAIN sweep.ranks \subseteq Crns
<1>1. /\ child.rows \in RowTables /\ child.ranks \in RankTables
      /\ sweep.rows \in RowTables /\ sweep.ranks \in RankTables
  BY DEF JobShapes
<1> QED BY <1>1, RowTable, RankTable

(* The jobs that write nothing in a step refer as before *)
LEMMA IdleChildRefers ==
  ASSUME JobShapes, JobRefers(child, catalog \cup child.known), catalog \subseteq catalog',
         NEW crns, child' = Overlooks(child, crns),
         \A c \in DOMAIN child.ranks \ DOMAIN child.rows : section[c] # NoRow => section'[c] # NoRow
  PROVE  JobRefers(child, catalog \cup child.known)'
<1>1. child'.rows = child.rows /\ child'.ranks = child.ranks /\ child'.known = child.known
  BY OverlooksKeeps
<1>2. DOMAIN child.ranks \subseteq Crns
  BY JobDomains
<1>3. catalog \cup child.known \subseteq catalog' \cup child'.known
  BY <1>1
<1>4. /\ \A c \in DOMAIN child'.rows : child'.rows[c].course \in catalog' \cup child'.known
      /\ DOMAIN child'.rows \subseteq DOMAIN child'.ranks
      /\ \A c \in DOMAIN child'.ranks : Overlay(section', child'.rows)[c] # NoRow
  BY <1>1, <1>2, <1>3, JobRefersKept
<1> QED BY <1>4 DEF JobRefers, SeenBy, Overlay

LEMMA IdleSweepRefers ==
  ASSUME JobShapes, JobRefers(sweep, catalog), catalog \subseteq catalog',
         NEW crns, sweep' = Overlooks(sweep, crns),
         \A c \in DOMAIN sweep.ranks \ DOMAIN sweep.rows : section[c] # NoRow => section'[c] # NoRow
  PROVE  JobRefers(sweep, catalog)'
<1>1. sweep'.rows = sweep.rows /\ sweep'.ranks = sweep.ranks
  BY OverlooksKeeps
<1>2. DOMAIN sweep.ranks \subseteq Crns
  BY JobDomains
<1>3. /\ \A c \in DOMAIN sweep'.rows : sweep'.rows[c].course \in catalog'
      /\ DOMAIN sweep'.rows \subseteq DOMAIN sweep'.ranks
      /\ \A c \in DOMAIN sweep'.ranks : Overlay(section', sweep'.rows)[c] # NoRow
  BY <1>1, <1>2, JobRefersKept
<1> QED BY <1>3 DEF JobRefers, SeenBy, Overlay

LEMMA RefreshTables ==
  ASSUME JobShapes, TablesRefer, RefreshStep
  PROVE  TablesRefer'
<1>1. References' /\ \A c \in Crns : section[c] # NoRow => section'[c] # NoRow
  BY RefreshReferences DEF TablesRefer
<1>2. catalog \subseteq catalog'
  BY DEF RefreshStep, StartRefresh, LoadCatalog, IngestSchedule, ImportGrades, IngestSyllabus,
       EndSyllabi, ComputeRankings, WriteRankings, EndRefresh, FailStage, tableVars
<1>3. PICK crns1 : child' = Overlooks(child, crns1)
  BY OthersLeaveChild
<1>4. PICK crns2 : sweep' = Overlooks(sweep, crns2)
  BY OthersLeaveSweep
<1>5. DOMAIN child.ranks \subseteq Crns /\ DOMAIN sweep.ranks \subseteq Crns
  BY JobDomains
<1>6. JobRefers(child, catalog \cup child.known)'
  BY <1>1, <1>2, <1>3, <1>5, IdleChildRefers DEF TablesRefer
<1>7. JobRefers(sweep, catalog)'
  BY <1>1, <1>2, <1>4, <1>5, IdleSweepRefers DEF TablesRefer
<1> QED BY <1>1, <1>6, <1>7 DEF TablesRefer

LEMMA CleanupTables ==
  ASSUME JobShapes, LocksHold, TablesRefer, CleanupStep
  PROVE  TablesRefer'
<1>1. PICK crns1 : child' = Overlooks(child, crns1)
  BY OthersLeaveChild
<1>2. PICK crns2 : sweep' = Overlooks(sweep, crns2)
  BY OthersLeaveSweep
<1>3. DOMAIN child.ranks \subseteq Crns /\ DOMAIN sweep.ranks \subseteq Crns
  BY JobDomains
<1>4. catalog' = catalog
  BY DEF CleanupStep, StartCleanup, LockTargets, CheckCandidates, SnapshotBefore,
       DeleteCandidates, VerifyIdentities, RecountTargets, FailCleanup, CommitCleanup,
       CleanupReads, TablesSame, tableVars
<1>5. /\ References'
      /\ \A c \in DOMAIN child.ranks \cup DOMAIN sweep.ranks : section'[c] = section[c]
  <2>1. CASE CommitCleanup
    <3>1. cleanup.candidates \cap (DOMAIN child.ranks \cup DOMAIN sweep.ranks) = {}
      BY <2>1 DEF LocksHold, Deleted, CommitCleanup
    <3>2. \A c \in Crns \ cleanup.candidates : section'[c] = section[c]
      BY <2>1 DEF CommitCleanup
    <3> QED BY <2>1, <3>1, <3>2, <1>3, CleanupReferences DEF TablesRefer
  <2>2. CASE ~CommitCleanup
    <3>1. UNCHANGED tableVars
      BY <2>2 DEF CleanupStep, StartCleanup, LockTargets, CheckCandidates, SnapshotBefore,
           DeleteCandidates, VerifyIdentities, RecountTargets, FailCleanup, CleanupReads, TablesSame
    <3> QED BY <3>1 DEF tableVars, TablesRefer, References
  <2> QED BY <2>1, <2>2
<1>6. JobRefers(child, catalog \cup child.known)'
  BY <1>1, <1>4, <1>5, IdleChildRefers DEF TablesRefer
<1>7. JobRefers(sweep, catalog)'
  BY <1>2, <1>4, <1>5, IdleSweepRefers DEF TablesRefer
<1> QED BY <1>5, <1>6, <1>7 DEF TablesRefer

LEMMA SweepTables ==
  ASSUME JobShapes, TablesRefer, StartSweep \/ CommitSweep
  PROVE  TablesRefer'
<1>1. PICK crns1 : child' = Overlooks(child, crns1)
  BY OthersLeaveChild
<1>2. catalog' = catalog
  BY DEF StartSweep, CommitSweep, TablesSame, tableVars
<1>3. DOMAIN child.ranks \subseteq Crns
  BY JobDomains
<1>4. CASE StartSweep
  <2>1. UNCHANGED tableVars
    BY <1>4 DEF StartSweep, TablesSame
  <2>2. PICK c \in Crns : \E row \in SweepRows[c] :
          LET rows == [d \in {c} |-> row]
          IN  /\ row.course \in catalog
              /\ sweep' = [at |-> "run", rows |-> rows, ranks |-> Reranked(row.course, rows), since |-> {}]
    BY <1>4 DEF StartSweep
  <2>3. PICK row \in SweepRows[c] :
          LET rows == [d \in {c} |-> row]
          IN  /\ row.course \in catalog
              /\ sweep' = [at |-> "run", rows |-> rows, ranks |-> Reranked(row.course, rows), since |-> {}]
    BY <2>2
  <2> DEFINE rows == [d \in {c} |-> row]
  <2> DEFINE seen == Overlay(section, rows)
  <2> DEFINE ranks == Reranked(row.course, rows)
  <2>4. row \in Rows /\ row # NoRow
    BY TablesAssumption, NoRowIsNoRow
  <2>5. DOMAIN rows = {c} /\ rows[c] = row /\ seen[c] = row
    BY DEF Overlay
  <2>6. DOMAIN ranks = {d \in Crns : seen[d] # NoRow /\ seen[d].course = row.course}
    BY DEF Reranked
  <2>7. row.course \in catalog /\ sweep'.rows = rows /\ sweep'.ranks = ranks
    BY <2>3
  <2> HIDE DEF rows, ranks
  <2>8. \A d \in DOMAIN ranks : Overlay(section', rows)[d] # NoRow
    BY <2>1, <2>6 DEF tableVars
  <2>9. JobRefers(sweep, catalog)'
    BY <1>2, <2>4, <2>5, <2>6, <2>7, <2>8 DEF JobRefers, SeenBy, Overlay
  <2>10. JobRefers(child, catalog \cup child.known)'
    BY <1>1, <1>2, <2>1, IdleChildRefers DEF TablesRefer, tableVars
  <2> QED BY <2>1, <2>9, <2>10 DEF TablesRefer, References, tableVars
<1>5. CASE CommitSweep
  <2>1. Store(sweep) /\ sweep' = NoSweep
    BY <1>5 DEF CommitSweep
  <2>2. References' /\ \A c \in Crns : section[c] # NoRow => section'[c] # NoRow
    BY <1>2, <2>1, StoreRefers, JobDomains DEF TablesRefer
  <2>3. JobRefers(child, catalog \cup child.known)'
    BY <1>1, <1>2, <1>3, <2>2, IdleChildRefers DEF TablesRefer
  <2>4. JobRefers(sweep, catalog)'
    BY <2>1, EmptyDomains DEF JobRefers
  <2> QED BY <2>2, <2>3, <2>4 DEF TablesRefer
<1> QED BY <1>4, <1>5

(* The child's transaction after one more target *)
RowsWith(course, listing) ==
  Merged(child.rows, [c \in Response(course, listing) |-> listing[c]])
RanksWith(course, listing) == Reranked(course, RowsWith(course, listing))

TargetFacts(crns, listing, course, rows, ranks) ==
  /\ crns \subseteq Crns /\ crns \subseteq DOMAIN ranks
  /\ DOMAIN rows = DOMAIN child.rows \cup crns /\ DOMAIN ranks \subseteq Crns
  /\ \A c \in crns : rows[c] = listing[c] /\ listing[c] # NoRow /\ listing[c].course = course
  /\ \A c \in DOMAIN child.rows \ crns : rows[c] = child.rows[c] /\ rows[c] # NoRow
  /\ \A c \in DOMAIN ranks : /\ Overlay(section, rows)[c] # NoRow
                             /\ ranks[c] = RankOf(Overlay(section, rows)[c], syllabus[c] # NoDocument)
  /\ DOMAIN Merged(child.ranks, ranks) = DOMAIN child.ranks \cup DOMAIN ranks
  /\ \A c \in DOMAIN ranks : Merged(child.ranks, ranks)[c] = ranks[c]
  /\ \A c \in DOMAIN child.ranks \ DOMAIN ranks : Merged(child.ranks, ranks)[c] = child.ranks[c]

(* What one target adds to the child's transaction: its listed sections, all of
   them ranked, and the rankings of the course's other sections *)
LEMMA TargetAdds ==
  ASSUME JobShapes, NEW course \in child.targets, NEW listing \in Listings,
         JobRefers(child, catalog \cup child.known)
  PROVE  TargetFacts(Response(course, listing), listing, course,
                     RowsWith(course, listing), RanksWith(course, listing))
<1> DEFINE crns == Response(course, listing)
<1> DEFINE rows == RowsWith(course, listing)
<1> DEFINE ranks == RanksWith(course, listing)
<1> DEFINE seen == Overlay(section, rows)
<1>1. \A c \in crns : c \in Crns /\ listing[c] # NoRow /\ listing[c].course = course
  BY DEF Response
<1>2. DOMAIN rows = DOMAIN child.rows \cup crns /\ \A c \in crns : rows[c] = listing[c]
  BY DEF Merged, RowsWith
<1>3. \A c \in DOMAIN child.rows : child.rows[c] # NoRow
  BY JobDomains, RowTable, NoRowIsNoRow
<1>4. \A c \in DOMAIN child.rows \ crns : rows[c] = child.rows[c] /\ rows[c] # NoRow
  BY <1>3 DEF Merged, RowsWith
<1> HIDE DEF rows
<1>5. \A c \in crns : seen[c] = listing[c]
  BY <1>1, <1>2 DEF Overlay
<1> HIDE DEF crns
<1>6. DOMAIN ranks = {c \in Crns : seen[c] # NoRow /\ seen[c].course = course}
  BY DEF Reranked, RanksWith, rows
<1>7. \A c \in DOMAIN ranks : ranks[c] = RankOf(seen[c], syllabus[c] # NoDocument)
  BY DEF Reranked, RanksWith, rows
<1> HIDE DEF ranks, seen
<1>8. crns \subseteq DOMAIN ranks
  BY <1>1, <1>5, <1>6
<1>9. /\ DOMAIN Merged(child.ranks, ranks) = DOMAIN child.ranks \cup DOMAIN ranks
      /\ \A c \in DOMAIN ranks : Merged(child.ranks, ranks)[c] = ranks[c]
      /\ \A c \in DOMAIN child.ranks \ DOMAIN ranks : Merged(child.ranks, ranks)[c] = child.ranks[c]
  BY DEF Merged
<1> QED BY <1>1, <1>2, <1>4, <1>6, <1>7, <1>8, <1>9 DEF crns, rows, ranks, seen, TargetFacts

LEMMA BulkTables ==
  ASSUME JobShapes, TablesRefer, BulkStep
  PROVE  TablesRefer'
<1>1. PICK crns2 : sweep' = Overlooks(sweep, crns2)
  BY OthersLeaveSweep
<1>2. DOMAIN child.ranks \subseteq Crns /\ DOMAIN sweep.ranks \subseteq Crns
  BY JobDomains
<1>3. CASE CommitChild
  <2>1. Store(child) /\ catalog' = catalog \cup child.known
    BY <1>3 DEF CommitChild
  <2>2. References' /\ \A c \in Crns : section[c] # NoRow => section'[c] # NoRow
    BY <2>1, StoreRefers, JobDomains DEF TablesRefer
  <2>3. JobRefers(sweep, catalog)'
    BY <1>1, <1>2, <2>1, <2>2, IdleSweepRefers DEF TablesRefer
  <2>4. DOMAIN child'.rows = {} /\ DOMAIN child'.ranks = {}
    BY <1>3, EmptyDomains DEF CommitChild, NoChild
  <2>5. JobRefers(child, catalog \cup child.known)'
    BY <2>4 DEF JobRefers
  <2> QED BY <2>2, <2>3, <2>5 DEF TablesRefer
<1>4. CASE ~CommitChild
  <2>1. UNCHANGED tableVars
    BY <1>4 DEF BulkStep, StartBulk, StartChild, RefreshTarget, RecordSubject, FailChild,
         RefuseResponse, CrashBulk, EndBulk, TablesSame
  <2>2. JobRefers(sweep, catalog)'
    BY <1>1, <2>1, IdleSweepRefers DEF TablesRefer, tableVars
  <2>3. JobRefers(child, catalog \cup child.known)'
    <3>1. CASE RefreshTarget
      <4>1. PICK course \in child.targets, listing \in Listings :
              \/ child' = [child EXCEPT !.targets = @ \ {course}, !.known = @ \cup {course},
                             !.rows = RowsWith(course, listing),
                             !.ranks = Merged(@, RanksWith(course, listing)),
                             !.since = @ \ DOMAIN RanksWith(course, listing)]
              \/ child' = [child EXCEPT !.targets = @ \ {course}]
        BY <3>1 DEF RefreshTarget, RowsWith, RanksWith
      <4> DEFINE crns == Response(course, listing)
      <4> DEFINE rows == RowsWith(course, listing)
      <4> DEFINE ranks == RanksWith(course, listing)
      <4>2. JobRefers(child, catalog \cup child.known)
        BY DEF TablesRefer
      <4> HIDE DEF crns, rows, ranks
      <4>3. TargetFacts(crns, listing, course, rows, ranks)
        BY <4>2, TargetAdds DEF crns, rows, ranks
      <4>4. \/ child' = [child EXCEPT !.targets = @ \ {course}, !.known = @ \cup {course},
                           !.rows = rows, !.ranks = Merged(@, ranks), !.since = @ \ DOMAIN ranks]
            \/ child' = [child EXCEPT !.targets = @ \ {course}]
        BY <4>1 DEF rows, ranks
      <4>5. CASE child' = [child EXCEPT !.targets = @ \ {course}]
        <5>1. child'.rows = child.rows /\ child'.ranks = child.ranks /\ child'.known = child.known
          BY <4>5 DEF JobShapes
        <5> QED BY <2>1, <4>2, <5>1 DEF JobRefers, SeenBy, Overlay, tableVars
      <4>6. CASE child' = [child EXCEPT !.targets = @ \ {course}, !.known = @ \cup {course},
                             !.rows = rows, !.ranks = Merged(@, ranks), !.since = @ \ DOMAIN ranks]
        <5>1. /\ child'.rows = rows /\ child'.ranks = Merged(child.ranks, ranks)
              /\ child'.known = child.known \cup {course}
          BY <4>6 DEF JobShapes
        <5>2. \A c \in DOMAIN rows : rows[c].course \in catalog \cup child'.known
          BY <4>2, <4>3, <5>1 DEF JobRefers, TargetFacts
        <5>3. DOMAIN rows \subseteq DOMAIN child'.ranks
          BY <4>2, <4>3, <5>1 DEF JobRefers, TargetFacts
        <5>4. \A c \in DOMAIN child'.ranks : Overlay(section, rows)[c] # NoRow
          <6>1. ASSUME NEW c \in DOMAIN child.ranks PROVE Overlay(section, rows)[c] # NoRow
            <7>1. Overlay(section, child.rows)[c] # NoRow /\ c \in Crns
              BY <4>2, <1>2 DEF JobRefers, SeenBy
            <7>2. CASE c \in DOMAIN rows
              BY <4>3, <7>1, <7>2 DEF Overlay, TargetFacts
            <7>3. CASE c \notin DOMAIN rows
              BY <4>3, <7>1, <7>3 DEF Overlay, TargetFacts
            <7> QED BY <7>2, <7>3
          <6> QED BY <4>3, <5>1, <6>1 DEF TargetFacts
        <5> QED BY <2>1, <5>1, <5>2, <5>3, <5>4 DEF JobRefers, SeenBy, Overlay, tableVars
      <4> QED BY <4>4, <4>5, <4>6
    <3>2. CASE StartBulk \/ EndBulk
      BY <2>1, <3>2 DEF StartBulk, EndBulk, TablesRefer, tableVars, JobRefers, SeenBy, Overlay
    <3>3. CASE StartChild \/ RecordSubject \/ FailChild \/ RefuseResponse \/ CrashBulk
      <4>1. DOMAIN child'.rows = {} /\ DOMAIN child'.ranks = {}
        BY <3>3, EmptyDomains DEF StartChild, RecordSubject, FailChild, RefuseResponse, CrashBulk, NoChild
      <4> QED BY <4>1 DEF JobRefers
    <3> QED BY <1>4, <3>1, <3>2, <3>3 DEF BulkStep
  <2> QED BY <2>1, <2>2, <2>3 DEF TablesRefer, References, tableVars
<1> QED BY <1>3, <1>4

LEMMA TablesStep ==
  JobShapes /\ LocksHold /\ TablesRefer /\ [Next]_jobsVars => TablesRefer'
<1> SUFFICES ASSUME JobShapes, LocksHold, TablesRefer, [Next]_jobsVars PROVE TablesRefer'
  OBVIOUS
<1>1. CASE UNCHANGED jobsVars
  BY <1>1 DEF jobsVars, tableVars, jobVars, TablesRefer, References, JobRefers, SeenBy, Overlay
<1> QED BY <1>1, RefreshTables, BulkTables, SweepTables, CleanupTables DEF Next

---------------------------------------------------------------------------
(* The rankings *)

(* A job's rankings stay current if it overlooks nothing that changes *)
LEMMA JobStaysCurrent ==
  ASSUME NEW job, NEW other, JobCurrent(job), other.rows = job.rows, other.ranks = job.ranks,
         job.since \subseteq other.since, DOMAIN job.ranks \subseteq Crns,
         \A c \in Crns \ other.since : section'[c] = section[c] /\ syllabus'[c] = syllabus[c]
  PROVE  \A c \in DOMAIN other.ranks \ other.since :
           other.ranks[c] = RankOf(Overlay(section', other.rows)[c], syllabus'[c] # NoDocument)
<1> SUFFICES ASSUME NEW c \in DOMAIN other.ranks \ other.since
             PROVE  other.ranks[c] = RankOf(Overlay(section', other.rows)[c], syllabus'[c] # NoDocument)
  OBVIOUS
<1>1. c \in Crns /\ section'[c] = section[c] /\ syllabus'[c] = syllabus[c]
  OBVIOUS
<1>2. other.ranks[c] = RankOf(Overlay(section, job.rows)[c], syllabus[c] # NoDocument)
  BY DEF JobCurrent, SeenBy
<1>3. Overlay(section', other.rows)[c] = Overlay(section, job.rows)[c]
  BY <1>1 DEF Overlay
<1> QED BY <1>1, <1>2, <1>3

LEMMA IdleChildCurrent ==
  ASSUME JobShapes, JobCurrent(child), NEW crns, child' = Overlooks(child, crns),
         \A c \in Crns \ crns : section'[c] = section[c] /\ syllabus'[c] = syllabus[c]
  PROVE  JobCurrent(child)'
<1>1. child'.rows = child.rows /\ child'.ranks = child.ranks /\ child'.since = child.since \cup crns
  BY OverlooksKeeps
<1>2. \A c \in DOMAIN child'.ranks \ child'.since :
        child'.ranks[c] = RankOf(Overlay(section', child'.rows)[c], syllabus'[c] # NoDocument)
  BY <1>1, JobDomains, JobStaysCurrent
<1>3. \A c : SeenBy(child, c)' = Overlay(section', child'.rows)[c]
  BY DEF SeenBy, Overlay
<1> QED BY <1>2, <1>3 DEF JobCurrent

LEMMA IdleSweepCurrent ==
  ASSUME JobShapes, JobCurrent(sweep), NEW crns, sweep' = Overlooks(sweep, crns),
         \A c \in Crns \ crns : section'[c] = section[c] /\ syllabus'[c] = syllabus[c]
  PROVE  JobCurrent(sweep)'
<1>1. sweep'.rows = sweep.rows /\ sweep'.ranks = sweep.ranks /\ sweep'.since = sweep.since \cup crns
  BY OverlooksKeeps
<1>2. \A c \in DOMAIN sweep'.ranks \ sweep'.since :
        sweep'.ranks[c] = RankOf(Overlay(section', sweep'.rows)[c], syllabus'[c] # NoDocument)
  BY <1>1, JobDomains, JobStaysCurrent
<1>3. \A c : SeenBy(sweep, c)' = Overlay(section', sweep'.rows)[c]
  BY DEF SeenBy, Overlay
<1> QED BY <1>2, <1>3 DEF JobCurrent

LEMMA IdleRefreshCurrent ==
  ASSUME JobShapes, RefreshCurrent, NEW crns, refresh' = Overlooks(refresh, crns),
         \A c \in Crns \ crns : section'[c] = section[c] /\ syllabus'[c] = syllabus[c]
  PROVE  RefreshCurrent'
<1>1. refresh'.at = refresh.at /\ refresh'.ranks = refresh.ranks /\ refresh'.since = refresh.since \cup crns
  BY OverlooksKeeps
<1>2. \A c \in Crns \ crns : CurrentRank(c)' = CurrentRank(c)
  BY DEF CurrentRank
<1> QED BY <1>1, <1>2 DEF RefreshCurrent

(* What is not overlooked and not written stays ranked *)
LEMMA UnwrittenTrails ==
  ASSUME RankingsTrailOnlyWrites,
         \A c \in Crns \ trailing' : /\ c \notin trailing /\ ranking'[c] = ranking[c]
                                     /\ section'[c] = section[c] /\ syllabus'[c] = syllabus[c]
  PROVE  RankingsTrailOnlyWrites'
<1> SUFFICES ASSUME NEW c \in Crns, c \notin trailing'
             PROVE  ranking'[c] = RankOf(section'[c], syllabus'[c] # NoDocument)
  BY DEF RankingsTrailOnlyWrites
<1>1. ranking[c] = RankOf(section[c], syllabus[c] # NoDocument)
  BY DEF RankingsTrailOnlyWrites
<1> QED BY <1>1

(* The commit of a job's rows and rankings *)
LEMMA StoreRanks ==
  ASSUME JobShapes, RankingsTrailOnlyWrites, NEW job, Store(job), JobCurrent(job),
         DOMAIN job.rows \subseteq DOMAIN job.ranks, DOMAIN job.ranks \subseteq Crns
  PROVE  /\ RankingsTrailOnlyWrites'
         /\ \A c \in Crns \ DOMAIN job.rows : section'[c] = section[c] /\ syllabus'[c] = syllabus[c]
<1>1. \A c \in Crns \ DOMAIN job.rows : section'[c] = section[c] /\ syllabus'[c] = syllabus[c]
  BY OverlayElsewhere DEF Store
<1>2. ASSUME NEW c \in Crns, c \notin trailing'
      PROVE  ranking'[c] = RankOf(section'[c], syllabus'[c] # NoDocument)
  <2>1. syllabus' = syllabus /\ section'[c] = SeenBy(job, c)
    BY DEF Store, SeenBy
  <2>2. CASE c \in DOMAIN job.ranks
    <3>1. c \notin job.since /\ ranking'[c] = job.ranks[c]
      BY <1>2, <2>2 DEF Store, Overlay
    <3> QED BY <2>1, <2>2, <3>1 DEF JobCurrent
  <2>3. CASE c \notin DOMAIN job.ranks
    <3>1. c \notin trailing /\ ranking'[c] = ranking[c] /\ section'[c] = section[c]
      BY <1>1, <1>2, <2>3, OverlayElsewhere DEF Store
    <3>2. ranking[c] = RankOf(section[c], syllabus[c] # NoDocument)
      BY <3>1 DEF RankingsTrailOnlyWrites
    <3> QED BY <2>1, <3>1, <3>2
  <2> QED BY <2>2, <2>3
<1> QED BY <1>1, <1>2 DEF RankingsTrailOnlyWrites

Ranked == RankingsTrailOnlyWrites /\ RanksCurrent

(* A step that touches no table and no ranking of another job *)
LEMMA TablesSameRanks ==
  ASSUME JobShapes, Ranked, UNCHANGED <<tableVars, trailing>>
  PROVE  /\ RankingsTrailOnlyWrites'
         /\ \A c \in Crns : section'[c] = section[c] /\ syllabus'[c] = syllabus[c]
BY DEF Ranked, RankingsTrailOnlyWrites, tableVars

LEMMA SameOverlooksNothing ==
  ASSUME JobShapes
  PROVE  /\ refresh = Overlooks(refresh, {}) /\ child = Overlooks(child, {})
         /\ sweep = Overlooks(sweep, {})
BY DEF JobShapes, Overlooks

LEMMA RefreshRanks ==
  ASSUME JobShapes, References, Ranked, RefreshStep
  PROVE  Ranked'
<1> USE DEF Ranked, RanksCurrent
<1>1. CASE IngestSchedule
  <2> DEFINE crns == DOMAIN SchedulePage
  <2>1. \A c \in Crns \ crns : section'[c] = section[c] /\ syllabus'[c] = syllabus[c]
    BY <1>1, OverlayElsewhere DEF IngestSchedule
  <2>2. child' = Overlooks(child, crns) /\ sweep' = Overlooks(sweep, crns)
    BY <1>1 DEF IngestSchedule, OthersOverlook
  <2>3. trailing' = trailing \cup crns /\ ranking' = ranking
    BY <1>1 DEF IngestSchedule
  <2>4. refresh'.at = "grades"
    BY <1>1, AfterStage DEF IngestSchedule, GoOn, AtStage, JobShapes
  <2> HIDE DEF crns
  <2>5. RankingsTrailOnlyWrites'
    BY <2>1, <2>3, UnwrittenTrails
  <2>6. RefreshCurrent'
    BY <2>4 DEF RefreshCurrent
  <2> QED BY <2>1, <2>2, <2>5, <2>6, IdleChildCurrent, IdleSweepCurrent
<1>2. CASE IngestSyllabus
  <2> DEFINE d == Documents[refresh.done + 1]
  <2>1. \A c \in Crns \ {d} : section'[c] = section[c] /\ syllabus'[c] = syllabus[c]
    BY <1>2 DEF IngestSyllabus, JobShapes
  <2>2. child' = Overlooks(child, {d}) /\ sweep' = Overlooks(sweep, {d})
    BY <1>2 DEF IngestSyllabus, OthersOverlook
  <2>3. trailing' = trailing \cup {d} /\ ranking' = ranking
    BY <1>2 DEF IngestSyllabus
  <2>4. refresh'.at = "syllabi"
    BY <1>2 DEF IngestSyllabus, AtStage, JobShapes
  <2> HIDE DEF d
  <2>5. RankingsTrailOnlyWrites'
    BY <2>1, <2>3, UnwrittenTrails
  <2>6. RefreshCurrent'
    BY <2>4 DEF RefreshCurrent
  <2> QED BY <2>1, <2>2, <2>5, <2>6, IdleChildCurrent, IdleSweepCurrent
<1>3. CASE ComputeRankings
  <2> DEFINE crns == {d \in Crns : section[d] # NoRow}
  <2>1. UNCHANGED <<tableVars, trailing>> /\ child' = child /\ sweep' = sweep
    BY <1>3 DEF ComputeRankings, OthersSame
  <2>2. refresh'.ranks = [c \in crns |-> RankOf(section[c], syllabus[c] # NoDocument)]
    BY <1>3 DEF ComputeRankings, JobShapes
  <2>3. \A c \in Crns : CurrentRank(c)' = RankOf(section[c], syllabus[c] # NoDocument)
    BY <2>1 DEF CurrentRank, tableVars
  <2>4. section' = section
    BY <2>1 DEF tableVars
  <2>5. RefreshCurrent'
    BY <2>2, <2>3, <2>4 DEF RefreshCurrent
  <2> QED BY <2>1, <2>5, TablesSameRanks, SameOverlooksNothing, IdleChildCurrent, IdleSweepCurrent
<1>4. CASE WriteRankings
  <2>1. /\ section' = section /\ syllabus' = syllabus /\ child' = child /\ sweep' = sweep
        /\ trailing' = refresh.since /\ ranking' = Overlay(ranking, refresh.ranks)
        /\ refresh.at = "write"
    BY <1>4 DEF WriteRankings, OthersSame, AtStage
  <2>2. ASSUME NEW c \in Crns, c \notin trailing'
        PROVE  ranking'[c] = RankOf(section'[c], syllabus'[c] # NoDocument)
    <3>1. ranking'[c] = IF c \in DOMAIN refresh.ranks THEN refresh.ranks[c] ELSE ranking[c]
      BY <2>1 DEF Overlay
    <3>2. IF c \in DOMAIN refresh.ranks THEN refresh.ranks[c] = CurrentRank(c) ELSE section[c] = NoRow
      BY <2>1, <2>2 DEF RefreshCurrent
    <3>3. CASE c \in DOMAIN refresh.ranks
      BY <2>1, <3>1, <3>2, <3>3 DEF CurrentRank
    <3>4. CASE c \notin DOMAIN refresh.ranks
      BY <2>1, <3>1, <3>2, <3>4 DEF References, RankOf
    <3> QED BY <3>3, <3>4
  <2>3. refresh'.at = "counts"
    BY <1>4, AfterStage DEF WriteRankings, AtStage, JobShapes
  <2>4. RefreshCurrent'
    BY <2>3 DEF RefreshCurrent
  <2>5. RankingsTrailOnlyWrites'
    BY <2>2 DEF RankingsTrailOnlyWrites
  <2> QED BY <2>1, <2>4, <2>5, SameOverlooksNothing, IdleChildCurrent, IdleSweepCurrent
<1>5. CASE StartRefresh \/ LoadCatalog \/ ImportGrades \/ EndSyllabi \/ EndRefresh \/ FailStage
  <2>1. UNCHANGED <<section, syllabus, ranking, trailing, child, sweep>>
    BY <1>5 DEF StartRefresh, LoadCatalog, ImportGrades, EndSyllabi, EndRefresh, FailStage,
         tableVars, OthersSame
  <2>2. refresh'.at # "write"
    <3>1. CASE LoadCatalog \/ ImportGrades \/ EndSyllabi
      BY <3>1, AfterStage DEF LoadCatalog, ImportGrades, EndSyllabi, GoOn, AtStage, JobShapes
    <3>2. CASE StartRefresh
      BY <3>2 DEF StartRefresh
    <3>3. CASE EndRefresh \/ FailStage
      BY <3>3 DEF EndRefresh, FailStage, JobShapes
    <3> QED BY <1>5, <3>1, <3>2, <3>3
  <2>3. RefreshCurrent'
    BY <2>2 DEF RefreshCurrent
  <2>4. RankingsTrailOnlyWrites'
    BY <2>1, UnwrittenTrails
  <2> QED BY <2>1, <2>3, <2>4, SameOverlooksNothing, IdleChildCurrent, IdleSweepCurrent
<1> QED BY <1>1, <1>2, <1>3, <1>4, <1>5 DEF RefreshStep

LEMMA SweepRanks ==
  ASSUME JobShapes, TablesRefer, Ranked, StartSweep \/ CommitSweep
  PROVE  Ranked'
<1> USE DEF Ranked, RanksCurrent
<1>1. CASE StartSweep
  <2>1. UNCHANGED <<tableVars, trailing>> /\ refresh' = refresh /\ child' = child
    BY <1>1 DEF StartSweep, TablesSame
  <2>2. PICK c \in Crns : \E row \in SweepRows[c] :
          LET rows == [d \in {c} |-> row]
          IN  sweep' = [at |-> "run", rows |-> rows, ranks |-> Reranked(row.course, rows), since |-> {}]
    BY <1>1 DEF StartSweep
  <2>3. PICK row \in SweepRows[c] :
          LET rows == [d \in {c} |-> row]
          IN  sweep' = [at |-> "run", rows |-> rows, ranks |-> Reranked(row.course, rows), since |-> {}]
    BY <2>2
  <2> DEFINE rows == [d \in {c} |-> row]
  <2> DEFINE ranks == Reranked(row.course, rows)
  <2>4. sweep'.rows = rows /\ sweep'.ranks = ranks
    BY <2>3
  <2> HIDE DEF rows
  <2>5. \A d \in DOMAIN ranks : ranks[d] = RankOf(Overlay(section, rows)[d], syllabus[d] # NoDocument)
    BY DEF Reranked
  <2> HIDE DEF ranks
  <2>6. section' = section /\ syllabus' = syllabus
    BY <2>1 DEF tableVars
  <2>7. JobCurrent(sweep)'
    BY <2>4, <2>5, <2>6 DEF JobCurrent, SeenBy, Overlay
  <2> QED BY <2>1, <2>7, TablesSameRanks, SameOverlooksNothing, IdleChildCurrent, IdleRefreshCurrent
<1>2. CASE CommitSweep
  <2>1. /\ Store(sweep) /\ child' = Overlooks(child, DOMAIN sweep.rows)
        /\ refresh' = Overlooks(refresh, DOMAIN sweep.rows) /\ sweep' = NoSweep
    BY <1>2 DEF CommitSweep, Store
  <2>2. /\ RankingsTrailOnlyWrites'
        /\ \A c \in Crns \ DOMAIN sweep.rows : section'[c] = section[c] /\ syllabus'[c] = syllabus[c]
    BY <2>1, StoreRanks, JobDomains DEF TablesRefer, JobRefers
  <2>3. DOMAIN sweep'.ranks = {}
    BY <2>1, EmptyDomains
  <2>4. JobCurrent(sweep)'
    BY <2>3 DEF JobCurrent
  <2> QED BY <2>1, <2>2, <2>4, IdleChildCurrent, IdleRefreshCurrent
<1> QED BY <1>1, <1>2

LEMMA CleanupRanks ==
  ASSUME JobShapes, Ranked, CleanupStep
  PROVE  Ranked'
<1> USE DEF Ranked, RanksCurrent
<1>1. CASE CommitCleanup
  <2> DEFINE gone == cleanup.candidates
  <2>1. \A c \in Crns \ gone : /\ section'[c] = section[c] /\ ranking'[c] = ranking[c]
                               /\ syllabus'[c] = syllabus[c]
    BY <1>1 DEF CommitCleanup, Joined
  <2>2. \A c \in Crns \cap gone : section'[c] = NoRow /\ ranking'[c] = Unranked
    BY <1>1 DEF CommitCleanup
  <2>3. /\ refresh' = Overlooks(refresh, gone)
        /\ child' = Overlooks(child, gone) /\ sweep' = Overlooks(sweep, gone)
        /\ trailing' = trailing \ gone
    BY <1>1 DEF CommitCleanup
  <2> HIDE DEF gone
  <2>4. ASSUME NEW c \in Crns, c \notin trailing'
        PROVE  ranking'[c] = RankOf(section'[c], syllabus'[c] # NoDocument)
    <3>1. CASE c \in gone
      BY <2>2, <3>1 DEF RankOf
    <3>2. CASE c \notin gone
      <4>1. ranking[c] = RankOf(section[c], syllabus[c] # NoDocument)
        BY <2>3, <2>4, <3>2 DEF RankingsTrailOnlyWrites
      <4>2. section'[c] = section[c] /\ ranking'[c] = ranking[c] /\ syllabus'[c] = syllabus[c]
        BY <2>1, <3>2
      <4> QED BY <4>1, <4>2
    <3> QED BY <3>1, <3>2
  <2>5. RankingsTrailOnlyWrites'
    BY <2>4 DEF RankingsTrailOnlyWrites
  <2> QED BY <2>1, <2>3, <2>5, IdleChildCurrent, IdleSweepCurrent, IdleRefreshCurrent
<1>2. CASE ~CommitCleanup
  <2>1. UNCHANGED <<tableVars, trailing, refresh, child, sweep>>
    BY <1>2 DEF CleanupStep, StartCleanup, LockTargets, CheckCandidates, SnapshotBefore,
         DeleteCandidates, VerifyIdentities, RecountTargets, FailCleanup, CleanupReads, TablesSame
  <2> QED BY <2>1, TablesSameRanks, SameOverlooksNothing, IdleChildCurrent, IdleSweepCurrent,
             IdleRefreshCurrent
<1> QED BY <1>1, <1>2

LEMMA BulkRanks ==
  ASSUME JobShapes, TablesRefer, Ranked, BulkStep
  PROVE  Ranked'
<1> USE DEF Ranked, RanksCurrent
<1>1. PICK crns2 : sweep' = Overlooks(sweep, crns2)
  BY OthersLeaveSweep
<1>2. CASE CommitChild
  <2>1. /\ Store(child) /\ sweep' = Overlooks(sweep, DOMAIN child.rows)
        /\ refresh' = Overlooks(refresh, DOMAIN child.rows)
    BY <1>2 DEF CommitChild, Store
  <2>2. /\ RankingsTrailOnlyWrites'
        /\ \A c \in Crns \ DOMAIN child.rows : section'[c] = section[c] /\ syllabus'[c] = syllabus[c]
    BY <2>1, StoreRanks, JobDomains DEF TablesRefer, JobRefers
  <2>3. DOMAIN child'.ranks = {}
    BY <1>2, EmptyDomains DEF CommitChild, NoChild
  <2>4. JobCurrent(child)'
    BY <2>3 DEF JobCurrent
  <2> QED BY <2>1, <2>2, <2>4, IdleSweepCurrent, IdleRefreshCurrent
<1>3. CASE ~CommitChild
  <2>1. UNCHANGED <<tableVars, trailing, refresh>>
    BY <1>3 DEF BulkStep, StartBulk, StartChild, RefreshTarget, RecordSubject, FailChild,
         RefuseResponse, CrashBulk, EndBulk, TablesSame
  <2>2. /\ RankingsTrailOnlyWrites' /\ RefreshCurrent' /\ JobCurrent(sweep)'
        /\ section' = section /\ syllabus' = syllabus
    BY <1>1, <2>1, TablesSameRanks, SameOverlooksNothing, IdleSweepCurrent, IdleRefreshCurrent
       DEF tableVars
  <2>3. CASE RefreshTarget
    <3>1. PICK course \in child.targets, listing \in Listings :
            \/ child' = [child EXCEPT !.targets = @ \ {course}, !.known = @ \cup {course},
                           !.rows = RowsWith(course, listing),
                           !.ranks = Merged(@, RanksWith(course, listing)),
                           !.since = @ \ DOMAIN RanksWith(course, listing)]
            \/ child' = [child EXCEPT !.targets = @ \ {course}]
      BY <2>3 DEF RefreshTarget, RowsWith, RanksWith
    <3> DEFINE crns == Response(course, listing)
    <3> DEFINE rows == RowsWith(course, listing)
    <3> DEFINE ranks == RanksWith(course, listing)
    <3> HIDE DEF crns, rows, ranks
    <3>2. TargetFacts(crns, listing, course, rows, ranks)
      BY TargetAdds DEF crns, rows, ranks, TablesRefer
    <3>3. \/ child' = [child EXCEPT !.targets = @ \ {course}, !.known = @ \cup {course},
                         !.rows = rows, !.ranks = Merged(@, ranks), !.since = @ \ DOMAIN ranks]
          \/ child' = [child EXCEPT !.targets = @ \ {course}]
      BY <3>1 DEF rows, ranks
    <3>4. CASE child' = [child EXCEPT !.targets = @ \ {course}]
      <4>1. child'.rows = child.rows /\ child'.ranks = child.ranks /\ child'.since = child.since
        BY <3>4 DEF JobShapes
      <4> QED BY <2>2, <4>1 DEF JobCurrent, SeenBy, Overlay
    <3>5. CASE child' = [child EXCEPT !.targets = @ \ {course}, !.known = @ \cup {course},
                           !.rows = rows, !.ranks = Merged(@, ranks), !.since = @ \ DOMAIN ranks]
      <4>1. /\ child'.rows = rows /\ child'.ranks = Merged(child.ranks, ranks)
            /\ child'.since = child.since \ DOMAIN ranks
        BY <3>5 DEF JobShapes
      <4>2. ASSUME NEW c \in DOMAIN child'.ranks \ child'.since
            PROVE  child'.ranks[c] = RankOf(Overlay(section, rows)[c], syllabus[c] # NoDocument)
        <5>1. CASE c \in DOMAIN ranks
          BY <3>2, <4>1, <5>1 DEF TargetFacts
        <5>2. CASE c \notin DOMAIN ranks
          <6>1. c \in DOMAIN child.ranks \ child.since /\ child'.ranks[c] = child.ranks[c] /\ c \in Crns
            BY <3>2, <4>1, <4>2, <5>2, JobDomains DEF TargetFacts
          <6>2. child.ranks[c] = RankOf(Overlay(section, child.rows)[c], syllabus[c] # NoDocument)
            BY <6>1 DEF JobCurrent, SeenBy
          <6>3. Overlay(section, rows)[c] = Overlay(section, child.rows)[c]
            BY <3>2, <5>2, <6>1 DEF TargetFacts, Overlay
          <6> QED BY <6>1, <6>2, <6>3
        <5> QED BY <5>1, <5>2
      <4>3. JobCurrent(child)'
        BY <2>2, <4>1, <4>2 DEF JobCurrent, SeenBy, Overlay
      <4> QED BY <2>2, <4>3
    <3> QED BY <3>3, <3>4, <3>5
  <2>4. CASE StartBulk \/ EndBulk
    <3>1. child' = child
      BY <2>4 DEF StartBulk, EndBulk
    <3> QED BY <2>2, <3>1, SameOverlooksNothing, IdleChildCurrent
  <2>5. CASE StartChild \/ RecordSubject \/ FailChild \/ RefuseResponse \/ CrashBulk
    <3>1. DOMAIN child'.ranks = {}
      BY <2>5, EmptyDomains DEF StartChild, RecordSubject, FailChild, RefuseResponse, CrashBulk, NoChild
    <3>2. JobCurrent(child)'
      BY <3>1 DEF JobCurrent
    <3> QED BY <2>2, <3>2
  <2> QED BY <1>3, <2>3, <2>4, <2>5 DEF BulkStep
<1> QED BY <1>2, <1>3

LEMMA RanksStep ==
  JobShapes /\ TablesRefer /\ Ranked /\ [Next]_jobsVars => Ranked'
<1> SUFFICES ASSUME JobShapes, TablesRefer, Ranked, [Next]_jobsVars PROVE Ranked'
  OBVIOUS
<1>1. CASE UNCHANGED jobsVars
  <2>1. UNCHANGED <<tableVars, trailing, refresh, child, sweep>>
    BY <1>1 DEF jobsVars, jobVars
  <2> QED BY <2>1, TablesSameRanks, SameOverlooksNothing, IdleChildCurrent, IdleSweepCurrent,
             IdleRefreshCurrent DEF Ranked, RanksCurrent
<1> QED BY <1>1, RefreshRanks, BulkRanks, SweepRanks, CleanupRanks DEF Next, TablesRefer

LEMMA InitRanks == Init => Ranked
<1> SUFFICES ASSUME Init PROVE Ranked
  OBVIOUS
<1>1. ASSUME NEW c \in Crns PROVE ranking[c] = RankOf(section[c], syllabus[c] # NoDocument)
  <2>1. ranking[c] = RankOf(StoredRows[c], FALSE) /\ section[c] = StoredRows[c] /\ syllabus[c] = NoDocument
    BY DEF Init
  <2> QED BY <2>1
<1>2. DOMAIN child.ranks = {} /\ DOMAIN sweep.ranks = {} /\ refresh.at = "idle"
  BY EmptyDomains DEF Init
<1> QED BY <1>1, <1>2 DEF Ranked, RanksCurrent, RankingsTrailOnlyWrites, JobCurrent, RefreshCurrent

---------------------------------------------------------------------------
(* The theorems *)

JobsInv == JobShapes /\ SubjectsKnown /\ LocksHold /\ TablesRefer /\ Ranked

(* The invariant is inductive: it holds at the start and every step of a job, of a
   child, of the cleanup and of a sweep keeps it. *)
THEOREM JobsInvariant == Spec => []JobsInv
<1>1. Init => JobsInv
  BY InitTables, InitRanks DEF JobsInv
<1>2. JobsInv /\ [Next]_jobsVars => JobsInv'
  BY StepShapes, SubjectsStep, LocksStep, TablesStep, RanksStep DEF JobsInv
<1> QED BY <1>1, <1>2, PTL DEF Spec

(* The tables refer to one another: a section's course is in the catalog, nothing
   hangs on a section that is not there, and only subjects of targets are recorded. *)
THEOREM JobsTypeCorrect == Spec => []JobsTypeOK
<1>1. JobsInv => JobsTypeOK
  <2> SUFFICES ASSUME JobsInv PROVE JobsTypeOK
    OBVIOUS
  <2>1. section \in [Crns -> Rows \cup {NoRow}] /\ bulk.todo \subseteq Subjects
    BY DEF JobsInv, JobShapes
  <2>2. References
    BY DEF JobsInv, TablesRefer
  <2>3. progress \subseteq Subjects /\ committed \subseteq Subjects
    BY DEF JobsInv, SubjectsKnown
  <2> QED BY <2>1, <2>2, <2>3 DEF JobsTypeOK, References
<1> QED BY <1>1, JobsInvariant, PTL

(* The progress file of refresh_all_tampa names only subjects whose child committed,
   whatever is killed and however often it is resumed. *)
THEOREM RecordedAreCommitted == Spec => []RecordedIsCommitted
<1>1. JobsInv => RecordedIsCommitted
  BY DEF JobsInv, SubjectsKnown, RecordedIsCommitted
<1> QED BY <1>1, JobsInvariant, PTL

(* Whoever rebuilds rankings, only sections written after the rebuild read them are
   ranked otherwise than the tables have them. *)
THEOREM RankingsTrail == Spec => []RankingsTrailOnlyWrites
<1>1. JobsInv => RankingsTrailOnlyWrites
  BY DEF JobsInv, Ranked
<1> QED BY <1>1, JobsInvariant, PTL

(* No step but the cleanup's commit takes a section away *)
LEMMA SectionsStay ==
  ASSUME JobsInv, RefreshStep \/ BulkStep \/ StartSweep \/ CommitSweep
  PROVE  \A c \in Crns : section[c] # NoRow => section'[c] # NoRow
<1> USE DEF JobsInv
<1>1. CASE RefreshStep
  BY <1>1, RefreshReferences DEF TablesRefer
<1>2. CASE CommitChild
  BY <1>2, StoreRefers, JobDomains DEF CommitChild, TablesRefer
<1>3. CASE CommitSweep
  <2>1. Store(sweep) /\ catalog' = catalog
    BY <1>3 DEF CommitSweep
  <2> QED BY <2>1, StoreRefers, JobDomains DEF TablesRefer
<1>4. CASE (BulkStep /\ ~CommitChild) \/ StartSweep
  <2>1. section' = section
    BY <1>4 DEF BulkStep, StartBulk, StartChild, RefreshTarget, RecordSubject, FailChild,
         RefuseResponse, CrashBulk, EndBulk, StartSweep, TablesSame, tableVars
  <2> QED BY <2>1
<1> QED BY <1>1, <1>2, <1>3, <1>4

(* The jobs implement TermTables: sections are inserted and changed, and only the
   cleanup's commit takes any away, those of target courses at another campus. *)
THEOREM JobsKeepTables == Spec => KeepsTables
<1>1. Init => Tables!TablesInit
  BY JobsAssumption DEF Init, Tables!TablesInit
<1>2. JobsInv /\ JobsInv' /\ [Next]_jobsVars => [Tables!Write \/ Tables!Clean]_section
  <2> SUFFICES ASSUME JobsInv, JobsInv', [Next]_jobsVars
               PROVE  Tables!Write \/ Tables!Clean \/ UNCHANGED section
    OBVIOUS
  <2>1. DOMAIN section' = Crns /\ section \in [Crns -> Rows \cup {NoRow}]
    BY DEF JobsInv, JobShapes
  <2>2. CASE RefreshStep \/ BulkStep \/ StartSweep \/ CommitSweep
    BY <2>1, <2>2, SectionsStay DEF Tables!Write
  <2>3. CASE CommitCleanup
    <3> DEFINE gone == cleanup.candidates
    <3>1. section' = [c \in Crns |-> IF c \in gone THEN NoRow ELSE section[c]] /\ cleanup.at = "commit"
      BY <2>3 DEF CommitCleanup
    <3>2. \A c \in gone : c \in Crns /\ section[c] # NoRow /\ OtherCampus(section[c])
      BY <3>1 DEF JobsInv, JobShapes, LocksHold
    <3> QED BY <3>1, <3>2 DEF Tables!Clean
  <2>4. CASE CleanupStep /\ ~CommitCleanup
    BY <2>4 DEF CleanupStep, StartCleanup, LockTargets, CheckCandidates, SnapshotBefore,
         DeleteCandidates, VerifyIdentities, RecountTargets, FailCleanup, CleanupReads, TablesSame, tableVars
  <2>5. CASE UNCHANGED jobsVars
    BY <2>5 DEF jobsVars, tableVars
  <2> QED BY <2>2, <2>3, <2>4, <2>5 DEF Next
<1> QED BY <1>1, <1>2, JobsInvariant, PTL DEF Spec, KeepsTables, Tables!TablesSpec
=============================================================================
