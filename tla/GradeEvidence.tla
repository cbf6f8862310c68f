--------------------------- MODULE GradeEvidence ---------------------------
(***************************************************************************)
(* The grade evidence the sync worker keeps between sweeps                 *)
(* (GradeEvidenceCache, src/easy_a/analytics/queries.py), beside the       *)
(* writers of the tables it is read from: the grade workbook import, the   *)
(* ingest of an earlier term, the backfill and its rollback, and the       *)
(* cleanup of other campuses' sections.                                    *)
(*                                                                         *)
(* A sweep is the worker's transaction.  It holds the sweep lock and reads *)
(* committed rows statement by statement; a grade import, an ingest of an  *)
(* earlier term and a cleanup do not take that lock and may commit between *)
(* two statements.  The backfill and its rollback take it.                 *)
(***************************************************************************)
EXTENDS HistoricalScores

CONSTANTS
  Before,   \* code of the current term
  Counts,   \* grade counts a workbook row may have
  Kinds,    \* bound: whether earlier sections are laboratories
  LastId    \* bound: row ids handed out

ASSUME EvidenceAssumption ==
  /\ Slots \subseteq Nat
  /\ \A s \in Slots : TermOf[s] < Before
  /\ Counts \subseteq [a : Nat, f : Nat, w : Nat, o : Nat]
  /\ LastId \in Nat /\ Kinds \subseteq BOOLEAN

VARIABLES
  grades,    \* grade_distributions: slot |-> [id, course, counts]
  sections,  \* sections of earlier terms: slot |-> [id, course, lab, names, backfilled]
  nextId,    \* next row id; ids are never used again
  cleanup,   \* sections whose rows a running cleanup has locked; {} when none runs
  kept,      \* the worker's evidence and its key
  pc,        \* next statement of the sweep
  sweep      \* what the sweep read so far

tables == <<grades, sections, nextId, cleanup>>
worker == <<kept, pc, sweep>>
vars == <<tables, worker>>

NoKey == [grade |-> [count |-> -1]]
NoSweep == [key |-> NoKey, rows |-> <<>>]

(***************************************************************************)
(* The fingerprint and the current value of a section's cached score       *)
(***************************************************************************)
MaxId(S) == IF S = {} THEN 0 ELSE Max(S)

GradeKey ==
  LET S == DOMAIN grades
  IN [count |-> Cardinality(S), max |-> MaxId({grades[s].id : s \in S}),
      courses |-> Sum(grades, S, "course"),
      total |-> MapThenSumSet(LAMBDA s : AllGrades(grades[s]), S)]

SectionKey ==
  LET S == DOMAIN sections
  IN [count |-> Cardinality(S), max |-> MaxId({sections[s].id : s \in S}),
      courses |-> Sum(sections, S, "course")]

NameKey ==
  LET names == UNION {sections[s].names : s \in DOMAIN sections}
  IN [count |-> Cardinality(names), max |-> MaxId({o.id : o \in names})]

Fingerprint == [grade |-> GradeKey, section |-> SectionKey, name |-> NameKey]

(***************************************************************************)
(* Other writers                                                           *)
(***************************************************************************)
InTerm(t) == {s \in Slots : TermOf[s] = t}

(* Rows of the workbook that are inserted before slot s *)
Inserted(book, s) == {t \in DOMAIN book \ DOMAIN grades : t < s}

(* A workbook of one term, whole: new rows get new ids, known ones are
   corrected in place.  A workbook with an unreadable row or an unknown
   course changes nothing and has no step here. *)
ImportGrades(t) ==
  \E S \in SUBSET InTerm(t) \ {{}} :
    \E book \in [S -> [course : CourseIds, counts : Counts]] :
      LET new == S \ DOMAIN grades
          Id(s) == IF s \in new THEN nextId + Cardinality(Inserted(book, s)) ELSE grades[s].id
          Row(s) == [id |-> Id(s), course |-> book[s].course, a |-> book[s].counts.a,
                     f |-> book[s].counts.f, w |-> book[s].counts.w, o |-> book[s].counts.o]
      IN /\ nextId + Cardinality(new) <= LastId + 1
         /\ grades' = [s \in DOMAIN grades \cup S |-> IF s \in S THEN Row(s) ELSE grades[s]]
         /\ nextId' = nextId + Cardinality(new)
  /\ UNCHANGED <<sections, cleanup, worker>>

(* One row of ingest_schedule_html for an earlier term: the section is made or
   overwritten, once no cleanup holds its row, and always gets one more
   instructor row *)
IngestEarlier(s, course, lab, name) ==
  LET known == s \in DOMAIN sections
      id == IF known THEN sections[s].id ELSE nextId
      nameId == IF known THEN nextId ELSE nextId + 1
      old == IF known THEN sections[s].names ELSE {}
      row == [id |-> id, course |-> course, lab |-> lab,
              names |-> old \cup {[id |-> nameId, name |-> name]}, backfilled |-> FALSE]
  IN /\ s \notin cleanup
     /\ nameId <= LastId
     /\ sections' = [t \in DOMAIN sections \cup {s} |-> IF t = s THEN row ELSE sections[t]]
     /\ nextId' = nameId + 1
     /\ UNCHANGED <<grades, cleanup, worker>>

(* write_term_backfill, under the sweep lock: sections that are not there yet *)
Backfill(s, course, lab, name) ==
  /\ pc = "idle"
  /\ s \notin DOMAIN sections
  /\ nextId < LastId
  /\ sections' = [t \in DOMAIN sections \cup {s} |->
       IF t = s THEN [id |-> nextId, course |-> course, lab |-> lab, backfilled |-> TRUE,
                      names |-> {[id |-> nextId + 1, name |-> name]}]
       ELSE sections[t]]
  /\ nextId' = nextId + 2
  /\ UNCHANGED <<grades, cleanup, worker>>

(* select_rollback_sections: never a section that an ingest has seen *)
Eligible == {s \in DOMAIN sections : sections[s].backfilled}

(* delete_backfilled_sections, under the sweep lock, once no cleanup holds a
   row of theirs *)
RollbackBackfill(S) ==
  /\ pc = "idle"
  /\ S # {} /\ S \subseteq Eligible \ cleanup
  /\ sections' = [t \in DOMAIN sections \ S |-> sections[t]]
  /\ UNCHANGED <<grades, nextId, cleanup, worker>>

(* Fault: the cleanup deletes candidates that have grade rows *)
RefusedNever(S) == FALSE

(* A cleanup refuses to run when a candidate shares its term and CRN with a
   grade row *)
Refused(S) == S \cap DOMAIN grades # {}

(* clean_other_campus_sections --apply on one term, whichever: it locks the
   candidates' rows and then looks for grade rows *)
LockCandidates(S) ==
  /\ cleanup = {}
  /\ S # {} /\ S \subseteq DOMAIN sections
  /\ \E t \in {TermOf[s] : s \in Slots} : S \subseteq InTerm(t)
  /\ ~Refused(S)
  /\ cleanup' = S
  /\ UNCHANGED <<grades, sections, nextId, worker>>

(* ... deletes them with their instructor rows, checks what is left, commits *)
DeleteCandidates ==
  /\ cleanup # {}
  /\ sections' = [t \in DOMAIN sections \ cleanup |-> sections[t]]
  /\ cleanup' = {}
  /\ UNCHANGED <<grades, nextId, worker>>

(* ... or fails one of its checks and is rolled back *)
FailCleanup ==
  /\ cleanup # {}
  /\ cleanup' = {}
  /\ UNCHANGED <<grades, sections, nextId, worker>>

(***************************************************************************)
(* The worker's sweep                                                      *)
(***************************************************************************)
(* A sweep that changes a course reaches its rankings rebuild *)
BeginSweep ==
  /\ pc = "idle"
  /\ pc' = "grade_key"
  /\ UNCHANGED <<tables, kept, sweep>>

(* _grade_evidence_fingerprint: first statement *)
ReadGradeKey ==
  /\ pc = "grade_key"
  /\ pc' = "section_key"
  /\ sweep' = [sweep EXCEPT !.key = [grade |-> GradeKey]]
  /\ UNCHANGED <<tables, kept>>

(* ... the second, on sections *)
ReadSectionKey ==
  /\ pc = "section_key"
  /\ pc' = "name_key"
  /\ sweep' = [sweep EXCEPT !.key = [grade |-> sweep.key.grade, section |-> SectionKey]]
  /\ UNCHANGED <<tables, kept>>

(* ... the third, on their instructors; GradeEvidenceCache.get compares the key *)
ReadNameKey ==
  /\ pc = "name_key"
  /\ LET key == [grade |-> sweep.key.grade, section |-> sweep.key.section, name |-> NameKey]
     IN \/ kept.key = key /\ pc' = "rebuild" /\ sweep' = NoSweep
        \/ kept.key # key /\ pc' = "rows" /\ sweep' = [sweep EXCEPT !.key = key]
  /\ UNCHANGED <<tables, kept>>

(* _TermGradeEvidence.load: grade rows joined to sections *)
LoadRows ==
  /\ pc = "rows"
  /\ pc' = "names"
  /\ sweep' = [sweep EXCEPT !.rows = EvidenceRows(grades, sections, Before)]
  /\ UNCHANGED <<tables, kept>>

(* ... and the names of those sections; the cache keeps both *)
LoadNames ==
  /\ pc = "names"
  /\ pc' = "rebuild"
  /\ kept' = [key |-> sweep.key, evidence |-> WithNames(sweep.rows, sections)]
  /\ sweep' = NoSweep
  /\ UNCHANGED tables

(* The rows of the sweep's courses are rebuilt from the kept evidence and the
   sweep commits; before that an error may roll it back.  Neither touches the
   cache. *)
EndSweep ==
  /\ pc # "idle"
  /\ pc' = "idle" /\ sweep' = NoSweep
  /\ UNCHANGED <<tables, kept>>

(* A new worker process starts with an empty cache *)
NoEvidence == [key |-> NoKey, evidence |-> <<>>]

RestartWorker ==
  /\ kept # NoEvidence
  /\ kept' = NoEvidence /\ pc' = "idle" /\ sweep' = NoSweep
  /\ UNCHANGED <<tables>>

(***************************************************************************)
Init ==
  /\ grades = <<>> /\ sections = <<>> /\ nextId = 1 /\ cleanup = {}
  /\ kept = NoEvidence /\ pc = "idle" /\ sweep = NoSweep

Next ==
  \/ \E t \in {TermOf[s] : s \in Slots} : ImportGrades(t)
  \/ \E s \in Slots, course \in CourseIds, lab \in Kinds, name \in Names :
       IngestEarlier(s, course, lab, name) \/ Backfill(s, course, lab, name)
  \/ \E S \in SUBSET Slots : RollbackBackfill(S)
  \/ \E S \in SUBSET Slots : LockCandidates(S)
  \/ DeleteCandidates
  \/ FailCleanup
  \/ BeginSweep
  \/ ReadGradeKey
  \/ ReadSectionKey
  \/ ReadNameKey
  \/ LoadRows
  \/ LoadNames
  \/ EndSweep
  \/ RestartWorker

Spec == Init /\ [][Next]_vars

(***************************************************************************)
(* Properties                                                              *)
(***************************************************************************)
RowIds(s) == [grade |-> grades[s].id, section |-> IF s \in DOMAIN sections THEN sections[s].id ELSE 0]

NamesAt(s) == IF s \in DOMAIN sections THEN {o.name : o \in sections[s].names} ELSE {}

(* When the kept key is that of the tables, the kept evidence has exactly their
   rows, joined to the same sections and names, though the fingerprint only
   counts rows and takes three statements, and the load two more: no import,
   ingest, rollback or cleanup that adds or removes a row goes unseen. *)
KeptRowsAreCurrent ==
  kept.key = Fingerprint =>
    /\ DOMAIN kept.evidence = DOMAIN grades
    /\ \A s \in DOMAIN grades :
         /\ [grade |-> kept.evidence[s].grade.id, section |-> kept.evidence[s].section.id] = RowIds(s)
         /\ kept.evidence[s].names = NamesAt(s)

(* Evidence under a matching key is what a reload would read: the runbook says
   that a change of the grade tables makes the worker reload everything.  It is
   no invariant: an import may correct the grades of rows and keep their number. *)
KeptEvidenceIsCurrent ==
  kept.key = Fingerprint => kept.evidence = Evidence(grades, sections, Before)

CurrentSections == [key : CourseKeys, name : Names \cup {NoName}, lab : BOOLEAN]

(* The analytics of a term built from one read of the evidence are those that
   the command line computes course by course from the tables (the promise of
   get_term_section_historical_analytics), with grades imported before, after
   and beside their sections, and sections that disagree with them. *)
TermEqualsPerCourse ==
  pc = "idle" /\ kept = NoEvidence =>
    \A section \in CurrentSections :
      TermAnalytics(Evidence(grades, sections, Before), section)
        = CourseAnalytics(grades, sections, section, Before)

(* A section scored by its instructor's own history lists that instructor in its
   breakdown, scored, with the same score, and the lookup of the instructor by
   name has that score too: the three are computed apart. *)
PinnedRowAgrees ==
  pc = "idle" /\ kept = NoEvidence =>
    \A section \in CurrentSections :
      LET analytics == CourseAnalytics(grades, sections, section, Before)
      IN analytics.stats.source = "instructor_course" =>
           /\ analytics.breakdown.status = "ready"
           /\ [name |-> section.name, scored |-> TRUE,
               easiness |-> analytics.stats.easiness] \in analytics.breakdown.listed
           /\ InstructorLookup(grades, sections, section.key, section.name, Before)
                = analytics.stats
=============================================================================
