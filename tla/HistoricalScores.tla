-------------------------- MODULE HistoricalScores --------------------------
(***************************************************************************)
(* How the grades of earlier terms become the score of a section           *)
(* (src/easy_a/analytics): which grade rows count for a course and for an  *)
(* instructor, the fallback from course to subject to all courses, the     *)
(* smoothing, the confidence label, and the breakdown by instructor.       *)
(*                                                                         *)
(* A slot is a CRN in a term: the join key of grades and sections.  Rates  *)
(* are in thousandths, rounded down.  Recency weights are left out: they   *)
(* are off by default and nothing turns them on.                           *)
(***************************************************************************)
EXTENDS FieldSums, FiniteSets

CONSTANTS
  Slots,       \* (term, CRN) pairs that grades and sections may have
  TermOf,      \* [Slots -> Nat]: the term, later terms are larger
  CourseIds,   \* rows of courses; several editions may share a key
  KeyOf,       \* [CourseIds -> (subject, number) keys]
  SubjectOf,   \* [keys -> subjects]
  Names,       \* instructor names as observed
  UsableNames, \* those that are neither blank nor Staff
  GradePriorStrength, InstructorPriorStrength, WithdrawalPriorStrength,
  DefaultFavorability, DefaultWithdrawal,  \* priors without any evidence
  InstructorMinN,   \* effective grades an instructor's own score needs
  CollapseBelow,    \* breakdown rows under this are counted, not listed
  LowBelow, HighFrom  \* effective grades of the confidence labels

ASSUME ScoresAssumption ==
  /\ IsFiniteSet(Slots) /\ TermOf \in [Slots -> Nat]
  /\ CourseIds \subseteq Nat \ {0}
  /\ \A id \in CourseIds : KeyOf[id] \in DOMAIN SubjectOf
  /\ UsableNames \subseteq Names
  /\ {GradePriorStrength, InstructorPriorStrength, WithdrawalPriorStrength,
      InstructorMinN} \subseteq Nat \ {0}
  /\ {DefaultFavorability, DefaultWithdrawal} \subseteq 0..1000
  /\ {CollapseBelow, LowBelow, HighFrom} \subseteq Nat /\ LowBelow <= HighFrom

NoCourse == 0
NoName == "nobody"
NoSection == [id |-> 0, course |-> NoCourse, lab |-> FALSE]

CourseKeys == {KeyOf[id] : id \in CourseIds}
IdsOf(key) == {id \in CourseIds : KeyOf[id] = key}
SubjectIds(key) == {id \in CourseIds : SubjectOf[KeyOf[id]] = SubjectOf[key]}

(* Letter grades are abstracted to A and F, the rest to withdrawals and others *)
Completed(counts) == counts.a + counts.f
AllGrades(counts) == counts.a + counts.f + counts.w + counts.o

(***************************************************************************)
(* Aggregation and scoring                                                 *)
(***************************************************************************)
Sum(rows, S, field) == FieldSum(rows, S, field)

Lesser(m, n) == IF m < n THEN m ELSE n

(* rows: counts of each slot; S: the observed slots; mapped: those whose
   section has a usable instructor *)
Aggregate(rows, S, mapped) ==
  LET sums == [a |-> Sum(rows, S, "a"), f |-> Sum(rows, S, "f"),
               w |-> Sum(rows, S, "w"), o |-> Sum(rows, S, "o")]
  IN [completed |-> Completed(sums), points |-> 4 * sums.a, withdrawn |-> sums.w,
      total |-> AllGrades(sums),
      n |-> Lesser(Completed(sums), AllGrades(sums)),
      terms |-> Cardinality({TermOf[s] : s \in S}),
      mapped |-> Cardinality(S \cap mapped)]

HasEvidence(agg) == agg.completed > 0 \/ agg.total > 0

Favorability(agg) == (1000 * agg.points) \div (4 * agg.completed)
WithdrawalRate(agg) == (1000 * agg.withdrawn) \div agg.total

(* bayesian_smooth: rate is only read when n > 0 *)
Smoothed(rate, n, prior, strength) ==
  IF n = 0 THEN prior ELSE (n * rate + strength * prior) \div (n + strength)

Easiness(favorability, withdrawal) == 8 * favorability + 2 * (1000 - withdrawal)

Labels == <<"low", "medium", "high">>
Confidence(n, terms) ==
  LET level == IF n < LowBelow THEN 1 ELSE IF n < HighFrom THEN 2 ELSE 3
  IN Labels[IF terms <= 1 /\ level > 1 THEN level - 1 ELSE level]

Stats(agg, gradePrior, withdrawalPrior, priorLevel, source) ==
  LET strength == IF source = "instructor_course" THEN InstructorPriorStrength
                  ELSE GradePriorStrength
      favorability == IF agg.completed = 0 THEN gradePrior
                      ELSE Smoothed(Favorability(agg), agg.completed, gradePrior, strength)
      withdrawal == IF agg.total = 0 THEN withdrawalPrior
                    ELSE Smoothed(WithdrawalRate(agg), agg.total, withdrawalPrior,
                                  WithdrawalPriorStrength)
  IN [favorability |-> favorability, withdrawal |-> withdrawal,
      easiness |-> Easiness(favorability, withdrawal),
      n |-> agg.n, mapped |-> agg.mapped,
      label |-> Confidence(agg.n, agg.terms),
      priorLevel |-> priorLevel, source |-> source]

(* _stats_with_course_subject_global_fallback *)
FallbackStats(course, subject, everything) ==
  LET GradeRate(agg, otherwise) ==
        IF agg.completed > 0 THEN Favorability(agg) ELSE otherwise
      DropRate(agg, otherwise) ==
        IF agg.total > 0 THEN WithdrawalRate(agg) ELSE otherwise
      grade == GradeRate(everything, DefaultFavorability)
      drop == DropRate(everything, DefaultWithdrawal)
  IN CASE HasEvidence(course) ->
            Stats(course, GradeRate(subject, grade), DropRate(subject, drop),
                  IF HasEvidence(subject) THEN "subject" ELSE "global", "course")
       [] ~HasEvidence(course) /\ HasEvidence(subject) ->
            Stats(subject, grade, drop, "global", "subject")
       [] OTHER -> Stats(course, grade, drop, "global", "global")

(* _instructor_course_stats: an instructor's own rows over the course as prior *)
InstructorStats(agg, courseStats) ==
  Stats(agg, courseStats.favorability, courseStats.withdrawal, "course",
        "instructor_course")

EnoughForInstructor(agg, stats) ==
  /\ HasEvidence(agg)
  /\ stats.n >= InstructorMinN
  /\ stats.mapped > 0

(***************************************************************************)
(* Per-course reads of the database (the command line's path).             *)
(* grades: slots with a grade row |-> [id, course, a, f, w, o];            *)
(* sections: slots with a section |-> [id, course, lab, names], where      *)
(* names is the set of [id, name] observations.                            *)
(***************************************************************************)
HasUsableName(sections, s) ==
  s \in DOMAIN sections /\ \E o \in sections[s].names : o.name \in UsableNames

(* Fault: a grade row counts only for the course it was imported under *)
CourseSlotsByGradeOnly(grades, sections, ids, before) ==
  {s \in DOMAIN grades : TermOf[s] < before /\ grades[s].course \in ids}

(* _fetch_course_grade_observations *)
CourseSlots(grades, sections, ids, before) ==
  {s \in DOMAIN grades :
     /\ TermOf[s] < before
     /\ \/ grades[s].course \in ids
        \/ s \in DOMAIN sections /\ sections[s].course \in ids}

AllSlots(grades, before) == {s \in DOMAIN grades : TermOf[s] < before}

(* Fault: laboratory grades count for the instructor *)
InstructorSlotsWithLabs(grades, sections, ids, name, before) ==
  {s \in DOMAIN grades \cap DOMAIN sections :
     /\ TermOf[s] < before
     /\ sections[s].course \in ids
     /\ \E o \in sections[s].names : o.name = name}

(* _fetch_course_instructor_observations, of one name *)
InstructorSlots(grades, sections, ids, name, before) ==
  {s \in DOMAIN grades \cap DOMAIN sections :
     /\ TermOf[s] < before
     /\ sections[s].course \in ids /\ ~sections[s].lab
     /\ \E o \in sections[s].names : o.name = name}

(***************************************************************************)
(* One read of the whole term's evidence (the worker's path), in two       *)
(* statements: grade rows joined to sections, then the names of those      *)
(* sections.                                                               *)
(***************************************************************************)
EvidenceRows(grades, sections, before) ==
  [s \in AllSlots(grades, before) |->
     [grade |-> grades[s],
      section |-> IF s \in DOMAIN sections
                  THEN [id |-> sections[s].id, course |-> sections[s].course,
                        lab |-> sections[s].lab]
                  ELSE NoSection]]

WithNames(rows, sections) ==
  [s \in DOMAIN rows |->
     [grade |-> rows[s].grade, section |-> rows[s].section,
      names |-> IF s \in DOMAIN sections /\ sections[s].id = rows[s].section.id
                THEN {o.name : o \in sections[s].names} ELSE {}]]

Evidence(grades, sections, before) ==
  WithNames(EvidenceRows(grades, sections, before), sections)

EvidenceFor(evidence, ids) ==
  {s \in DOMAIN evidence : {evidence[s].grade.course, evidence[s].section.course} \cap ids # {}}

EvidenceMapped(evidence) == {s \in DOMAIN evidence : evidence[s].names \cap UsableNames # {}}

EvidenceOfInstructor(evidence, ids, name) ==
  {s \in EvidenceFor(evidence, ids) :
     /\ evidence[s].section.course \in ids /\ ~evidence[s].section.lab
     /\ name \in evidence[s].names}

(***************************************************************************)
(* The score and the breakdown of a section, given the course's aggregates *)
(* and the aggregate of each usable name                                   *)
(***************************************************************************)
SectionStats(courseStats, ofName, section) ==
  LET own == InstructorStats(ofName[section.name], courseStats)
  IN IF /\ section.name \in UsableNames
        /\ ~section.lab
        /\ EnoughForInstructor(ofName[section.name], own)
     THEN own ELSE courseStats

NoBreakdown == [status |-> "none", listed |-> {}, others |-> 0]

ListedAlone(stats, name, section) == stats.n >= CollapseBelow \/ name = section.name

(* build_instructor_breakdown, without the shares and dates it displays *)
Breakdown(courseStats, ofName, section) ==
  LET withHistory == {name \in UsableNames :
                        HasEvidence(ofName[name]) /\ ofName[name].n > 0}
      of(name) == InstructorStats(ofName[name], courseStats)
      listed == {name \in withHistory : ListedAlone(of(name), name, section)}
      Scored(name) == EnoughForInstructor(ofName[name], of(name))
  IN IF courseStats.source # "course" \/ courseStats.n = 0 \/ courseStats.mapped = 0
     THEN NoBreakdown
     ELSE IF section.lab
     THEN [NoBreakdown EXCEPT !.status = "lab_section"]
     ELSE [status |-> IF withHistory = {} THEN "no_instructor_history" ELSE "ready",
           listed |-> {[name |-> name, scored |-> Scored(name),
                        easiness |-> IF Scored(name) THEN of(name).easiness ELSE 0]
                       : name \in listed},
           others |-> Cardinality(withHistory \ listed)]

Analytics(courseStats, ofName, section) ==
  [stats |-> SectionStats(courseStats, ofName, section),
   breakdown |-> Breakdown(courseStats, ofName, section)]

(* get_course_historical_outcome_stats *)
CourseStats(grades, sections, key, before) ==
  LET ids == IdsOf(key)
      mapped == {s \in Slots : HasUsableName(sections, s)}
      Agg(S) == Aggregate(grades, S, mapped)
  IN FallbackStats(
       Agg(CourseSlots(grades, sections, ids, before)),
       Agg(CourseSlots(grades, sections, SubjectIds(key) \ ids, before)),
       Agg(AllSlots(grades, before)))

(* get_current_section_historical_analytics *)
CourseAnalytics(grades, sections, section, before) ==
  LET ofName == [name \in Names \cup {NoName} |->
        LET S == InstructorSlots(grades, sections, IdsOf(section.key), name, before)
        IN Aggregate(grades, S, S)]
  IN Analytics(CourseStats(grades, sections, section.key, before), ofName, section)

(* get_instructor_course_historical_outcome_stats: one instructor, looked up by
   name through the ids of the sections *)
InstructorSectionIds(sections, ids, name) ==
  {sections[s].id : s \in {t \in DOMAIN sections :
     /\ sections[t].course \in ids /\ ~sections[t].lab
     /\ \E o \in sections[t].names : o.name = name}}

SlotsOfSections(grades, sections, sectionIds, before) ==
  {s \in DOMAIN grades \cap DOMAIN sections :
     TermOf[s] < before /\ sections[s].id \in sectionIds}

InstructorLookup(grades, sections, key, name, before) ==
  LET S == SlotsOfSections(grades, sections,
             InstructorSectionIds(sections, IdsOf(key), name), before)
  IN InstructorStats(Aggregate(grades, S, S), CourseStats(grades, sections, key, before))

(* get_term_section_historical_analytics, for one section *)
TermAnalytics(evidence, section) ==
  LET ids == IdsOf(section.key)
      counts == [s \in DOMAIN evidence |-> evidence[s].grade]
      Agg(S) == Aggregate(counts, S, EvidenceMapped(evidence))
      courseStats == FallbackStats(
        Agg(EvidenceFor(evidence, ids)),
        Agg(EvidenceFor(evidence, SubjectIds(section.key) \ ids)),
        Agg(DOMAIN evidence))
      ofName == [name \in Names \cup {NoName} |->
        LET S == EvidenceOfInstructor(evidence, ids, name)
        IN Aggregate(counts, S, S)]
  IN Analytics(courseStats, ofName, section)
=============================================================================
