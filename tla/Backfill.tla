------------------------------ MODULE Backfill ------------------------------
(***************************************************************************)
(* The one-off historical backfill (src/easy_a/schedule/backfill.py and    *)
(* backfill_cli.py): dry run, apply, rollback and rebuild of one operator, *)
(* beside the worker's sweeps, the grade import, the ingest of an earlier  *)
(* term and the syllabus import.                                           *)
(*                                                                         *)
(* Only the sweep and the command take the sweep lock.  The command reads  *)
(* grade keys in a first session, fetches pages with no transaction open,  *)
(* and writes, rebuilds and commits in a second one.  Statements read what *)
(* is committed.  A score is abstracted to the grade rows it is computed   *)
(* from: two scores differ when those rows do.                             *)
(***************************************************************************)
EXTENDS Integers, FiniteSets

CONSTANTS
  Terms,          \* earlier terms the command may name
  Slots,          \* (term, CRN) pairs
  TermOf,         \* [Slots -> Terms]
  Keys,           \* course keys on grade rows and pages
  Cataloged,      \* those with a row in courses
  Names, Blank,   \* instructor names on pages, and the empty one
  Usable,         \* names that are neither blank nor Staff
  Lives,          \* sections of the live term
  LiveKey,        \* [Lives -> Keys]
  Campuses,       \* campus labels of the allow-list
  Pages,          \* what USF may answer: sets of [slot, key, name, campus, reads]
  MaxUnmatchedPct,\* --max-unmatched-fraction
  Expects,        \* values tried for --expect-inserted
  MaxForeign      \* bound: writes by others

NoKey == "no grade row"
Unattributed == "unattributed"

ASSUME BackfillAssumption ==
  /\ TermOf \in [Slots -> Terms] /\ LiveKey \in [Lives -> Keys]
  /\ Cataloged \subseteq Keys /\ Keys \cap {NoKey, Unattributed} = {}
  /\ Usable \subseteq Names \ {Blank} /\ Blank \in Names
  /\ \A page \in Pages : \A row \in page :
       row.slot \in Slots /\ row.key \in Keys /\ row.name \in Names
  /\ IsFiniteSet(Slots) /\ MaxUnmatchedPct \in 0..100
  /\ Expects \subseteq Nat /\ MaxForeign \in Nat

VARIABLES
  grades,  \* [Slots -> [key, version]]: the grade row, its counts as a version
  hist,    \* sections of earlier terms: slot |-> [key, name, names, foreign, late, syllabus]
  live,    \* [Lives -> Names]
  stored,  \* [Lives -> score]: section_rankings of the live term
  lock,    \* "free", "sweep" or "command": the sweep advisory lock
  cmd,     \* the running command
  foreign, \* writes by others so far
  calm,    \* no foreign write since the command read its keys, the cache was current then
  settled, \* page and keys of the last apply, if nobody observed its rows since it was fetched
  origin   \* tables before the last apply while nothing else was written since

ghosts == <<calm, settled, origin>>
vars == <<grades, hist, live, stored, lock, cmd, foreign, ghosts>>

NoGrade == [key |-> NoKey, version |-> 0]
Nowhere == "none"
NoExpect == -1

Graded(g) == {s \in Slots : g[s].key # NoKey}

(***************************************************************************)
(* Scores of the live term, and the diff of two sets of scores             *)
(***************************************************************************)
Rows(g, S) == {<<s, g[s].version>> : s \in S}

CourseRows(g, h, k) ==
  Rows(g, {s \in Graded(g) : g[s].key = k \/ (s \in DOMAIN h /\ h[s].key = k)})

OwnRows(g, h, k, name) ==
  Rows(g, {s \in Graded(g) \cap DOMAIN h : h[s].key = k /\ name \in h[s].names})

Score(g, h, k, name) ==
  LET course == CourseRows(g, h, k)
      own == OwnRows(g, h, k, name)
  IN IF course = {} THEN [source |-> "global", rows |-> Rows(g, Graded(g)), own |-> {}]
     ELSE IF name \in Usable /\ own # {}
     THEN [source |-> "instructor_course", rows |-> course, own |-> own]
     ELSE [source |-> "course", rows |-> course, own |-> {}]

Scores(g, h) == [l \in Lives |-> Score(g, h, LiveKey[l], live[l])]

(* diff_score_rows: the sections whose score fields differ.  A score has no
   rounding here, and no live section comes or goes. *)
Changes(before, after) == {l \in Lives : before[l] # after[l]}

(* RankingDiff.course_level_invariant: no score moved that is not an
   instructor's on one of the sides *)
CourseLevelInvariant(before, after) ==
  \A l \in Changes(before, after) :
    "instructor_course" \in {before[l].source, after[l].source}

(* What a dry run reports as code-only parity: the cache is what the code would
   compute now (RankingDiff.identical) *)
CodeOnlyParity == Changes(stored, Scores(grades, hist)) = {}

(***************************************************************************)
(* Selection and guards (pure)                                             *)
(***************************************************************************)
(* Fault: the course of the page's row is not compared with the grade row's *)
BacksGradeAnyCourse(row, keys) ==
  keys[row.slot] \notin {NoKey, Unattributed} /\ row.key \in Cataloged

(* resolve_course_ids *)
Resolved(key) == key \in Cataloged

(* The row's course is the one its grade row names *)
BacksGrade(row, keys) ==
  /\ keys[row.slot] = row.key
  /\ Resolved(row.key)

(* select_backfill_rows *)
Selected(page, keys) ==
  {row \in page : row.campus \in Campuses /\ row.reads /\ BacksGrade(row, keys)}

(* parse_whole_term: rows of an allowed campus that cannot be read are set
   aside, those of any other campus are never read *)
RowFailures(page) == {row \in page : row.campus \in Campuses /\ ~row.reads}

OfTerm(page, t) == {row \in page : TermOf[row.slot] = t}

Unmatched(page, keys, t) ==
  {s \in Slots : TermOf[s] = t /\ keys[s] # NoKey /\ s \notin {row.slot : row \in page}}

Duplicates(rows) == \E r1, r2 \in rows : r1 # r2 /\ r1.slot = r2.slot

(* _guard_failures of one term *)
GuardFailures(page, keys, t) ==
  LET mine == OfTerm(page, t)
      graded == Cardinality({s \in Slots : TermOf[s] = t /\ keys[s] # NoKey})
  IN {f \in {"zero_rows", "unmatched_fraction", "duplicate_crn", "row_normalisation_failures"} :
        \/ f = "zero_rows" /\ mine = {}
        \/ /\ f = "unmatched_fraction" /\ graded > 0
           /\ 100 * Cardinality(Unmatched(mine, keys, t)) > MaxUnmatchedPct * graded
        \/ f = "duplicate_crn" /\ Duplicates(Selected(mine, keys))
        \/ /\ f = "row_normalisation_failures"
           /\ RowFailures(mine) # {}}

(***************************************************************************)
(* The writes                                                              *)
(***************************************************************************)
(* Fault: a blank name is recorded at every run *)
InstructorDiffersOnBlank(section, name) == section.name = Blank \/ name # section.name

(* _instructor_differs: a blank latest state only differs from a name *)
InstructorDiffers(section, name) == name # section.name

NewSection(row) ==
  [key |-> row.key, name |-> row.name, names |-> {row.name},
   foreign |-> FALSE, late |-> FALSE, syllabus |-> FALSE]

(* An older observation never becomes the current name *)
UpdatedSection(section, row) ==
  IF InstructorDiffers(section, row.name)
  THEN [section EXCEPT !.key = row.key, !.names = @ \cup {row.name},
                       !.name = IF section.late THEN @ ELSE row.name]
  ELSE [section EXCEPT !.key = row.key]

RowAt(rows, s) == CHOOSE row \in rows : row.slot = s
SlotsOf(rows) == {row.slot : row \in rows}

(* write_term_backfill of the selected rows *)
Written(h, rows) ==
  [s \in DOMAIN h \cup SlotsOf(rows) |->
     IF s \notin SlotsOf(rows) THEN h[s]
     ELSE IF s \in DOMAIN h THEN UpdatedSection(h[s], RowAt(rows, s))
     ELSE NewSection(RowAt(rows, s))]

Inserts(h, rows) == SlotsOf(rows) \ DOMAIN h

Touched(h, rows) ==
  {s \in SlotsOf(rows) \cap DOMAIN h :
     \/ h[s].key # RowAt(rows, s).key
     \/ InstructorDiffers(h[s], RowAt(rows, s).name)}

(* select_rollback_sections: seen by nobody but the backfill *)
Eligible(h, terms) ==
  {s \in DOMAIN h : TermOf[s] \in terms /\ ~h[s].foreign /\ ~h[s].syllabus}

Without(h, S) == [s \in DOMAIN h \ S |-> h[s]]

(***************************************************************************)
(* The command                                                             *)
(***************************************************************************)
Idle == [pc |-> "idle"]

(* build_parser: one mode, and the options that go with one of them only *)
Arguments == [mode : {"dry_run", "apply", "rollback", "rebuild_only"},
              expect : {NoExpect} \cup Expects, yes : BOOLEAN]

(* _check_mode_arguments lets pass the options the mode knows *)
Modes == {args \in Arguments :
            /\ args.expect # NoExpect => args.mode = "apply"
            /\ args.yes => args.mode = "rollback"}

Writes(mode) == mode \in {"dry_run", "apply"}

(* Arguments accepted, then load_grade_keys and resolve_course_ids in a session
   of their own; the undo modes read nothing *)
Start(args, terms) ==
  /\ cmd.pc = "idle"
  /\ cmd' = [pc |-> IF Writes(args.mode) THEN "fetch" ELSE "lock", args |-> args,
             terms |-> terms, keys |-> [s \in Slots |-> grades[s].key],
             page |-> {}, rows |-> {}, gone |-> {}, before |-> stored, after |-> stored]
  /\ calm' = (/\ CodeOnlyParity
              /\ \A s \in DOMAIN hist : grades[s].key \in {hist[s].key, NoKey})
  /\ UNCHANGED <<grades, hist, live, stored, lock, settled, origin, foreign>>

(* _fetch_terms: one whole-term request per term that was named *)
InTerms(rows) == {row \in rows : TermOf[row.slot] \in cmd.terms}

(* One request per term, then the pure selection and the guards; an apply never
   goes past a failed guard, a dry run only stops at a duplicate *)
Fetch(page) ==
  /\ cmd.pc = "fetch"
  /\ LET failures == UNION {GuardFailures(page, cmd.keys, t) : t \in cmd.terms}
         stops == IF cmd.args.mode = "apply" THEN failures # {} ELSE "duplicate_crn" \in failures
     IN cmd' = IF stops THEN Idle
               ELSE [cmd EXCEPT !.pc = "lock", !.page = InTerms(page),
                                !.rows = Selected(InTerms(page), cmd.keys)]
  /\ hist' = [s \in DOMAIN hist |-> [hist[s] EXCEPT !.late = FALSE]]
  /\ UNCHANGED <<grades, live, stored, lock, ghosts, foreign>>

(* First statement of the second session; a dry run takes no lock *)
TakeLock ==
  /\ cmd.pc = "lock"
  /\ IF cmd.args.mode = "dry_run"
     THEN lock' = lock /\ cmd' = [cmd EXCEPT !.pc = "write", !.before = stored]
     ELSE IF lock # "free"
     THEN lock' = lock /\ cmd' = Idle    \* exit 2, nothing written
     ELSE /\ lock' = "command"
          /\ cmd' = [cmd EXCEPT !.before = stored,
                       !.pc = CASE cmd.args.mode = "apply" -> "write"
                                [] cmd.args.mode = "rollback" -> "select"
                                [] OTHER -> "rebuild"]
  /\ UNCHANGED <<grades, hist, live, stored, ghosts, foreign>>

(* The rows are written, uncommitted *)
Write ==
  /\ cmd.pc = "write"
  /\ cmd' = [cmd EXCEPT !.pc = "rebuild"]
  /\ UNCHANGED <<grades, hist, live, stored, lock, ghosts, foreign>>

SelectRollback ==
  /\ cmd.pc = "select"
  /\ cmd' = [cmd EXCEPT !.pc = "delete", !.gone = Eligible(hist, cmd.terms)]
  /\ UNCHANGED <<grades, hist, live, stored, lock, ghosts, foreign>>

(* Fault: the lock outlives the command *)
EndedHolding == cmd' = Idle /\ lock' = lock

Ended == /\ cmd' = Idle
         /\ lock' = IF lock = "command" THEN "free" ELSE lock

(* delete_backfilled_sections: a syllabus that came meanwhile makes it fail *)
Delete ==
  /\ cmd.pc = "delete"
  /\ IF \E s \in cmd.gone : hist[s].syllabus
     THEN Ended
     ELSE cmd' = [cmd EXCEPT !.pc = "rebuild"] /\ lock' = lock
  /\ UNCHANGED <<grades, hist, live, stored, ghosts, foreign>>

(* What the command's transaction sees *)
View == Without(Written(hist, cmd.rows), cmd.gone)

(* Fault: the cache is rebuilt from what was there before the writes *)
RebuildBeforeWrites ==
  /\ cmd.pc = "rebuild"
  /\ cmd' = [cmd EXCEPT !.pc = "rebuilt", !.after = Scores(grades, hist)]
  /\ UNCHANGED <<grades, hist, live, stored, lock, foreign, ghosts>>

Rebuild ==
  /\ cmd.pc = "rebuild"
  /\ cmd' = [cmd EXCEPT !.pc = "rebuilt", !.after = Scores(grades, View)]
  /\ UNCHANGED <<grades, hist, live, stored, lock, ghosts, foreign>>

(* Applied.gate_failures *)
GateFailures ==
  {f \in {"course_level_invariant", "expect_inserted"} :
     /\ cmd.args.mode = "apply"
     /\ \/ f = "course_level_invariant" /\ ~CourseLevelInvariant(cmd.before, cmd.after)
        \/ /\ f = "expect_inserted" /\ cmd.args.expect # NoExpect
           /\ cmd.args.expect # Cardinality(Inserts(hist, cmd.rows))}

Commits ==
  CASE cmd.args.mode = "apply" -> GateFailures = {}
    [] cmd.args.mode = "rollback" -> cmd.args.yes
    [] cmd.args.mode = "rebuild_only" -> TRUE
    [] OTHER -> FALSE

(* An ingest observed one of the rows after the page was fetched *)
Overtaken == \E s \in SlotsOf(cmd.rows) \cap DOMAIN hist : hist[s].late

(* What the selection depends on *)
Question == <<cmd.page, cmd.keys>>

Finish ==
  /\ cmd.pc = "rebuilt"
  /\ IF Commits
     THEN /\ hist' = View /\ stored' = cmd.after
          /\ settled' = CASE cmd.args.mode = "apply" -> IF Overtaken THEN <<>> ELSE Question
                          [] cmd.args.mode = "rebuild_only" -> settled
                          [] OTHER -> <<>>
          /\ origin' = IF /\ cmd.args.mode = "apply" /\ calm
                          /\ Eligible(hist, Terms) = {} /\ Touched(hist, cmd.rows) = {}
                       THEN [hist |-> hist, stored |-> stored]
                       ELSE Idle
     ELSE UNCHANGED <<hist, stored, settled, origin>>
  /\ Ended
  /\ UNCHANGED <<grades, live, calm, foreign>>

(* A request or a statement fails, or the process dies: everything rolls back *)
Fail ==
  /\ cmd.pc # "idle"
  /\ Ended
  /\ UNCHANGED <<grades, hist, live, stored, ghosts, foreign>>

(***************************************************************************)
(* The other writers                                                       *)
(***************************************************************************)
Disturbed ==
  /\ foreign < MaxForeign /\ foreign' = foreign + 1
  /\ calm' = FALSE /\ settled' = <<>> /\ origin' = Idle

(* One row of a grade import: inserted, or corrected in place *)
ImportGrade(s, key) ==
  /\ LET version == IF grades[s].key = NoKey THEN 0 ELSE 1 - grades[s].version
     IN grades' = [grades EXCEPT ![s] = [key |-> key, version |-> version]]
  /\ Disturbed
  /\ UNCHANGED <<hist, live, stored, lock, cmd>>

(* Rows the command's transaction has written or deleted make others wait *)
RowLocked(s) ==
  \/ cmd.pc \in {"rebuild", "rebuilt"} /\ s \in SlotsOf(cmd.rows) \cup cmd.gone

(* ingest_schedule_html for an earlier term: an instructor row and a snapshot *)
IngestEarlier(s, key, name) ==
  /\ ~RowLocked(s)
  /\ LET known == s \in DOMAIN hist
         row == [key |-> key, name |-> name, foreign |-> TRUE, late |-> TRUE,
                 names |-> {name} \cup IF known THEN hist[s].names ELSE {},
                 syllabus |-> known /\ hist[s].syllabus]
     IN hist' = [t \in DOMAIN hist \cup {s} |-> IF t = s THEN row ELSE hist[t]]
  /\ Disturbed
  /\ UNCHANGED <<grades, live, stored, lock, cmd>>

ImportSyllabus(s) ==
  /\ s \in DOMAIN hist /\ ~hist[s].syllabus
  /\ cmd.pc \in {"rebuild", "rebuilt"} => s \notin cmd.gone
  /\ hist' = [hist EXCEPT ![s].syllabus = TRUE]
  /\ Disturbed
  /\ UNCHANGED <<grades, live, stored, lock, cmd>>

BeginSweep ==
  /\ lock = "free"
  /\ lock' = "sweep"
  /\ UNCHANGED <<grades, hist, live, stored, cmd, foreign, ghosts>>

(* A sweep rebuilds the course whose section it changed, or changes nothing *)
EndSweep(l, name) ==
  /\ lock = "sweep"
  /\ lock' = "free"
  /\ live' = [live EXCEPT ![l] = name]
  /\ stored' = [m \in Lives |->
       IF name # live[l] /\ LiveKey[m] = LiveKey[l]
       THEN Score(grades, hist, LiveKey[m], live'[m]) ELSE stored[m]]
  /\ origin' = IF name # live[l] THEN Idle ELSE origin
  /\ UNCHANGED <<grades, hist, cmd, foreign, calm, settled>>

(***************************************************************************)
Init ==
  /\ grades \in [Slots -> [key : Keys \cup {NoKey, Unattributed}, version : {0}]]
  /\ hist = [s \in {} |-> Idle]
  /\ live \in [Lives -> Names]
  /\ stored = Scores(grades, hist)
  /\ lock = "free" /\ cmd = Idle
  /\ foreign = 0 /\ calm = FALSE /\ settled = <<>> /\ origin = Idle

Next ==
  \/ \E args \in Modes, terms \in SUBSET Terms \ {{}} : Start(args, terms)
  \/ \E page \in Pages : Fetch(page)
  \/ TakeLock
  \/ Write
  \/ SelectRollback
  \/ Delete
  \/ Rebuild
  \/ Finish
  \/ Fail
  \/ \E s \in Slots, key \in Keys \cup {Unattributed} : ImportGrade(s, key)
  \/ \E s \in Slots, key \in Keys, name \in Names : IngestEarlier(s, key, name)
  \/ \E s \in Slots : ImportSyllabus(s)
  \/ BeginSweep
  \/ \E l \in Lives, name \in Names : EndSweep(l, name)

Spec == Init /\ [][Next]_vars

(***************************************************************************)
(* Properties                                                              *)
(***************************************************************************)
(* Types: scores cite graded slots, the lock is the command's exactly while a
   mode that takes it is inside its transaction. *)
BackfillTypeOK ==
  /\ DOMAIN hist \subseteq Slots
  /\ \A s \in DOMAIN hist : hist[s].name \in hist[s].names /\ hist[s].names \subseteq Names
  /\ \A l \in Lives : \A r \in stored[l].rows \cup stored[l].own : r[1] \in Graded(grades)
  /\ lock = "command" <=>
       /\ cmd.pc \in {"write", "select", "delete", "rebuild", "rebuilt"}
       /\ cmd.args.mode # "dry_run"

(* The course-level gate of an apply only stops what others changed: with a
   cache that was current when the keys were read and no foreign write since,
   adding sections that back grade rows moves no course-level score. *)
GateStopsOnlyForeignChange ==
  cmd.pc = "rebuilt" /\ calm => "course_level_invariant" \notin GateFailures

(* An apply of a page and grade keys that were just applied inserts, updates
   and appends nothing, whatever names and courses the page has. *)
SecondApplyIsIdle ==
  cmd.pc \in {"write", "rebuild", "rebuilt"} /\ settled = Question =>
    Inserts(hist, cmd.rows) = {} /\ Touched(hist, cmd.rows) = {}

(* A committed rollback of every term undoes an apply that found no backfilled
   section and only inserted: sections and cached scores are again those from
   before it. *)
RollbackUndoesApply ==
  [][/\ Finish /\ hist' # hist /\ origin # Idle
     /\ cmd.args.mode = "rollback" /\ cmd.terms = Terms
     => hist' = origin.hist /\ stored' = origin.stored]_vars

(* A rollback keeps every section that carries a snapshot or an instructor row
   of another source. *)
RollbackSparesObserved ==
  [][\A s \in DOMAIN hist \ DOMAIN hist' : ~hist[s].foreign]_vars
=============================================================================
