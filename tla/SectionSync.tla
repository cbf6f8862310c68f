---------------------------- MODULE SectionSync ----------------------------
(***************************************************************************)
(* What a sweep reads and writes for one term (src/easy_a/sync/sweep.py,   *)
(* plan.py, apply.py), with the writers it meets: other sweeps and         *)
(* --restore-crn under the sweep lock, and the narrow ingest of            *)
(* refresh_data, which takes no lock.  A section's columns are abstracted  *)
(* to its details (every non-seat column), its seats, and its current      *)
(* instructor; statements run at READ COMMITTED.                           *)
(***************************************************************************)
EXTENDS SweepGate, WholeTerm

CONSTANTS
  Crns,           \* course reference numbers: the identity of a section
  Rows,           \* the rows USF may list: [course, details, name, seats]
  Courses,        \* course keys (subject, number)
  Undergraduate,  \* the courses in scope: undergraduate, Tampa
  Cataloged,      \* the courses the catalog is loaded with at the start
  SubjectOf,      \* the subject of each course
  Workers,        \* worker loops, which keep a SweepStateCache
  OnceOps,        \* --once operators, which keep none
  OperatorGates,  \* the gate overrides operators pass
  MaxChanges,     \* bound: changes of the USF listing
  MaxSweeps,      \* bound: sweeps begun
  MaxRestores,    \* bound: --restore-crn runs
  MaxIngests      \* bound: narrow ingests

ASSUME SyncAssumption ==
  /\ Rows \subseteq [course : Courses, details : Nat, name : Nat, seats : Nat]
  /\ Undergraduate \subseteq Courses /\ Cataloged \subseteq Courses
  /\ Courses \subseteq DOMAIN SubjectOf
  /\ Workers \cap OnceOps = {}
  /\ OperatorGates \subseteq Overrides
  /\ IsFiniteSet(Crns)

Sweepers == Workers \cup OnceOps

VARIABLES
  usf,          \* the listing USF would return now
  sections,     \* the term's section rows with their latest observations
  observations, \* instructor and snapshot rows written so far
  courses,      \* the course keys of the catalog
  ranked,       \* section_rankings
  lastSuccess,  \* records_seen of the latest succeeded IngestRun
  txn,          \* the sweep transaction holding the lock, or NoTxn
  cache,        \* each worker's SweepStateCache._state, or NoState
  outcome,      \* the status of the sweep that ended last
  ingest,       \* the refresh_data run in progress, or NoIngest
  clock,        \* observation times
  spent         \* how often each bounded step has happened

syncVars == <<usf, sections, observations, courses, ranked, lastSuccess, txn,
              cache, outcome, ingest, clock, spent>>

Unlisted == [listed |-> FALSE]
Absent == [present |-> FALSE]
Unranked == [ranked |-> FALSE]
NoTxn == [open |-> FALSE]
NoState == [kept |-> FALSE]
NoIngest == [stage |-> "none"]

Bound == [change |-> MaxChanges, sweep |-> MaxSweeps,
          restore |-> MaxRestores, ingest |-> MaxIngests]
Spend(kind) == /\ spent[kind] < Bound[kind]
               /\ spent' = [spent EXCEPT ![kind] = @ + 1]

Present == {c \in Crns : sections[c] # Absent}
Active == {c \in Present : ~sections[c].removed}

---------------------------------------------------------------------------
(* What the diff sees of the database *)

(* _section_records, current instructor and latest snapshot of one section *)
Seen(s) == [course |-> s.course, removed |-> s.removed, details |-> s.details,
            seats |-> s.seats, name |-> s.name, snapshot |-> s.snapshot]

TermSections ==
  [c \in Crns |-> IF sections[c] = Absent THEN Absent ELSE Seen(sections[c])]

(* term_fingerprint of a table with the given number of observation rows; ids
   only grow with the counts, so the maxima add nothing *)
FingerprintOf(table, written) ==
  LET present == {c \in Crns : table[c] # Absent}
  IN  <<Cardinality(present),
        Cardinality({c \in present : table[c].removed}),
        written.names, written.snapshots>>

TermFingerprint == FingerprintOf(sections, observations)

(* _reload_sections: the state a worker keeps after writing the given ids *)
Reloaded(known, ids, table, written) ==
  [kept |-> TRUE,
   known |-> [c \in Crns |-> IF c \in ids THEN Seen(table[c]) ELSE known[c]],
   fingerprint |-> FingerprintOf(table, written)]

---------------------------------------------------------------------------
(* apply_scope and build_sweep_plan, over a page and the known sections *)

InScope(page) ==
  {c \in Crns : page[c] # Unlisted /\ page[c].course \in Undergraduate}

(* Fault: the courses the adder found are not added to the state's course ids *)
InsertsOfOldCourses(page, known, catalog) ==
  {c \in InScope(page) : known[c] = Absent /\ page[c].course \in courses}

Inserts(page, known, catalog) ==
  {c \in InScope(page) : known[c] = Absent /\ page[c].course \in catalog}

Matched(page, known) == {c \in InScope(page) : known[c] # Absent}

DetailUpdates(page, known) ==
  {c \in Matched(page, known) : known[c].details # page[c].details}

SeatUpdates(page, known) ==
  {c \in Matched(page, known) : known[c].seats # page[c].seats}

Restores(page, known) == {c \in Matched(page, known) : known[c].removed}

(* Fault: any changed detail appends the instructor again *)
NameAppendsOnEdit(page, known) ==
  {c \in Matched(page, known) : \/ known[c].name # page[c].name
                                \/ known[c].details # page[c].details}

(* _instructor_changed, names being compared after normalization *)
NameAppends(page, known) ==
  {c \in Matched(page, known) : known[c].name # page[c].name}

(* Fault: the seats are compared with the section, not its last snapshot *)
SnapshotAppendsOnSeats(page, known) ==
  {c \in Matched(page, known) : known[c].seats # page[c].seats}

SnapshotAppends(page, known) ==
  {c \in Matched(page, known) : known[c].snapshot # page[c].seats}

(* Fault: the removal mark is not tested *)
EverInScope(known) ==
  {c \in Crns : known[c] # Absent /\ known[c].course \in Undergraduate}

ActiveInScope(known) ==
  {c \in Crns : /\ known[c] # Absent
                /\ known[c].course \in Undergraduate
                /\ ~known[c].removed}

Removals(page, known) == ActiveInScope(known) \ InScope(page)

NewCourses(page, known, catalog) ==
  {page[c].course : c \in {d \in InScope(page) : known[d] = Absent}} \ catalog

(* Fault: a detail update does not rebuild the ranking *)
StructuralButDetails(page, known, catalog) ==
  UNION {Inserts(page, known, catalog), Removals(page, known),
         Restores(page, known), NameAppends(page, known)}

(* The sections of a plan whose cached ranking can have changed
   (structural_change and the ids of _changed_course_keys) *)
Structural(page, known, catalog) ==
  UNION {Inserts(page, known, catalog), Removals(page, known),
         Restores(page, known), NameAppends(page, known),
         DetailUpdates(page, known)}

(* Fault: seat writes are not handed to the cache *)
TouchedStructural(page, known, catalog) == Structural(page, known, catalog)

(* The ids apply_sweep_plan returns *)
Touched(page, known, catalog) ==
  UNION {Structural(page, known, catalog), SeatUpdates(page, known),
         SnapshotAppends(page, known)}

(* What load_db_state answers the gate: of the known sections and the latest
   succeeded sweep *)
DbState(known, lastRows) ==
  [active      |-> Cardinality(ActiveInScope(known)),
   dbSubjects  |-> {SubjectOf[known[c].course] : c \in ActiveInScope(known)},
   lastSuccess |-> lastRows]

GateInput(page, known, lastRows) ==
  LET db == DbState(known, lastRows)
  IN  [rows        |-> Cardinality(InScope(page)),
       missing     |-> Cardinality(Removals(page, known)),
       subjects    |-> {SubjectOf[page[c].course] : c \in InScope(page)},
       active      |-> db.active,
       dbSubjects  |-> db.dbSubjects,
       lastSuccess |-> db.lastSuccess]

---------------------------------------------------------------------------
(* apply_sweep_plan *)

NewSection(row, at) ==
  [course |-> row.course, removed |-> FALSE, details |-> row.details,
   seats |-> row.seats, name |-> row.name, nameAt |-> at,
   snapshot |-> row.seats, snapshotAt |-> at]

(* An appended observation is the current one unless a later one exists *)
ObserveName(s, row, at) ==
  IF at >= s.nameAt THEN [s EXCEPT !.name = row.name, !.nameAt = at] ELSE s

ObserveSeats(s, row, at) ==
  IF at >= s.snapshotAt
  THEN [s EXCEPT !.snapshot = row.seats, !.snapshotAt = at]
  ELSE s

(* The writes of a plan to one section it matched: only the columns the diff
   found changed are written *)
Update(c, page, known, at) ==
  LET row == page[c]
      named == IF c \in NameAppends(page, known)
               THEN ObserveName(sections[c], row, at) ELSE sections[c]
      observed == IF c \in SnapshotAppends(page, known)
                  THEN ObserveSeats(named, row, at) ELSE named
  IN  [observed EXCEPT
         !.details = IF c \in DetailUpdates(page, known) THEN row.details ELSE @,
         !.seats   = IF c \in SeatUpdates(page, known) THEN row.seats ELSE @,
         !.removed = IF c \in Restores(page, known) THEN FALSE ELSE @]

Applied(page, known, catalog, at) ==
  [c \in Crns |->
     CASE c \in Inserts(page, known, catalog) -> NewSection(page[c], at)
       [] c \in Matched(page, known) -> Update(c, page, known, at)
       [] c \in Removals(page, known) -> [sections[c] EXCEPT !.removed = TRUE]
       [] OTHER -> sections[c]]

(* The fields of a ranking row that come from the section *)
RankingOf(s) == [course |-> s.course, details |-> s.details, name |-> s.name]

(* refresh_section_rankings over the courses in scope: a row for each active
   section, none for a removed one *)
Reranked(table, rankings, scope) ==
  [c \in Crns |->
     IF table[c] # Absent /\ table[c].course \in scope
     THEN IF table[c].removed THEN Unranked ELSE RankingOf(table[c])
     ELSE rankings[c]]
---------------------------------------------------------------------------
(* run_sweep *)

Init ==
  /\ usf \in [Crns -> Rows \cup {Unlisted}]
  /\ sections = [c \in Crns |-> Absent]
  /\ observations = [names |-> 0, snapshots |-> 0]
  /\ courses = Cataloged
  /\ ranked = [c \in Crns |-> Unranked]
  /\ lastSuccess = NoSuccess
  /\ txn = NoTxn
  /\ cache = [w \in Workers |-> NoState]
  /\ outcome = "none"
  /\ ingest = NoIngest
  /\ clock = 0
  /\ spent = [kind \in DOMAIN Bound |-> 0]

(* USF adds, drops or edits one section *)
ListingChanges(c, row) ==
  /\ usf[c] # row
  /\ Spend("change")
  /\ usf' = [usf EXCEPT ![c] = row]
  /\ UNCHANGED <<sections, observations, courses, ranked, lastSuccess, txn,
                 cache, outcome, ingest, clock>>

(* The lock is taken and the whole term fetched, before any read *)
BeginSweep(p, override) ==
  /\ txn = NoTxn
  /\ override # NoOverride => p \in OnceOps
  /\ Spend("sweep")
  /\ clock' = clock + 1
  /\ txn' = [open |-> TRUE, by |-> p, override |-> override, phase |-> "load",
             page |-> usf, at |-> clock', known |-> <<>>, fingerprint |-> <<>>]
  /\ UNCHANGED <<usf, sections, observations, courses, ranked, lastSuccess,
                 cache, outcome, ingest>>

(* SweepStateCache.load when the kept state still fits *)
ReuseState ==
  /\ txn.open /\ txn.phase = "load"
  /\ txn.by \in Workers
  /\ cache[txn.by] # NoState
  /\ cache[txn.by].fingerprint = TermFingerprint
  /\ txn' = [txn EXCEPT !.phase = "plan",
                        !.known = cache[txn.by].known,
                        !.fingerprint = cache[txn.by].fingerprint]
  /\ UNCHANGED <<usf, sections, observations, courses, ranked, lastSuccess,
                 cache, outcome, ingest, clock, spent>>

(* _load_term_sections: for a --once sweep, for a state that no longer fits,
   and for one that has reached max_age_seconds, which may be at any time *)
LoadSections ==
  /\ txn.open /\ txn.phase = "load"
  /\ txn' = [txn EXCEPT !.phase = "fingerprint", !.known = TermSections]
  /\ cache' = IF txn.by \in Workers
              THEN [cache EXCEPT ![txn.by] = NoState]
              ELSE cache
  /\ UNCHANGED <<usf, sections, observations, courses, ranked, lastSuccess,
                 outcome, ingest, clock, spent>>

(* Its last statements, after the rows have been read *)
LoadFingerprint ==
  /\ txn.open /\ txn.phase = "fingerprint"
  /\ txn' = [txn EXCEPT !.phase = "plan", !.fingerprint = TermFingerprint]
  /\ UNCHANGED <<usf, sections, observations, courses, ranked, lastSuccess,
                 cache, outcome, ingest, clock, spent>>

GateOpen ==
  GatePasses(GateInput(txn.page, txn.known, lastSuccess), txn.override)

(* Gate, course adder, plan, apply and commit.  The writes lock every listed
   row, so no other writer of them is in between.  added are the new courses
   the adder found in the catalog. *)
CommitSweep(added) ==
  LET catalog == courses \cup added
      page == txn.page
      known == txn.known
      inserts == Inserts(page, known, catalog)
      table == Applied(page, known, catalog, txn.at)
      scope == {table[c].course : c \in Structural(page, known, catalog)}
      written == [names |-> observations.names + Cardinality(inserts)
                              + Cardinality(NameAppends(page, known)),
                  snapshots |-> observations.snapshots + Cardinality(inserts)
                              + Cardinality(SnapshotAppends(page, known))]
      kept == Reloaded(known, Touched(page, known, catalog), table, written)
  IN  /\ txn.open /\ txn.phase = "plan"
      /\ GateOpen
      /\ added \subseteq NewCourses(page, known, courses)
      /\ inserts \cap Present = {}
      /\ courses' = catalog
      /\ sections' = table
      /\ observations' = written
      /\ ranked' = Reranked(table,
                            [c \in Crns |-> IF c \in Removals(page, known)
                                            THEN Unranked ELSE ranked[c]],
                            scope)
      /\ lastSuccess' = Cardinality(InScope(page))
      /\ cache' = IF txn.by \in Workers
                  THEN [cache EXCEPT ![txn.by] = kept]
                  ELSE cache
      /\ txn' = NoTxn
      /\ outcome' = "succeeded"
      /\ UNCHANGED <<usf, ingest, clock, spent>>

(* Any exception: a refused gate, an insert of a CRN that exists by now, a
   failed fetch or statement.  Everything rolls back and the cache is dropped *)
AbortSweep ==
  /\ txn.open
  /\ txn' = NoTxn
  /\ cache' = IF txn.by \in Workers
              THEN [cache EXCEPT ![txn.by] = NoState]
              ELSE cache
  /\ outcome' = "failed"
  /\ UNCHANGED <<usf, sections, observations, courses, ranked, lastSuccess,
                 ingest, clock, spent>>

---------------------------------------------------------------------------
(* The other writers *)

(* _restore_crns, under the same lock; a whole-term rebuild follows *)
RestoreCrns(requested) ==
  LET restorable == {c \in requested \cap Present : sections[c].removed}
      table == [c \in Crns |-> IF c \in restorable
                               THEN [sections[c] EXCEPT !.removed = FALSE]
                               ELSE sections[c]]
  IN  /\ txn = NoTxn
      /\ restorable # {}
      /\ Spend("restore")
      /\ sections' = table
      /\ ranked' = Reranked(table, ranked, Courses)
      /\ UNCHANGED <<usf, observations, courses, lastSuccess, txn, cache,
                     outcome, ingest, clock>>

(* refresh_data: the observation time is taken first, then the schedule stage
   requests its rows *)
BeginIngest ==
  /\ ingest = NoIngest
  /\ Spend("ingest")
  /\ clock' = clock + 1
  /\ ingest' = [stage |-> "fetch", at |-> clock']
  /\ UNCHANGED <<usf, sections, observations, courses, ranked, lastSuccess,
                 txn, cache, outcome>>

FetchIngest(crns) ==
  /\ ingest.stage = "fetch"
  /\ crns # {} /\ \A c \in crns : usf[c] # Unlisted
  /\ ingest' = [stage |-> "write", at |-> ingest.at,
                rows |-> [c \in crns |-> usf[c]]]
  /\ UNCHANGED <<usf, sections, observations, courses, ranked, lastSuccess,
                 txn, cache, outcome, clock, spent>>

(* _update_section sets every column, clears the removal mark and always
   appends both observations *)
Overwritten(s, row, at) ==
  [ObserveSeats(ObserveName(s, row, at), row, at) EXCEPT
     !.course = row.course, !.details = row.details, !.seats = row.seats,
     !.removed = FALSE]

(* _upsert_sections in one transaction; a row of an unknown course fails it *)
WriteIngest ==
  /\ ingest.stage = "write"
  /\ LET rows == ingest.rows
          crns == DOMAIN rows
     IN  /\ \A c \in crns : rows[c].course \in courses
         /\ sections' =
              [c \in Crns |->
                 IF c \notin crns THEN sections[c]
                 ELSE IF sections[c] = Absent THEN NewSection(rows[c], ingest.at)
                 ELSE Overwritten(sections[c], rows[c], ingest.at)]
         /\ observations' =
              [names     |-> observations.names + Cardinality(crns),
               snapshots |-> observations.snapshots + Cardinality(crns)]
  /\ ingest' = [stage |-> "rank"]
  /\ UNCHANGED <<usf, courses, ranked, lastSuccess, txn, cache, outcome,
                 clock, spent>>

(* The "rankings cache" stage, the last of refresh_data *)
RankIngest ==
  /\ ingest.stage = "rank"
  /\ ranked' = Reranked(sections, ranked, Courses)
  /\ ingest' = NoIngest
  /\ UNCHANGED <<usf, sections, observations, courses, lastSuccess, txn, cache,
                 outcome, clock, spent>>

(* A stage fails: RefreshStageError ends the run, earlier stages stay *)
FailIngest ==
  /\ ingest # NoIngest
  /\ ingest' = NoIngest
  /\ UNCHANGED <<usf, sections, observations, courses, ranked, lastSuccess,
                 txn, cache, outcome, clock, spent>>

---------------------------------------------------------------------------

SweepProgress ==
  \/ ReuseState \/ LoadSections \/ LoadFingerprint
  \/ \E added \in SUBSET Courses : CommitSweep(added)
  \/ AbortSweep

IngestProgress ==
  \/ \E crns \in SUBSET Crns : FetchIngest(crns)
  \/ WriteIngest \/ RankIngest \/ FailIngest

(* Nothing is left to do within the bounds *)
Idle == txn = NoTxn /\ ingest = NoIngest /\ UNCHANGED syncVars

Next ==
  \/ \E c \in Crns, row \in Rows \cup {Unlisted} : ListingChanges(c, row)
  \/ \E p \in Sweepers, override \in OperatorGates \cup {NoOverride} :
       BeginSweep(p, override)
  \/ SweepProgress
  \/ \E requested \in SUBSET Crns : RestoreCrns(requested)
  \/ BeginIngest
  \/ IngestProgress
  \/ Idle

Spec == Init /\ [][Next]_syncVars

---------------------------------------------------------------------------
(* Properties *)

Commits == txn.open /\ outcome' = "succeeded" /\ txn' = NoTxn

(* Every listed section of a cataloged course is in the table, live, with the
   page's columns, instructor and seats, and no other section in scope is live.
   The course itself is that of the insert: a sweep never moves a section. *)
Mirrors(table, page, catalog) ==
  \A c \in Crns :
    LET s == table[c]
        row == page[c]
    IN  IF c \in InScope(page)
        THEN IF s = Absent
             THEN row.course \notin catalog
             ELSE /\ ~s.removed
                  /\ s.details = row.details /\ s.name = row.name
                  /\ s.seats = row.seats /\ s.snapshot = row.seats
        ELSE s # Absent /\ s.course \in Undergraduate => s.removed

(* The row guard of parse_whole_term (sync/fetch.py:158), which every sweep has passed:
   a damaged page is parsed whole or refused; a refusal names each data row that does
   not parse to one row, wherever the chunks are cut, and the opt-in modes of the
   backfill lose no row either.  Pages with two rows in one block are left out: such a
   block makes up for a row lost elsewhere. *)
WholeOrRefused == txn # NoTxn => GuardIsSound

(* What a committed sweep leaves behind is the page it fetched.  This is what
   change-only writes computed from a kept state must add up to. *)
MirrorsPage == [][Commits => Mirrors(sections', txn.page, courses')]_syncVars

(* Whatever a narrow ingest left, also one that wrote an older listing or lost
   a race, the next sweep that reads the database afresh and is not itself
   overtaken brings the term back to its page. *)
FreshSweepRepairs ==
  [][Commits /\ txn.known = TermSections
       /\ (\A c \in Present : /\ sections[c].nameAt <= txn.at
                              /\ sections[c].snapshotAt <= txn.at)
       => Mirrors(sections', txn.page, courses')]_syncVars

(* A kept state whose fingerprint still fits is the database: restores beside the
   worker, its own sweeps and its failed ones leave nothing unseen.  With a --once
   sweep or a narrow ingest beside the worker counts and maxima are not enough, and
   no run claims it. *)
KeptStateIsCurrent ==
  \A w \in Workers :
    cache[w] # NoState /\ cache[w].fingerprint = TermFingerprint
      => cache[w].known = TermSections

(* Search serves exactly the live sections, with their current columns and
   instructor, although each sweep rebuilds only the courses it touched. *)
RankingsMatchSections ==
  \A c \in Crns :
    ranked[c] = IF c \in Active THEN RankingOf(sections[c]) ELSE Unranked

(* Without an operator's override no sweep marks more than MaxMissing percent
   of the live sections in scope removed, however short its page. *)
RemovalsBounded ==
  [][Commits /\ txn.override = NoOverride =>
       LET scope == {c \in Active : sections[c].course \in Undergraduate}
       IN  100 * Cardinality({c \in scope : sections'[c].removed})
             <= MaxMissing * Cardinality(scope)]_syncVars

(* A page that was let in once, by whatever override, needs none the next time:
   with its sweep as the baseline the default gate accepts it again, so the
   worker that is resumed after an operator's run does not stay refused.  (The
   sweep is one that no narrow ingest overtook.) *)
CommittedPageIsAccepted ==
  [][Commits /\ txn.known = TermSections =>
       GatePasses(GateInput(txn.page, TermSections', lastSuccess'),
                  NoOverride)]_syncVars

(* Step 5 of the runbook's gate refusal (docs/runbooks/hosted-beta-operations.md:94)
   works: the override it has the operator choose for the page USF returns now
   clears both size rules, whichever refused it, although above the default it
   moves the row floor too (gate_thresholds, sync/gate.py:56). *)
RecipeWorks == ChosenOverrideClears(GateInput(usf, TermSections, lastSuccess))

(* Only a change is written: a sweep appends an observation to a section only
   if it differs from the one it supersedes. *)
AppendsAreChanges ==
  [][Commits =>
       \A c \in Present :
         /\ sections'[c].nameAt # sections[c].nameAt
              => sections'[c].name # sections[c].name
         /\ sections'[c].snapshotAt # sections[c].snapshotAt
              => sections'[c].snapshot # sections[c].snapshot]_syncVars
=============================================================================
