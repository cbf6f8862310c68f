# Easy-A in TLA+

Easy-A ranks the sections of a USF term by how favourably their instructors and
courses were graded in the past. A background *sync worker* keeps one term of a
hosted database equal to USF's public schedule; a FastAPI service answers
searches from tables that the worker keeps current, and a web client pages through
them; operators run imports, backfills, cleanups and one-off sweeps beside it. There
is no test that runs two of these writers against each other, that lets a sweep die
half-way, that crosses a registration window with a jittered clock, or that turns the
page while a search still loads. Those are the behaviours modelled here.

Paths are relative to the repository, which is mounted as `src/`; the Python
package is therefore `src/src/easy_a/`. `PROJECT.json` is the index: which
definition stands for which lines, which run checks which property, which
theorem proves it, and which fault each property is able to detect.

## 1. Inventory

| Component | State | Operations | Where it is hard | What makes it correct |
| --- | --- | --- | --- | --- |
| Cadence rules (`sync/windows.py`) | the calendar of registration windows (pure) | `contains`, `interval_for`, `next_start`, `seat_thresholds`, `backoff_seconds` | four rules interact: jitter, backoff, the hourly rule outside windows, the pull-back to an opening | a start keeps the floor of the tier it falls in; an opening is not slept through; healthy data is never reported late |
| Worker loop, lock, command line (`sync/runner.py`, `cli.py`, `lock.py`) | `last_start`, failure count, stop event per process; advisory lock and `IngestRun` rows in the database | launch, plan, sleep, sweep, record, `--once`, `--dry-run`, `--restore-crn`, SIGTERM | restarts, kills, overlapping deploys, failure records in their own transaction, floor tested outside the lock | one sweep in flight; the floor between sweeps; a stop ends the worker |
| Sweep gate (`sync/gate.py`) | none (pure) | `gate_thresholds`, `evaluate_gate` | one operator fraction sets three thresholds, with a jump above the default | overrides only loosen; a short page cannot remove the term |
| Sweep (`sync/sweep.py`, `scope.py`, `plan.py`, `apply.py`) | section rows, observations, catalog, rankings; the worker's `SweepStateCache` | lock, fetch, load or reuse state, gate, add courses, plan, apply, commit | READ COMMITTED statements, a kept state validated by counts, writers without the lock, CRNs that vanish and return | the database equals the page; rankings equal the sections; the kept state equals the database |
| Course adder (`sync/courses.py`) | `_failed_at` in the process | `add_missing` | the negative cache outlives rollbacks; cap and cache interact | no crawling; every new course gets its turn |
| Whole-term fetch and parse (`sync/fetch.py`, `parse_diagnostics.py`, `schedule/parser.py`, `normalize.py`) | none (pure) | one POST, chunked parse with a guard on the row count, diagnostics of a refusal, the backfill's gate and quarantine | the parser drops damaged rows silently; chunks are counted in blocks, positions in data rows | a page is parsed whole or refused, and a refusal names the rows |
| Schedule ingest and refresh (`schedule/ingest.py`, `refresh/service.py`) | the same tables, one transaction per stage | `ingest_schedule`, `refresh_data` stages | takes no sweep lock; stages commit separately | what it leaves is repaired by the next sweep |
| Rankings cache (`rankings/`) | `section_rankings` rows | `refresh_section_rankings` per course or term | rebuilt for touched courses only | a row for each live section, equal to it |
| Historical analytics (`analytics/`) | `GradeEvidenceCache` | evidence load, fallback chain, scores, confidence, breakdown by instructor | a fingerprint of counts and sums stands for the rows; three separate computations of one score | kept evidence has the tables' rows; the three agree |
| Seat freshness (`schedule/freshness.py`) | `last_seen_at` | fresh / delayed / stale labels | the label spans a change of tier; two writers set the time | no false alarm while the worker is healthy; fresh seats were listed |
| Instructor state (`common/instructors.py`) | instructor observations | latest name, ambiguity, comparison after normalization | observations of two writers in either order | one current name wherever it is shown |
| Backfill (`schedule/backfill*.py`) | sections of five historical terms | dry run, apply, rollback, rebuild | keys, pages and writes are read in separate transactions; imports take no lock | a rollback undoes an apply and nothing else; the gate stops only what others changed |
| Cleanup, coverage (`refresh/cleanup.py`, `coverage.py`) | deletes of other campuses' sections | preview, apply | verifies global identities while others write | nothing but sections of other campuses disappears |
| Grade, catalog imports (`grades/`, `catalog/`) | their tables | upserts | they commit between the statements of the others | references stay whole |
| Syllabi and signals (`syllabi/`, `signals/`) | syllabus documents | upsert, choice of the best text, matching of abbreviated instructors, rules | documents move between sections, names are abbreviated | signals come from the best text there is |
| Response cache (`api/response_cache.py`) | `_entries` in use order, `_bytes` | get, put, evict, the middleware | requests of one key overlap between get and put | books balance, budget kept, age bounded |
| HTTP API (`api/`) | none | search, rankings, metadata, health | none beyond its queries | answers are the committed rows |
| Quality checks (`quality/`) | none (read-only reports) | checks over the tables | none beyond its queries | reports what the tables hold |
| RateMyProfessors (`rmp/`) | match table | matching names | none concurrent | |
| Database (`models/`, `db.py`, `schema_guard.py`, migrations) | schema and session | READ COMMITTED sessions, advisory locks, unique keys | isolation | assumed as the code configures it |
| Operator scripts (`src/scripts/`) | the progress file of `refresh_all_tampa.py` | a child per subject, timeout, resume; one-off reports | a child is killed after its commit, the orchestrator dies | the progress file names committed subjects only |
| Web client (`src/web/`) | page state | paged loads, cancellation, retry, two-step text search | late answers, pages of two table states | a load over one state is exact; no abandoned load is shown; loads end |

Components talk through the database: the worker writes sections, observations,
rankings and `IngestRun` rows in one transaction under a transaction-scoped
advisory lock (`sync/lock.py`); the API reads committed rows; the command line
and the worker read the recorded starts; `refresh_data`, the children of `refresh_all_tampa.py`, the cleanup and
the imports write the same tables without the lock. Inside one process the loop owns a `SweepStateCache`, a
`GradeEvidenceCache` and a `CourseAdder` that live from sweep to sweep.

## 2. Modules

| Module | Models | Role |
| --- | --- | --- |
| `RegistrationWindows` | `sync/windows.py`, `earliest_next_start` of `sync/cli.py` | pure operators over any calendar |
| `SyncCadence` | `sync/runner.py`, `cli.py`, `lock.py`, the transaction skeleton of `sync/sweep.py` | processes, clock, lock, records; EXTENDS `RegistrationWindows` |
| `SweepGate` | `sync/gate.py` | pure operators |
| `WholeTerm` | `sync/fetch.py`, `parse_diagnostics.py`, the row parser and the normalization | pure operators over pages of `<tr>` blocks |
| `SectionSync` | `sync/scope.py`, `plan.py`, `apply.py`, the order of `sync/sweep.py`, `_restore_crns`, the section writes of `schedule/ingest.py`, the row contract of `rankings/cache.py` | the data of one term; EXTENDS `SweepGate` and `WholeTerm`, and checks both beside the sweeps |
| `CourseAdder` | `sync/courses.py` over many sweeps | the process's negative cache beside the transaction's rows |
| `HistoricalScores` | `analytics/` (scoring, confidence, queries) | pure operators: each score computed in the three ways of the code |
| `GradeEvidence` | `GradeEvidenceCache` beside the writers of its tables | statement by statement; EXTENDS `HistoricalScores` |
| `SectionRanking` | `rankings/service.py`, `rankings/cache.py`, `signals/`, `schedule/freshness.py`, `syllabi/ingest.py` | a ranking on demand and from the cache |
| `Backfill` | `schedule/backfill.py`, `backfill_cli.py`, `rankings/diff.py` | the command beside sweeps and imports |
| `TermTables` | | abstract: what operators' jobs promise about section rows |
| `OperatorJobs` | `refresh/` and `scripts/refresh_all_tampa.py` with its child | the jobs statement by statement; implements `TermTables` |
| `ResponseCache` | `api/response_cache.py` with overlapping requests | cache and middleware |
| `TermSearch` | `api/routes/rankings.py`, `discovery.py`, `DiscoveryPage.tsx` | pure operators: filters, order, pages, offers |
| `SearchPages` | `web/src/lib/`, the pages, the requests they make | client, server and cache composed; EXTENDS `TermSearch` |
| `MC...` | | the instances for TLC; `MCWholeTerm` holds the pages for `SectionSync` |
| `FieldSums` | | the sum of a field over a set, a fold; used by `ResponseCache` and `HistoricalScores` |
| `SyncCadence_proofs` | | theorems of `RegistrationWindows`, `SyncCadence` and `CourseAdder` |
| `SectionSync_proofs` | | theorems of `SweepGate`, `SectionSync` and `WholeTerm` |
| `OperatorJobs_proofs`, `Backfill_proofs`, `GradeEvidence_proofs`, `SectionRanking_proofs` | | theorems of the module they are named after; `OperatorJobs_proofs` also the refinement of `TermTables`, `GradeEvidence_proofs` the agreements of `HistoricalScores` |
| `ResponseCache_proofs` | | theorems of `ResponseCache` and `SearchPages` |
| `FieldSums_proofs` | | what sums over a set obey, and an induction over subsets |

`SyncCadence` abstracts *what* a sweep writes; `SectionSync` abstracts *when* it
runs. They meet in the lock: `SectionSync`'s single transaction `txn` is justified
by `SingleFlight`, which is proved of `SyncCadence` for any processes. `WholeTerm`
says what page a sweep may see, `SectionSync` what it does with it, `SectionRanking`
what the visitor is then shown of one section, `SearchPages` of many.

Operators whose comment starts with `Fault:` are not part of the model. Each is a
plausible mistake in the code (a dropped test, a missing reset, a wrong bound),
kept beside the operator it would replace; `PROJECT.json` "mutants" says which
property detects it.

### Correspondence of `SyncCadence`

* `now` is the one clock all processes read. `recorded` is
  `latest_sweep_start`, the maximum of `IngestRun.started_at` in any status.
* `pc` follows one process: `down` (no process) → `looping` (head of
  `run_loop`) → `waiting` (`_wait_until`) → `fetching` (lock held, request sent)
  → `applying` → back, or → `failing` (rolled back, failure record to come).
  Operators go `idle` → `cleared` (floor tested) → the same sweep → `done`.
* `last`, `failures` are the loop's locals, read from the database only by
  `Launch`. `Busy` sets `last` to the attempt and keeps `failures`, as the loop
  does for a `lock_busy` outcome.
* `Commit` records the start and frees the lock in one step (one transaction);
  `Fail` frees the lock first and `RecordFailure` or `LoseFailure` follows.
* `Tick` may not pass a process that has a step to take between two waits; it
  lets a sleeper oversleep by `MaxLateness` and a transaction last `MaxSweep`.

### Correspondence of `SectionSync`

* A row of USF's page is `[course, details, name, seats]`: `details` stands for
  every column that is not about seats or the instructor. A section adds the
  removal mark and the latest instructor and snapshot observations with their
  times, which is what `_section_records` and the two "latest" queries return.
* `Mirrors(table, page, catalog)` reads the page both ways: every listed section of a course
  the catalog has is in the table and live, and whatever in scope is live is listed.
* `BeginSweep` takes the lock and the page in one step (nothing is read in
  between); `ReuseState`, or `LoadSections` then `LoadFingerprint`, is
  `SweepStateCache.load`, two steps because its statements run at READ
  COMMITTED; `CommitSweep` is gate, adder, plan, writes, cache and commit. Those
  are one step because the plan's writes lock every listed row before the
  commit. What is left out: an ingest that commits between the plan's last read
  and `stage()`, the window between `stage()` and the commit, and a failure of
  the commit itself.
* `RestoreCrns` and `BeginIngest`, `FetchIngest`, `WriteIngest`, `RankIngest`,
  `FailIngest` are the other writers.
* `course` of a known section is never updated by a sweep, as in the code.

### Correspondence of `CourseAdder`

* `failed` is `_failed_at`, kept as the time that is left until the course may be
  asked again; `sinceAsk` is the history it is compared with.
* One pass of the loop in `add_missing` is `SkipFailed`, `Defer` or `Request`, on
  the first key of the rest of the sorted list. `Request` is the pace, the fetch,
  the parse and the upsert; its outcome is free.
* `added` belongs to the sweep's transaction: `CommitAdded` moves it to `catalog`,
  `Abort` drops it and keeps `failed`; `Restart` drops both.

### Correspondence of `ResponseCache`

* `order` is the order of the `OrderedDict`, `bytes` the hand-kept counter; both
  are updated where the code does and compared with `entries` by `BooksBalance`.
* A request is `Idle`, then either `served` from the cache (`Hit`), or `calling`
  (`Miss`), `read` (its handler has read the database) and done (`Remember` for a
  200, `Answer` otherwise). `get` and `put` run on the event loop without an await
  and are atomic; any number of requests may be between them.
* A body is its size and the instant it was read.

### Correspondence of `WholeTerm`

* A page is the header row and the `<tr>` blocks after it. A block has one of eight
  shapes, which say what the row parser makes of it alone and in a chunk; a row has
  the cells that normalization may refuse. Positions count from 1, the code's from 0.
* `ParseWholeTerm` is `parse_whole_term`: repair, chunks, the guard, then gate and
  normalization. The loop's buffer and counters are the operators `ChunkBlocks`,
  `FirstPosition` and `ChunkStat` of the chunk's number. `Diagnostics` is
  `build_lost_rows_diagnostics` with its cap; a row without a CRN makes pydantic
  raise, which the inspection does not expect and which ends it.
* `FetchWholeTerm` adds the client's refusals and the page kept for the operator.
* The loops over rows that collect some of them are sets of positions read `InOrder`;
  `DataBlocks` is `_data_blocks` and `DataRows` the guard's own count.
* `GuardIsSound` quantifies over the constants `TermPages` and `ChunkSizes` and every
  mode; it has no state of its own, so the invariant `WholeOrRefused` states it of every
  sweep that has a page.

### Correspondence of `HistoricalScores` and `GradeEvidence`

* A slot is a (term, CRN) pair, the join key of `grade_distributions` and
  `sections`. Letter grades are A and F, rates are thousandths rounded down.
* `CourseAnalytics` is the command line's path, `TermAnalytics` the worker's over one
  read of all evidence, `InstructorLookup` the look-up of one name.
* `ReadGradeKey`, `ReadSectionKey`, `ReadNameKey` are the three statements of the
  fingerprint, `LoadRows`, `LoadNames` those of a load, each at READ COMMITTED;
  `ImportGrades`, `IngestEarlier` and the cleanup may commit between any two, `Backfill` and
  `RollbackBackfill` take the lock.
* `LockCandidates`, `DeleteCandidates`, `FailCleanup` are the cleanup, which takes any term:
  it locks the candidate rows, refuses if one shares its term and CRN with a grade row
  (`Refused`), and deletes later, so a grade may be imported between the two.

### Correspondence of `SectionRanking`

* `Rank` is `refresh_section_rankings`, `Hydrated` a search row, `RankCourseSections`
  the page of a course. A text is the set of signal rules it matches.
* A sweep is `FetchSweep`, then `ReuseKept` or the three statements `LoadSections`,
  `LoadNames`, `LoadSeats`, then `WriteSweep` or `FailSweep`. `sweep.known` is what the diff
  compares the page with, `kept` what the worker keeps of it; both hold sections as the
  diff sees them (`Viewed`). `WriteSweep` writes the differences onto the rows as they are by
  then, and `last_seen_at` on every listed one. An ingest may commit between any two of these.
* `sweep.since` and `overtaken` are history: the CRNs that an ingest wrote after the state was
  read from which a sweep then planned.
* `BeginIngest`, `FetchIngest`, `WriteIngest`, like the sweep, keep the time a fetch was made
  apart from the time it is written, so observation times come in either order.
* That an ingest changes the fingerprint (it always appends observations) is `WriteIngest`
  dropping `kept`; the fingerprint itself is in `SectionSync`.

### Correspondence of `Backfill`

* `cmd.pc` follows the command: keys read (`Start`), page fetched with no transaction
  (`Fetch`), lock (`TakeLock`), `Write` or `SelectRollback` and `Delete`, `Rebuild`,
  then `Finish` with the gates, or `Fail`.
* A score is the grade rows it is computed from, so the score diff compares sources.
* `calm`, `settled` and `origin` are history: what others did since.

### Correspondence of `OperatorJobs`

* `refresh.at` is the stage of `refresh_data`; each stage commits. The rankings stage
  is two steps, since it reads and then writes.
* `bulk`, `child`, `progress` are the orchestrator, the transaction of its child, the
  progress file. `FailChild` may come after the child's commit (the timeout).
* `cleanup.at` is the statement of `remove_other_campus_sections`. Row locks are
  derived from what each transaction has written or selected FOR UPDATE.
* `trailing` is history: the CRNs whose ranking was computed before their last write.

### Correspondence of `TermSearch` and `SearchPages`

* A load is what one `useLoad` key starts; its tasks are the filters it loads side by
  side, each asking for a page (`Ask`), counted (`CountRows`) and read (`ReadPage`)
  in two statements, and received (`ReceivePage`). `l = current` is the abort signal.
* `tables` is the history of committed states; an answer remembers which it read.
* `CoursePage` and `PeoplePage` are discovery's first page of matching courses and people
  (`DiscoveryLimit` of each); the pages behind "Next results" are not modelled. Discovery's
  statements are two steps, its counts and its page of courses and people.
* The cache may miss at any time (expiry and eviction), and may answer at any age.
* The page of a subject that lists nothing hands over to discovery (`FallsBack`) once: the
  sections that discovery offered are shown even if none is left when they are asked for.

## 3. Runs

| Run | Question | Bounds |
| --- | --- | --- |
| `cadence_single` | One worker with a failure, a restore run and a stop, across an opening and a closing: planned starts, opening, freshness, stop | a 22-tick window in 72 ticks, floors 10 and 20, jitter 100 or 110 %: a failure just before the opening, at it and in the window, backoff at its cap, two sweeps on either side of each edge all occur; 1.1 intervals and a sweep fit under 1.25 intervals as 1.2 do at full scale |
| `cadence_chaos` | The lock with two workers, `--once`, `--dry-run`, one failure, crash and lost record; the floor of a worker as long as nobody sweeps beside it and its latest start is on record | 7 ticks, floors 2 and 4, wake-ups up to 1 late: a failed sweep, a kill and a restart fit between two sweeps of one worker |
| `sync_worker` | One worker: seats, details, instructors and courses change, CRNs vanish and return, courses are added, a restore runs between. Beside it: is a damaged page parsed whole or refused? | 2 CRNs, 5 rows, 3 changes, 3 sweeps: the state is kept twice, and removed, edited, restored fits; pages of 3 blocks of 8 shapes, of 4 blocks of 4 shapes and of 3 rows of 5 kinds, chunks of 1 to 3, 2 rows reported |
| `sync_operators` | Short pages, a forced override, a narrow ingest at any point of a sweep, the runbook's recipe | 3 CRNs of which one third may go, any first listing, 2 changes, 2 sweeps, 1 ingest; the recipe for whatever USF returns against whatever was committed |
| `course_adder` | More new courses than the cap, with refusals, an aborted sweep, a restart, a changed listing | 3 courses, cap 2, retry after 8, a sweep every 2 |
| `grade_evidence` | Is kept evidence what the tables hold, and do the three computations agree on every table reached? | 2 slots of 2 terms, 2 courses, an instructor and Staff, labs, 4 row ids: a row is inserted and another cleaned up between the statements of the fingerprint, a CRN is graded under one course and listed under another |
| `section_ranking` | Does search show what the page of a course computes? Were fresh seats listed, is the text of the signals the best one? | 2 CRNs, 2 courses, 4 rows, 2 documents of 3 kinds, 2 clock steps, fresh for 1, 2 changes: either writer's time may be the later, an ingest may overtake a sweep's read, and a syllabus may move |
| `backfill` | What does the gate stop, is a second apply idle, does a rollback undo an apply? | 1 term, 2 slots, 2 courses, 6 pages (duplicates, blanks, other campuses, unreadable rows), 1 foreign write |
| `rollback_race` | Finding of section 6 | as above |
| `operator_jobs` | `refresh_data`, the bulk refresh, the cleanup and a sweep, statement by statement | 3 CRNs, 2 courses of 2 subjects, 1 refresh, 2 bulk runs (the second resumes), 1 cleanup, 1 sweep, 1 kill |
| `response_cache` | Overlapping requests of the same and of other keys | 3 keys, 2 requests, sizes 1 to 3 with budget 4 and limit 2, ttl 2 |
| `search_pages` | Paged loads with navigation, retry, late answers and a commit between any two statements | 4 CRNs, pages of 2, a limit of 4, 2 loads, 1 commit: an area with two overlapping codes, and three letters that fall back to a text search, of whose two courses and two people discovery's page has one each |

Two values per column suffice because the diff only compares for equality; two
CRNs let one be touched while the other is not, and the third is needed where
a fraction must be crossed (`sync_operators`) or a row is deleted while another is
written (`operator_jobs`). `ResponseCache` divides its budget by `Share`, 8 in the
code and 2 in the run, so that three keys fill it. One foreign write suffices for
`backfill` because each of its promises is about what a single one may do between two
statements; `RollbackUndoesApply` is about none. What `PageIsSound` says of a parse is
about single rows, pairs of chunks and the caps, which pages of four blocks reach.

### Refinement

`OperatorJobs` implements `TermTables` (`KeepsTables`): with `rows` mapped to the
section rows and `Doomed` to target sections at another campus, every step of
refresh, bulk refresh, sweep and cleanup is a write that deletes nothing, or a deletion
of doomed rows that writes nothing, or leaves the rows alone. What makes it hold is
that `LockTargets` locks the rows before it classifies them: a sweep that moves a
section to Tampa commits before the selection or waits for the cleanup's end. TLC checks
the refinement on `operator_jobs`; `JobsKeepTables` proves it for any rows and jobs.

### Fairness

`SyncCadence`'s `Spec` has weak fairness of the clock, of each worker's loop, of
each process's sweep and of a restore's end: the operating system runs every
process, and every HTTP call and statement has a client timeout (`Tick` cannot
pass `MaxSweep`). Nothing makes a sweep *succeed*: `Fail` is one of the fair
alternatives. Only `StopEndsWorker` uses it. `CourseAdder` has weak fairness of `Progress`: the
worker keeps sweeping. Which requests succeed is free, and aborted sweeps and
restarts are bounded, because a worker that is restarted in every sweep, losing its
negative cache, would ask for the same first courses for ever. `EveryCourseGetsItsTurn`
also needs `EnoughSweeps` of `MCCourseAdder`: with more failing courses than the cap
lets through within the retry time (60 at the hourly cadence, 720 in a window), the
first come round again before the last are asked, and TLC shows the starvation when
the assumption is dropped. `SearchPages` has weak fairness of `Answered`: a request of
the current load is answered, with rows or an error, and its answer is delivered; the
client sets no timeout of its own, so this is the browser's and the server's. The
visitor and the sweeps owe nothing. The other modules state safety only.

## 4. Proofs

The theorems are checked by TLAPS for every value of the constants that satisfies the
named assumptions. They live in one module per component, beside the lemmas they rest on;
each invariant below was first checked by TLC on the component's run.

### Assumptions

| Assumption | Says | Why the code justifies it |
| --- | --- | --- |
| `IntervalsAssumption`, `JitterAssumption`, `WindowsAssumption` | windows are disjoint, cover whole days and outlast the hourly interval; jitter only lengthens | constants and validators of `windows.py` |
| `ProcsAssumption`, `BoundsAssumption` | kinds of processes are disjoint, bounds are natural numbers | |
| `GateAssumption`, `OverrideAssumption` | the default thresholds are fractions, ordered as in `gate.py` | its constants |
| `WholeTermAssumption` | a page is a header and blocks of the eight shapes; chunks have a row or more | `_ROW_RE`; `chunk_rows` is a positive constant |
| `SyncAssumption` | shapes of rows; a process is a worker or a `--once`, not both; finitely many CRNs | |
| `JobsAssumption`, `TablesAssumption` | shapes; a stored section's course is in the catalog | `sections.course_id` is a foreign key |
| `ScoresAssumption`, `EvidenceAssumption` | ids are positive, grade counts natural; historical slots are of earlier terms | serial keys; `CheckConstraint`s of `models/core.py:91`; the queries' `term_code <` |
| `BackfillAssumption` | shapes; the marks for no key are not keys | |
| `RankingAssumption`, `ListingAssumption` | finitely many documents, numbered; terms are numbers; the empty name has no words; a listed row is of a known course | |
| `SearchAssumption`, `RoutesAssumption` | scores are numbers; the client's limit is a number of whole pages; a route other than a text has filters, of its own kind | `PAGE` and `MAX_SECTIONS` of `loadAll.ts` (200, 1000); the routes of the pages |
| `CacheAssumption`, `AdderAssumption` | limits are natural numbers, ttl, cap and retry time positive | constants of the modules |

TLC evaluates all of them on the runs. Hypotheses of a single theorem are named operators
beside it (`FitsTheLimit`, `NoIngests`, `OneCache`, `ScopedOperators`, `ListedAtHome`, `CoursesFit`) and explained below.

### Cadence and course adder (`SyncCadence_proofs`)

**`NextStartFloor`** is the arithmetic heart: for any calendar, jitter, failure
count and clock, `NextStart` is not in the past and is at least the floor of the
tier it falls in after the previous start. The case that needs the assumptions is
the pull-back: the start lies before the opening, and the opening (or
`prev + InWindowInterval`, still before the window's end because a window
outlasts the floor) falls inside the window.

**`CadenceTypeCorrect`**, **`OneSweepInFlight`**, **`TargetsKeepFloor`** hold for any number of
processes under all faults. `SingleFlight` is not inductive: it says nothing of the
lock. The strengthening `HolderInTransaction` (every process in a transaction
is the holder of the lock) is. `TargetKeepsFloor` is inductive with the type
invariant once `NextStartFloor` is known; it survives steps that change `last`
because no worker is `waiting` after them.

**`OpeningsAreSwept`** holds under all faults too. Its invariant `PullsBack` says of a
worker that slept through an opening that its target is at most `InWindowInterval` after
that opening, or is due, whatever backoff the failures asked for.

**`LoneWorkerKeepsFloor`** states the documented hard rule under the conditions the
code needs for it: no other process has swept (`Alone`), and neither a kill in mid-sweep nor a lost
failure record has left the latest start nowhere (`~Forgotten`); late wake-ups, kills between
sweeps, failures, stops, restarts and restore runs are allowed. Its invariant `SweepsKnown` relates
the loop's memory and the records to the history: a start on record was made, what a lone
worker measures from is no earlier than the record, and while nothing was killed or lost
the latest sweep is on record or under way. Each condition is necessary: dropping it gives a
counterexample (section 6).

**`SeatsAreFreshWhileHealthy`** is about the label a visitor sees: while nothing has failed, the
seats never age past the fresh limit of their tier. It assumes `FitsTheLimit`: one worker,
whose sweep and lateness fit in what the limit leaves over the longest jittered interval,
and gaps between windows of at least an hourly interval. Without the slack the property is
false for plain reasons (a sweep longer than the limit). The invariant `FreshPacing` bounds
each stage of the loop from the start of the sweep whose seats are shown, and follows a
limit that falls by an order of magnitude when a window opens.

**`AdderTypeCorrect`** includes the cap of requests per sweep. **`RefusedLeftAlone`**
rests on `CacheCountsDown`: until a restart, what `_failed_at` says of a course is
the retry time less the time since its latest refusal, through commits, aborts and
changed listings.

### Gate, sweeps and the parse of a page (`SectionSync_proofs`)

**`GateLoosens`**: whatever the page, an override at or above the default never
refuses what the default accepts, and a larger never refuses what a smaller
accepts. **`OnlyEmptyPagesAreFinal`**: the full override accepts exactly the pages
with at least one row in scope, so step 6 of the runbook can always end.
**`RecipeClears`**: the fraction of step 5, rounded up to whole percents, clears both size
rules for any counts; **`RecipesWork`** has it in every reachable state, where the invariant
`CountInv` supplies natural counts. Both assume `MinRows = 100 - MaxMissing`, as the
code's 90 and 10 are: a floor above that would be left where it is by a fraction below
`MaxMissing`, and could go on refusing.

**`SyncTypeCorrect`** and **`FreshSweepsRepair`** hold for any number of workers, operators and ingests.
The second needs more than types: what a sweep knows is a part of what the database has
(`KnownsPresent`), and a sweep in its transaction that read afresh knows the rows of a
moment after which only an ingest can have written.

The other four are false with all writers at once, as section 6 says, and are proved for as many as
they hold for:

* **`RankingsMatch`** and **`AppendsChange`** for any number of workers and operators without
  narrow ingests (`NoIngests`). The first needs `RankInv`, which carries the rows of
  sections no sweep has touched. The second needs `AppendInv`: a kept state whose counts
  still fit may be stale in other columns but has the latest observations, because
  whoever appended one since moved the counts.
* **`KeptStatesAreCurrent`** and **`CommitsMirror`** for one process that keeps state
  (`OneCache`): one worker, or operators alone. A second sweeper can edit a section, or
  exchange two removed ones, without moving the fingerprint. The invariant `CurrentInv`
  says that the fingerprint of a kept state counts no fewer removed sections than the
  database has; a restore is what lowers that number, and then the counts differ.
* **`RemovalsAreBounded`** under `OneCache`, and for any operators beside ingests that list
  rows in scope (`ScopedOperators`). The gate counts what the sweep knows; `ScopedInv` says
  that every section it holds live is live, so the gate's counts bound what it removes.

**`CommittedPagesPass`** holds for all writers at once, of listings that keep each CRN in
one subject (`ListedAtHome`, of any assignment of subjects to CRNs; a listing need not keep
it in one course). A section keeps the course it was inserted with, so a CRN that moves to
another subject leaves one live that no row of the page names, and the page just
committed may be refused for it. `HomeInv` carries the subject of a CRN from the
listing to the page in hand, to the rows an ingest is about to write and to the tables.

**`GuardSound`** is about `parse_whole_term`, for every page and size of a chunk. The code
compares two totals, and the proof shows what that is worth:

* `FlattenIs` and `JoinedOn`: joining a sequence of lists is reading off the last of its
  prefixes, and a run of them continues the prefix it starts at. With `ChunkContinues`, the
  rows of the chunks joined are the rows each block *adds* to its page (`ParsedIs`):
  its own, or none if an earlier block of its chunk hides it.
* `RowsCounted`: where no block has two rows, a prefix has no more rows than data blocks, and
  as many only if each data block of it adds its one. So equal totals leave no room for a
  loss, and `RowsPlaced` has each row at the rank of its block: **no row is lost, doubled or
  out of place**. `AcceptedWhole` follows it into the three lists of the modes.
* `LossShowsInChunk`: if totals differ, the same count per chunk differs in the chunk of the
  loss, and `StatsTally` shows that the window kept for it, counted in data rows, is the
  window of that chunk, cut by blocks. `RefusalNames` concludes that each damaged row is
  inspected, and that those which parse alone are not named.
* `FirstRefusalDecides`: without a hiding block the first block that makes the parser raise
  decides which error the page gets, whatever chunk it is in (`SizesAgree`).

### Operators' jobs (`OperatorJobs_proofs`)

**`JobsInvariant`** is one inductive invariant for the module: shapes, `SubjectsKnown`
(what is recorded was committed), `LocksHold` (nobody writes a section that the cleanup
has read for update, nor the ranking of one it has deleted), `TablesRefer`
(rows refer to courses of the catalog or of their own transaction) and `Ranked` (every
ranking is the one of its section except where a job has written and not yet ranked). From it follow
**`JobsTypeCorrect`**, **`RecordedAreCommitted`**, **`RankingsTrail`** and the refinement **`JobsKeepTables`**:
`Spec => KeepsTables`, initial states to initial states, each of the steps to a write, a
deletion of doomed rows or a stutter of `TermTables`. Only the cleanup's step needs the
invariant: what it deletes is what it locked.

### Backfill (`Backfill_proofs`)

**`BackfillInvariant`** has eight parts. `LockFits` and `CommandFits` say where a command can be;
`CitesGraded` that cached scores cite grade rows that are there. `SettledHolds`: while
`settled` names a page and keys, every row that page would select is in the table as it
would be written, which makes a second apply select nothing (**`SecondAppliesAreIdle`**).
`CalmHolds`: while nobody else wrote, the cache has the scores of the tables and the keys
are the ones read; adding sections that back grade rows moves no course's totals, hence
**`GateSparesBackfill`**. `TransactionSees` and `OriginHolds` follow the rows of an apply to
the rollback: **`RollbacksUndoApplies`**. All five hold for any terms, pages and foreign
writes; the sixth property of the module, `RollbackSparesObserved`, is the finding of section 6.

### Evidence and scores (`GradeEvidence_proofs`)

**`KeptRowsCurrent`** says that a fingerprint of counts, sums and maxima identifies the rows. The
invariant `EvidenceInv` follows what each statement of a load has read: `KeyFits` and
`SectionKeyHolds` (what the key's statements counted is still there or the count has
moved), `RowsFit`, `NamesFit`. The argument: ids are given once and grade rows are never
deleted, so an equal count leaves no room for a row that came since (`StillCounted`); while the
grades are the ones counted, no section that shares its term and CRN with one is deleted, by a
rollback (such a section is what it spares) or by the cleanup (it refuses). So a section that
matters and came later has an id above the maximum, whatever else was deleted to bring the
count back. Without the cleanup's refusal this is false, which is the mutant of the run: a
section is counted, a second one of a graded CRN is ingested, the rows are loaded, and the
cleanup of the second restores the key.
**`TermScoresAgree`** and **`PinnedRowsAgree`** compare the three computations of a score on any
tables, priors and thresholds: the slots each computation sums over are the same sets. A
section scored by its own instructor always has that instructor's breakdown listed, because
the instructor's counts are part of the course's; that is where natural counts are needed.

### Rankings as shown (`SectionRanking_proofs`)

**`HydratedAreRanked`** rests on `CachedFits`: of a section that no writer has left behind the
cached row is what would be computed (`PayloadIn`, a function of the section's columns, of its
course's catalog entry and of two sets of documents), and there is none of a section that is not
live. The lemmas say on what the payload does *not* depend: seats, details and times,
documents of other sections and of other courses. `UnchangedBySweep` is the one about
`_changed_course_keys`: a section it passes over keeps every column a row is made of.
**`FreshSeatsListed`** rests on `SeatsListed`: some fetch has seen the counts of the snapshot no
earlier than its time (`StoredSeen`), and for a live section that is not `overtaken` no earlier than the
later of that and `last_seen_at`. The label follows from neither time alone, since an ingest may
set either back. `KnownMatches` says why a sweep may vouch for seats it did not compare at its write:
what it knows of a section has the section's own seats unless an ingest wrote it since,
and what it does not plan to append is then what the page lists.
**`SignalsAreBest`** follows from `CachedFits`, from the order of documents being strict and
total (so that a finite set of them has one latest, by induction over its subsets), and from
what `resolve_instructor` can return (`ResolvedIs`).

### Response cache (`ResponseCache_proofs`)

**`ServedAgeIsBounded`** rests on `AgesBounded`: a request in flight has read within
its own handling time, so whatever is put expires within the ttl and one handling
time of its read. It needs of eviction only that it keeps entries as they
are (`PutType`). **`BooksAlwaysBalance`** and **`EvictionIsFair`** rest on `Books`: the line names each kept
key once and in the order of last use, and `bytes` is the sum of the kept sizes through every
replacement, expiry and eviction.

### Searches (`ResponseCache_proofs`)

`SearchInv` holds of the committed states, the cached answers, every load and the view. An answer is a
page of a state it has seen (`BodyFits`), whether it was cached, is late or belongs to an
abandoned load. Each load keeps `LoadOK`, one lemma per step: it asks for its route's filters,
or discovers, or asks for what discovery offered in a state it has seen (`LoadFits`), and what it
has merged was listed in such a state (`MergedFits`), hence **`ShownWereListed`**. `QuietFits` is about
a load that has met one state: of each filter it has exactly the first rows of the order, as
many as it has come to. A view that is ready shows what the current load has merged (`ViewFits`),
hence **`QuietLoadsAreExact`**.

The lemma behind it is `LastPageCompletes`: each of the client's three reasons to stop leaves no row
out. A page that is not full is the last one (`ShortPageIsLast`) because ranks are injective and
at most n rows have ranks below n. For a text, `OffersFound` shows that discovery's rule for the teacher
of a section and that of the search agree wherever discovery names one; it is about the courses
and people on discovery's page, whatever its limit and order leave out. This half assumes
`CoursesFit`: no course has more sections than the client asks for (1000); beyond that
the client does cut.

Two theorems prove what `LoadEnds` rests on beside fairness. **`LoadsKeepAdvancing`**: whatever is
committed, cached or abandoned in between, a load that changes enters a later one of its three
stages (a subject's listing, discovery, what was offered) or lowers the `Effort` of one request while the
others stay; the effort counts the pages left and the steps left in this one.
**`LoadingLoadsWork`**: a page that loads has a request still to be answered or merged and none that failed, and efforts
are natural numbers. That a load therefore ends once its answers keep coming is the
step that only TLC takes.

### Sums and recursion

`FieldSum` is a fold of the community modules over a finite set. `FieldSums_proofs` shows that
it is the sum of any one element and the rest (`SumRemove`), of two disjoint parts (`SumSplit`),
and grows with its set (`SumGrows`). The library's induction theorems take an operator as a
parameter and cannot be instantiated here; `SubsetInduction` is stated over a *set* of good
subsets instead and is proved from the well-foundedness of `<` on cardinalities. `UpTo`
does the same for the numbers up to a bound, which is how `FlattenSeq`, counts and ranks of
positions are followed along a page.

### Checked by TLC on the way

The invariants were run as INVARIANTs beside the properties, with the constants of the run
named: `JobsInv` on `operator_jobs` (2,057,952 distinct states), the invariants of `SectionSync` on
`sync_worker` (447,015), on it with a `--once` beside the worker (292,345) and on `sync_operators`
(659,139), `FreshPacing` and `PullsBack` on `cadence_single` (1,197,432), `SweepsKnown` and
`HolderInTransaction` on `cadence_chaos` (6,690,955), `BackfillInv` on `backfill`
(1,925,677), `EvidenceInv` on `grade_evidence` (3,671,879), `Books` on
`response_cache` (924,050), `SearchInv`, `LoadsAdvance` and `LoadingHasWork` on `search_pages`
(232,788), `RankShapes`, `SeatsListed` and `CachedFits` on `section_ranking` (1,644,008).

### Only model-checked

* Liveness: `StopEndsWorker`, `EveryCourseGetsItsTurn`, `LoadEnds`. The prover has no ENABLED and
  no rules for fairness here. The safety part of `LoadEnds` is proved, see Searches above.
* `WholeOrRefused`: it states `GuardIsSound` of the sweeps that have a page, and `GuardSound` proves
  that of every page; that a sweep plans from the page the guard let in is checked by TLC only.
* `RollbackSparesObserved`, which does not hold.

Every other property of the runs is stated by a theorem.

## 5. Safety of the data, as checked

`MirrorsPage` is what the change-only writer must add up to: after every committed
sweep each listed section is live, column by column, and nothing else in scope
is live. Left out are listed sections of a course the catalog does not have, which the
sweep reports and does not insert. It holds for a worker whose kept state is exact
(`KeptStateIsCurrent`), across restores, aborted sweeps and reloads at the age limit; both are
about a worker beside restore runs only, and with another sweeper or a narrow ingest
beside it they fail as section 6 says.
`FreshSweepRepairs` is the weaker promise that survives a narrow ingest: a sweep
that read the database afresh, and that no ingest overtook, ends with the page.
Its precondition names the observation times because an ingest that started later
than the sweep but committed earlier owns the "latest" observation.
`RankingsMatchSections` ties the served rows to the sections although each sweep
rebuilds only the courses it touched. `RemovalsBounded` and
`CommittedPageIsAccepted` tie the gate to what the transaction does with the page.

`WholeOrRefused` is about the page itself: for any damage of the eight kinds, except
two rows in one block, an accepted page yields every listed row exactly once (as a
row, or in the opt-in modes as a skipped or failed one), and a refusal counts and names
exactly the rows that do not parse to one row. The verdict does not depend on where
the chunks are cut unless a block hides those after it. `GuardSound` proves it for pages of any length.

`KeptRowsAreCurrent` holds although the fingerprint only has counts, sums and maxima, read by
three statements: row ids are never used again, and neither the rollback nor the cleanup
deletes a section that a grade row joins, so no deletion hides an insertion that matters. `TermEqualsPerCourse`
and `PinnedRowAgrees` compare the three computations of a score over every table the
writers can reach. `HydratedIsRanked` does the same for the two ways of a ranking, and
`RankingsTrailOnlyWrites` says which rankings may lag: those of a writer that has not
ranked yet, or was overlooked by an overlapping rebuild.

`FreshSeatsWereListed` is about the label on seats: a sweep stamps `last_seen_at` on all it lists, also
where its diff compared with what it had loaded or kept. Sections that an ingest wrote between that
read and the write are excepted (section 6.5).

`QuietLoadIsExact` is what paging promises when one committed state answered all of a
load: all sections of the route, none twice; for a text, all sections of what is on
discovery's first page. `ShownWasListed` is what remains when a
sweep commits meanwhile: each shown section was listed in one of the states read.

## 6. Where code and documentation part

**A rollback deletes what an ingest has just observed** (`rollback_race`).
`delete_backfilled_sections` deletes the ids that `select_rollback_sections` chose in an
earlier statement. An ingest of the term takes no sweep lock; when it commits a
snapshot or another source's instructor in between, the section goes with it, although
`schedule/backfill.py:525` calls such a section not eligible.

The following are reached by changing constants or by naming another property in a
configuration; they are documented limits of the promises above, not runs of their own.

*Cadence.*
1. `earliest_next_start` judges the tier from the recorded start. A `--once` run inside
   300 s before the close of a window is let through at a moment outside it, where
   3600 s are owed.
2. The start is persisted by the transaction that ends the sweep, so a killed process
   leaves none and its restart fetches again. A failure record whose own write fails
   has the same effect on a restart.
3. Two workers of an overlapping deploy pace themselves from their own starts, and a
   worker due by the in-window pace that wakes after the close sweeps by it.

*Kept state of a sweep.*
4. The fingerprint counts the removed sections; a `--once` sweep that removes one
   section and restores another between two sweeps of the worker leaves it unchanged.
   The worker then plans from a state in which one section is wrongly live and another
   wrongly removed (a re-listed section stays removed, where the runbook says it
   "returns on the next sweep that lists it"). A restart or the age limit repairs it.
5. The fingerprint is read after the rows, in another READ COMMITTED statement; a
   narrow ingest committed in between is counted and not seen. One that commits between the
   sweep's read and its write has its seats left in place when they differ from the
   page's and the page's are those the sweep knew, and `last_seen_at` then vouches for them as
   fresh. The kept state goes on without them until the section's seats change in the
   listing, or until a reload, at the latest after six hours. `FreshSeatsWereListed` without its exception (`\ overtaken`)
   shows the steps.

*Parse.*
6. The guard compares totals. A block with two rows makes up for a row lost elsewhere
   in the page, which is then accepted.
7. A row without a CRN raises pydantic's error, not the parser's: the page is refused,
   but it is not kept for the operator.

*Grade evidence.*
8. `KeptEvidenceIsCurrent` does not hold: an import that corrects grades and keeps their
   number leaves the fingerprint, and with it the old scores, until the worker restarts;
   `docs/runbooks/hosted-beta-operations.md:230` expects a reload. The same of a
   corrected course whose ids happen to sum to the same.

*Operators' jobs.*
9. The rankings stage of `refresh_data` reads and then writes without a lock. Two
   rebuilds that overlap overwrite each other, and sections that only `refresh_data`
   wrote before a failing rankings stage keep old rankings until something touches
   their course: a sweep ranks only the courses it changed.
10. A grade imported between the cleanup's check and its snapshot lets a section that
    shares its CRN with a grade row be deleted.
11. Cleanup and a child of the bulk refresh can wait for each other's rows; the
    database resolves it by failing one (`FailCleanup`).
12. A child killed after its commit is run again on resume and appends its observations
    once more. A target that is "missing" everywhere is recorded as done.

*Client.*
13. `NothingListedIsMissed` does not hold: pages of two table states may skip a section
    that was listed in both. `loadAll.ts:7` says that all sections are loaded.
14. The ttl of a cached response is counted from the put, after the handler has read
    and the body has been collected; `ServedAgeBounded` is the bound that holds.
15. A text search loads the sections of the 20 courses and 20 people on one page of discovery
    (`DiscoveryPage.tsx:102`): what else matches is shown only behind "Next results".

## 7. Not modelled, and why

* The text of pages: regular expressions, what lxml makes of malformed HTML (a choice
  of eight shapes in `WholeTerm`), wording of titles, names and signals. The workbook,
  catalog and syllabus parsers are text handling without state.
* Floating point: gate fractions and thresholds are whole percentages, jitter is a
  percentage rounded down to the tick, rates are thousandths rounded down. Agreement of
  two computations is checked up to that rounding.
* `--dry-run` writes nothing; it is in `SyncCadence` because it takes the lock and
  sends a request, and absent from `SectionSync`.
* In `SectionSync` planning, writes and commit are one step, and a section has one
  current name; ambiguous and blank observations are in `SectionRanking` and `TermSearch`.
  In `SectionRanking` an ingest's writes are one step and so are those of a sweep; their finer
  interleavings are those of `OperatorJobs`.
* Seasons of terms, printed reports and exit codes beyond failed or not; read-only
  reports (`pair_coverage`, previews, `quality/`, the benchmark and inventory scripts).
* `IngestRun` rows other than those that record sweeps: their callers roll failed ones
  back together with the work.
* RateMyProfessors: an offline matcher without shared state.
* SQL, migrations and the schema: unique keys, row locks and READ COMMITTED are assumed.
* Layout, sorting and filtering of loaded data in the browser, and the later pages of discovery.

Each component of `PROJECT.json` has its own note.

## 8. Plan

1. The window between `stage()` and the commit of a sweep in `SectionSync`.
2. Metadata, health and sync status of the API against the recorded runs.
