--------------------------- MODULE SectionRanking ---------------------------
(***************************************************************************)
(* The ranking of a section as the API shows it, twice: computed on demand *)
(* for its page (rank_section, src/easy_a/rankings/service.py), and in     *)
(* search from the cached row, completed with the live seats               *)
(* (refresh_section_rankings and hydrate_ranking, rankings/cache.py).      *)
(* Beside the score, which HistoricalScores models, a ranking has the      *)
(* course's Gen Ed codes, the current instructor, the delivery method, the *)
(* signals of the best syllabus or note (src/easy_a/signals) and the seats *)
(* with their freshness.                                                   *)
(*                                                                         *)
(* A sweep reads the sections, or keeps them from its last one, before it  *)
(* writes, and a narrow ingest may commit between (sync/apply.py).  The    *)
(* writes of each job are one step here; SectionSync and OperatorJobs      *)
(* interleave them.  Names are taken after folding case and spaces; a text *)
(* is the set of the rules it matches.                                     *)
(***************************************************************************)
EXTENDS Integers, Sequences, FiniteSets, FiniteSetsExt

CONSTANTS
  Crns,        \* CRNs of the live term
  Rows,        \* what USF may list: [course, note, delivery, details, name, seats]
  Starts,      \* [usf, catalog] before the first sweep
  Courses,     \* course rows
  Entries,     \* what the catalog may say of a course: [title, geneds]
  Names,       \* instructor names on listings and syllabi
  Blank,       \* the empty name, and delivery method
  Words,       \* [Names -> sequences of words]: given names first
  InitialOf,   \* [first words -> letters]; a letter is its own initial
  Documents,   \* syllabus documents, numbered as their rows are inserted
  Imports,     \* what a document may say: [term, course, crn, name, says]
  LiveTerm,    \* the term the rankings are of
  NoSeats,     \* a listing without seat counts
  Fresh, Stale,\* ages up to which seats are fresh, and aging
  MaxClock, MaxChanges \* bounds: the clock; changes other than those of sweeps

ASSUME RankingAssumption ==
  /\ Documents \subseteq Nat /\ IsFiniteSet(Documents) /\ LiveTerm \in Nat
  /\ \A import \in Imports : import.term \in Nat
  /\ Blank \in Names /\ Words[Blank] = <<>>
  /\ Fresh \in Nat /\ Stale \in Nat /\ Fresh <= Stale

VARIABLES
  usf,       \* the listing USF would return now
  section,   \* section rows with their latest observations
  catalog,   \* [Courses -> Entries]
  document,  \* syllabi
  cached,    \* section_rankings
  sweep,     \* the page a sweep has fetched and what it diffs it with, or NoFetch
  kept,      \* the sections as the worker keeps them between sweeps, or NoKept
  ingest,    \* a narrow ingest: when it began and what it has fetched, or NoFetch
  clock,     \* observation times
  changes,   \* bounded changes so far
  listed,    \* history: [Crns -> set of [at, seats] that some fetch has seen]
  trailing,  \* history: CRNs whose cached row waits for a rebuild by its writer
  overtaken  \* history: CRNs swept by a diff with what an ingest had written since

tableVars == <<section, catalog, document>>
sweepVars == <<sweep, kept, overtaken>>
rankingVars == <<usf, tableVars, cached, sweepVars, ingest, clock, changes, listed, trailing>>

Unlisted == [listed |-> FALSE]
Absent == [present |-> FALSE]
NoRanking == [ranked |-> FALSE]
NoDocument == [stored |-> FALSE]
NoFetch == [stage |-> "none"]
NoKept == <<>>
Nobody == "nobody"

(* A listed row is of some course, and has none of the marks above *)
ASSUME ListingAssumption ==
  /\ \A row \in Rows : row.course \in Courses /\ row # Unlisted
  /\ \A start \in Starts : /\ start.usf \in [Crns -> Rows \cup {Unlisted}]
                           /\ start.catalog \in [Courses -> Entries]

Stored == {c \in Crns : section[c] # Absent}
Active == {c \in Stored : ~section[c].removed}
InCourse(course) == {c \in Stored : section[c].course = course}

(***************************************************************************)
(* Signals of a text                                                       *)
(***************************************************************************)
Rule(type, value, confidence) == [type |-> type, value |-> value, confidence |-> confidence]

Rules ==
  << Rule("attendance", "not_required", 99), Rule("attendance", "required", 98),
     Rule("late_work", "not_allowed", 99), Rule("late_work", "allowed", 94),
     Rule("exams", "present", 94),
     Rule("exam_location", "online", 96), Rule("exam_location", "in_person", 97),
     Rule("exam_location", "proctored", 92),
     Rule("curve", "not_present", 99), Rule("curve", "present", 94),
     Rule("participation", "required", 95), Rule("lab", "required", 96),
     Rule("quiz", "present", 92), Rule("delivery_format", "online", 94) >>

(* The first rule of a type decides, but for exams both online and in person *)
SignalOf(type, says) ==
  LET ofType == {i \in says : Rules[i].type = type}
      values == {Rules[i].value : i \in ofType}
  IN IF type = "exam_location" /\ {"online", "in_person"} \subseteq values
     THEN Rule(type, "mixed", Min({Rules[i].confidence : i \in ofType}))
     ELSE Rules[Min(ofType)]

Extracted(says) == {SignalOf(type, says) : type \in {Rules[i].type : i \in says}}

(***************************************************************************)
(* Which text                                                              *)
(***************************************************************************)
(* _state_from_latest *)
Current(s) ==
  LET clean == s.names \ {Blank}
  IN CASE clean = {} -> [name |-> Blank, status |-> "blank"]
       [] Cardinality(clean) = 1 -> [name |-> CHOOSE n \in clean : TRUE, status |-> "resolved"]
       [] OTHER -> [name |-> Blank, status |-> "ambiguous"]

IsFullName(words) == Len(words) >= 2
Surname(words) == words[Len(words)]

Abbreviates(v, w) ==
  /\ Surname(v) = Surname(w)
  /\ InitialOf[v[1]] = InitialOf[w[1]]
  /\ InitialOf[v[1]] \in {v[1], w[1]}

(* Fault: the first of several abbreviations is taken *)
ResolveInstructorGuess(name, candidates) ==
  LET known == {Words[n] : n \in candidates} \ {<<>>, <<"staff">>}
      alike == {w \in known : IsFullName(w) /\ Abbreviates(Words[name], w)}
  IN IF ~IsFullName(Words[name]) THEN {}
     ELSE IF Words[name] \in known THEN {Words[name]}
     ELSE IF alike # {} THEN {CHOOSE w \in alike : TRUE} ELSE {}

(* resolve_instructor: the words of the one name that is his, or nothing *)
ResolveInstructor(name, candidates) ==
  LET known == {Words[n] : n \in candidates} \ {<<>>, <<"staff">>}
      alike == {w \in known : IsFullName(w) /\ Abbreviates(Words[name], w)}
  IN IF ~IsFullName(Words[name]) THEN {}
     ELSE IF Words[name] \in known THEN {Words[name]}
     ELSE IF Cardinality(alike) = 1 THEN alike ELSE {}

Kept == {d \in Documents : document[d] # NoDocument}
OfSection(c) == {d \in Kept : document[d].term = LiveTerm /\ document[d].crn = c}

(* _history_statement *)
History(course) ==
  {d \in Kept : document[d].course = course /\ document[d].term < LiveTerm}

(* ORDER BY term, fetched_at and id, the latest first *)
Before(d, e) ==
  LET x == document[d]
      y == document[e]
  IN \/ x.term > y.term
     \/ x.term = y.term /\ x.at > y.at
     \/ x.term = y.term /\ x.at = y.at /\ d > e

Latest(S) == CHOOSE d \in S : \A e \in S \ {d} : Before(d, e)

(* _signals_for, _signal_provenance: what is shown of the source *)
FreshnessOf(source) ==
  CASE source = "unavailable" -> "unavailable"
    [] source \in {"same_instructor", "same_course"} -> "historical"
    [] OTHER -> "current"

Resolved(source, d, term, says) ==
  [source |-> source, freshness |-> FreshnessOf(source), document |-> d, term |-> term,
   signals |-> Extracted(says)]

From(source, d) == Resolved(source, d, document[d].term, document[d].says)

(* _resolve_signals: the section's own syllabus, its note, the same
   instructor's earlier syllabus, the course's *)
Signals(c) ==
  LET s == section[c]
      history == History(s.course)
      his == ResolveInstructor(Current(s).name, {document[d].name : d \in history})
      same == {d \in history : Words[document[d].name] \in his}
  IN CASE OfSection(c) # {} -> From("current", Latest(OfSection(c)))
       [] OfSection(c) = {} /\ s.note # {} ->
            Resolved("note", -1, LiveTerm, s.note)
       [] OfSection(c) = {} /\ s.note = {} /\ same # {} -> From("same_instructor", Latest(same))
       [] OfSection(c) = {} /\ s.note = {} /\ same = {} /\ history # {} ->
            From("same_course", Latest(history))
       [] OTHER -> Resolved("unavailable", -1, -1, {})

(* resolve_term_section_signals: of every section at once *)
TermSignals == [c \in Active |-> Signals(c)]

(***************************************************************************)
(* Seats and their freshness                                               *)
(***************************************************************************)
LaterOf(m, n) == IF m > n THEN m ELSE n

(* classify_observation *)
Classify(age) == IF age < 0 THEN "unavailable"
                 ELSE IF age <= Fresh THEN "fresh" ELSE IF age <= Stale THEN "aging" ELSE "stale"

(* snapshot_freshness, judged from the later of snapshot and last_seen_at *)
Freshness(s) ==
  IF s.snapshot = NoSeats THEN "unavailable"
  ELSE Classify(clock - LaterOf(s.snapshotAt, s.seen))

(* _seat_info_for: every section of the live term has a snapshot *)
SeatInfo(s) == [seats |-> s.snapshot, freshness |-> Freshness(s)]

(***************************************************************************)
(* The two rankings of a section                                           *)
(***************************************************************************)
Instructor(s) == LET now == Current(s)
                 IN [name |-> IF now.status = "resolved" THEN now.name ELSE Nobody,
                     status |-> now.status]

Modality(s) == [method |-> s.delivery,
                freshness |-> IF s.delivery = Blank THEN "unavailable" ELSE "current"]

GenEd(course) == [codes |-> catalog[course].geneds,
                  freshness |-> IF catalog[course].geneds = {} THEN "unavailable" ELSE "current"]

(* rank_section: refused for a section that is not there or is removed *)
RankSection(c) ==
  LET s == section[c]
  IN [course |-> s.course, title |-> catalog[s.course].title, gened |-> GenEd(s.course),
      instructor |-> Instructor(s), modality |-> Modality(s), signals |-> Signals(c),
      details |-> s.details, seats |-> SeatInfo(s)]

(* rank_course_sections *)
RankCourseSections(course) == [c \in Active \cap InCourse(course) |-> RankSection(c)]

(* What is cached *)
Payload(c) ==
  LET s == section[c]
  IN [course |-> s.course, title |-> catalog[s.course].title, gened |-> GenEd(s.course),
      instructor |-> Instructor(s), modality |-> Modality(s), signals |-> TermSignals[c]]

(* hydrate_ranking: seats and the rest of the section are read live *)
Hydrated(c) ==
  LET row == cached[c]
      s == section[c]
  IN [course |-> row.course, title |-> row.title, gened |-> row.gened,
      instructor |-> row.instructor, modality |-> row.modality, signals |-> row.signals,
      details |-> s.details, seats |-> SeatInfo(s)]

(* refresh_section_rankings of some courses: sections are read in their new
   state; a removed one loses its row *)
RankCourses(courses) ==
  cached' = [c \in Crns |->
               IF section'[c] = Absent \/ section'[c].course \notin courses THEN cached[c]
               ELSE IF section'[c].removed THEN NoRanking
               ELSE Payload(c)']

InCourses(courses, table) == {c \in Crns : table[c] # Absent /\ table[c].course \in courses}

(***************************************************************************)
(* Observations                                                            *)
(***************************************************************************)
(* The latest time decides; names of one time are all kept, of two snapshots
   of one time the one written last *)
WithName(s, name, at) ==
  CASE at > s.namesAt -> [s EXCEPT !.names = {name}, !.namesAt = at]
    [] at = s.namesAt -> [s EXCEPT !.names = @ \cup {name}]
    [] OTHER -> s

WithSeats(s, seats, at) ==
  IF at >= s.snapshotAt THEN [s EXCEPT !.snapshot = seats, !.snapshotAt = at] ELSE s

NewSection(row, at) ==
  [course |-> row.course, note |-> row.note, delivery |-> row.delivery,
   details |-> row.details, snapshot |-> row.seats, snapshotAt |-> at,
   names |-> {row.name}, namesAt |-> at, seen |-> at, removed |-> FALSE]

WithFields(s, row) ==
  [s EXCEPT !.note = row.note, !.delivery = row.delivery, !.details = row.details]

(***************************************************************************)
(* Sweeps.  Their locks and gates, and --once beside a worker, are in      *)
(* SectionSync.                                                            *)
(***************************************************************************)
(* A section as the diff sees it: without the times (DbState) *)
Viewed(s) == IF s = Absent THEN Absent ELSE [s EXCEPT !.snapshotAt = 0, !.namesAt = 0, !.seen = 0]

View == [c \in Crns |-> Viewed(section[c])]

(* _instructor_changed *)
InstructorChanged(known, row) == known.names \ {Blank} # {row.name} \ {Blank}

(* build_sweep_plan: what the page says of a section it lists or leaves out *)
Inserted(page) == {c \in Crns : page.rows[c] # Unlisted /\ page.known[c] = Absent}
Relisted(page) == {c \in Crns : page.rows[c] # Unlisted /\ page.known[c] # Absent}
Removed(page) ==
  {c \in Crns : page.rows[c] = Unlisted /\ page.known[c] # Absent /\ ~page.known[c].removed}
Reseated(page) == {c \in Relisted(page) : page.known[c].snapshot # page.rows[c].seats}

(* The fields of the section that differ from the known ones; a listed section keeps
   its course *)
WithChanged(s, known, row) ==
  [s EXCEPT !.note = IF row.note = known.note THEN @ ELSE row.note,
            !.delivery = IF row.delivery = known.delivery THEN @ ELSE row.delivery,
            !.details = IF row.details = known.details THEN @ ELSE row.details]

(* What is written of a section that is known and listed: last_seen_at in any case *)
Swept(s, known, row, at) ==
  LET named == IF InstructorChanged(known, row) THEN WithName(s, row.name, at) ELSE s
      seated == IF known.snapshot # row.seats THEN WithSeats(named, row.seats, at) ELSE named
  IN [WithChanged(seated, known, row) EXCEPT !.removed = @ /\ ~known.removed, !.seen = at]

AfterSweep(page) ==
  [c \in Crns |->
     CASE c \in Relisted(page) -> Swept(section[c], page.known[c], page.rows[c], page.at)
       [] c \in Inserted(page) -> NewSection(page.rows[c], page.at)
       [] c \in Removed(page) -> [section[c] EXCEPT !.removed = TRUE]
       [] OTHER -> section[c]]

(* Fault: a section that only comes back is not ranked again *)
ChangedButRestored(page) ==
  Inserted(page) \cup Removed(page) \cup
  {c \in Relisted(page) :
     \/ InstructorChanged(page.known[c], page.rows[c])
     \/ WithFields(page.known[c], page.rows[c]) # page.known[c]}

(* _changed_course_keys, up to the courses: seats alone change no cached row *)
Changed(page) ==
  Inserted(page) \cup Removed(page) \cup
  {c \in Relisted(page) :
     \/ page.known[c].removed
     \/ InstructorChanged(page.known[c], page.rows[c])
     \/ WithFields(page.known[c], page.rows[c]) # page.known[c]}

SeenNow(crns) ==
  listed' = [c \in Crns |-> IF c \in crns /\ usf[c] # Unlisted
                            THEN listed[c] \cup {[at |-> clock, seats |-> usf[c].seats]}
                            ELSE listed[c]]

FetchSweep ==
  /\ sweep = NoFetch
  /\ sweep' = [stage |-> "load", at |-> clock, rows |-> usf]
  /\ SeenNow(Crns)
  /\ UNCHANGED <<usf, tableVars, cached, kept, overtaken, ingest, clock, changes, trailing>>

(* A step of the sweep's load, in its history the CRNs an ingest has written since *)
Loaded(stage, known, since) ==
  /\ sweep' = [stage |-> stage, at |-> sweep.at, rows |-> sweep.rows,
               known |-> known, since |-> since]
  /\ UNCHANGED <<usf, tableVars, cached, kept, overtaken, ingest, clock, changes, listed, trailing>>

(* SweepStateCache.load of a state whose fingerprint is still that of the tables *)
ReuseKept ==
  /\ sweep.stage = "load" /\ kept # NoKept
  /\ Loaded("write", kept, overtaken)

(* _load_term_sections, by a new worker or when the state is old or gone: three
   statements, each of what is committed when it runs *)
LoadSections == sweep.stage = "load" /\ Loaded("names", View, {})

LoadNames ==
  /\ sweep.stage = "names"
  /\ Loaded("seats", [c \in Crns |-> IF sweep.known[c] = Absent THEN Absent
                      ELSE [sweep.known[c] EXCEPT !.names = section[c].names]], sweep.since)

LoadSeats ==
  /\ sweep.stage = "seats"
  /\ Loaded("write", [c \in Crns |-> IF sweep.known[c] = Absent THEN Absent
                      ELSE [sweep.known[c] EXCEPT !.snapshot = section[c].snapshot]], sweep.since)

(* apply_sweep_plan: rows, observations and the rankings of changed courses; what it
   wrote is read again to be kept.  A section inserted since the load refuses it. *)
WriteSweep ==
  /\ sweep.stage = "write"
  /\ Inserted(sweep) \cap Stored = {}
  /\ section' = AfterSweep(sweep)
  /\ UNCHANGED <<usf, catalog, document, ingest, clock, changes, listed>>
  /\ LET courses == {section'[c].course : c \in Changed(sweep)}
     IN /\ RankCourses(courses)
        /\ trailing' = trailing \ InCourses(courses, section')
  /\ kept' = [c \in Crns |-> IF c \in Changed(sweep) \cup Reseated(sweep)
                            THEN View[c]' ELSE sweep.known[c]]
  /\ overtaken' = sweep.since \ Reseated(sweep)
  /\ sweep' = NoFetch

(* Refused by the gate or failed anywhere: the state is not kept *)
FailSweep ==
  /\ sweep # NoFetch
  /\ sweep' = NoFetch /\ kept' = NoKept
  /\ UNCHANGED <<usf, tableVars, cached, overtaken, ingest, clock, changes, listed, trailing>>

(***************************************************************************)
(* Other writers                                                           *)
(***************************************************************************)
Change == changes < MaxChanges /\ changes' = changes + 1

ListingChanges(c, row) ==
  /\ Change
  /\ usf[c] # row
  /\ usf' = [usf EXCEPT ![c] = row]
  /\ UNCHANGED <<tableVars, cached, sweepVars, ingest, clock, listed, trailing>>

(* refresh_data of one course: its times are from when it began *)
BeginIngest(course) ==
  /\ Change
  /\ ingest = NoFetch
  /\ ingest' = [stage |-> "fetch", course |-> course, at |-> clock]
  /\ UNCHANGED <<usf, tableVars, cached, sweepVars, clock, listed, trailing>>

FetchIngest ==
  /\ ingest.stage = "fetch"
  /\ LET found == {c \in Crns : usf[c] # Unlisted /\ usf[c].course = ingest.course}
     IN /\ ingest' = [stage |-> "write", course |-> ingest.course, at |-> ingest.at,
                      rows |-> [c \in found |-> usf[c]]]
        /\ SeenNow(found)
  /\ UNCHANGED <<usf, tableVars, cached, sweepVars, clock, changes, trailing>>

(* Fault: last_seen_at is never set back *)
OverwrittenKeepsSeen(s, row, at) ==
  LET observed == WithSeats(WithName(s, row.name, at), row.seats, at)
  IN [WithFields(observed, row) EXCEPT !.course = row.course, !.removed = FALSE,
                                       !.seen = LaterOf(at, @)]

(* _update_section, and both observations whatever they say *)
Overwritten(s, row, at) ==
  LET observed == WithSeats(WithName(s, row.name, at), row.seats, at)
  IN [WithFields(observed, row) EXCEPT !.course = row.course, !.removed = FALSE, !.seen = at]

(* The ingest commits before its rankings stage, which is Rank.  It always adds an
   observation, so that the fingerprint of a kept state no longer is that of the tables. *)
WriteIngest ==
  /\ ingest.stage = "write"
  /\ section' = [c \in Crns |->
                   IF c \notin DOMAIN ingest.rows THEN section[c]
                   ELSE IF c \in Stored THEN Overwritten(section[c], ingest.rows[c], ingest.at)
                   ELSE NewSection(ingest.rows[c], ingest.at)]
  /\ trailing' = trailing \cup DOMAIN ingest.rows
  /\ ingest' = NoFetch
  /\ kept' = NoKept
  /\ sweep' = IF sweep.stage \in {"none", "load"} THEN sweep
              ELSE [sweep EXCEPT !.since = @ \cup DOMAIN ingest.rows]
  /\ overtaken' = overtaken \ DOMAIN ingest.rows
  /\ UNCHANGED <<usf, catalog, document, cached, clock, changes, listed>>

(* ingest_syllabus_html: what is fetched again may have moved *)
ImportSyllabus(d, import) ==
  /\ Change
  /\ \A e \in Documents : e < d => document[e] # NoDocument
  /\ document' = [document EXCEPT ![d] =
                    [term |-> import.term, course |-> import.course, crn |-> import.crn,
                     name |-> import.name, says |-> import.says, at |-> clock]]
  /\ LET versions == {document[d], document'[d]} \ {NoDocument}
     IN trailing' = trailing \cup
          {c \in Stored : \E v \in versions : c = v.crn \/ section[c].course = v.course}
  /\ UNCHANGED <<usf, section, catalog, cached, sweepVars, ingest, clock, listed>>

(* upsert_catalog_courses *)
ImportCatalog(course, entry) ==
  /\ Change
  /\ catalog[course] # entry
  /\ catalog' = [catalog EXCEPT ![course] = entry]
  /\ trailing' = trailing \cup InCourse(course)
  /\ UNCHANGED <<usf, section, document, cached, sweepVars, ingest, clock, listed>>

(* The rankings stage of refresh_data, or a rebuild of the term *)
Rank(courses) ==
  /\ trailing # {}
  /\ UNCHANGED <<usf, tableVars, sweepVars, ingest, clock, changes, listed>>
  /\ RankCourses(courses)
  /\ trailing' = trailing \ InCourses(courses, section)

Tick ==
  /\ clock < MaxClock
  /\ clock' = clock + 1
  /\ UNCHANGED <<usf, tableVars, cached, sweepVars, ingest, changes, listed, trailing>>

Init ==
  /\ \E start \in Starts : usf = start.usf /\ catalog = start.catalog
  /\ section = [c \in Crns |-> Absent]
  /\ document = [d \in Documents |-> NoDocument]
  /\ cached = [c \in Crns |-> NoRanking]
  /\ sweep = NoFetch /\ kept = NoKept /\ ingest = NoFetch
  /\ clock = 0 /\ changes = 0
  /\ listed = [c \in Crns |-> {}]
  /\ trailing = {} /\ overtaken = {}

Next ==
  \/ FetchSweep \/ ReuseKept \/ LoadSections \/ LoadNames \/ LoadSeats
  \/ WriteSweep \/ FailSweep
  \/ \E c \in Crns, row \in Rows \cup {Unlisted} : ListingChanges(c, row)
  \/ \E course \in Courses : BeginIngest(course)
  \/ FetchIngest \/ WriteIngest
  \/ \E d \in Documents, import \in Imports : ImportSyllabus(d, import)
  \/ \E course \in Courses, entry \in Entries : ImportCatalog(course, entry)
  \/ \E course \in Courses : Rank({course})
  \/ Rank(Courses)
  \/ Tick

Spec == Init /\ [][Next]_rankingVars

(***************************************************************************)
(* Properties                                                              *)
(***************************************************************************)

(* Search and the page of a course show the same rankings of the same sections,
   once the writer that knows of no sweep has run its rankings stage: although a
   sweep rebuilds only the courses it calls changed (_changed_course_keys,
   sync/apply.py:417) and seats reach search without any rebuild. *)
HydratedIsRanked ==
  \A course \in Courses, c \in Crns \ trailing :
    LET page == RankCourseSections(course)
        found == cached[c] # NoRanking /\ cached[c].course = course
    IN /\ found = (c \in DOMAIN page)
       /\ found => Hydrated(c) = page[c]

(* Seats served as fresh were listed by USF, with these counts, no longer ago than
   that, although they come from the latest snapshot and the age from the later of
   its time and last_seen_at (snapshot_freshness, schedule/freshness.py:75), which
   sweeps and narrow ingests set in either order, also to an earlier time, and a sweep
   sets on every section it lists, whatever it read of its seats before
   (apply_sweep_plan, sync/apply.py:386).  Excepted are the sections such a sweep saw
   as they were before an ingest: their seats may be vouched for wrongly. *)
FreshSeatsWereListed ==
  \A c \in Active \ overtaken :
    SeatInfo(section[c]).freshness = "fresh" =>
      \E seen \in listed[c] : /\ seen.seats = SeatInfo(section[c]).seats
                             /\ clock - seen.at <= Fresh

(* A name could be the instructor of a section *)
Could(name, other) ==
  /\ IsFullName(Words[name]) /\ IsFullName(Words[other])
  /\ Words[name] = Words[other] \/ Abbreviates(Words[name], Words[other])

(* The signals search shows of a section are its own syllabus's if it has one, in
   its latest version; else, from a syllabus of the same instructor only when no
   other name in the course's history could be his; never from a syllabus of this term
   or a later one of another section; and history is labelled so (_resolve_signals,
   signals/resolver.py:149). *)
SignalsUseBestEvidence ==
  \A c \in Active \ trailing :
    LET shown == Hydrated(c).signals
        earlier == {d \in Kept : document[d].course = section[c].course
                                /\ document[d].term < LiveTerm}
        name == Hydrated(c).instructor.name
    IN /\ shown.document \in Documents => shown.document \in OfSection(c) \cup earlier
       /\ (shown.freshness = "historical") = (shown.document \in earlier)
       /\ (shown.source = "current") = (shown.document \in OfSection(c))
       /\ \A d \in OfSection(c) :
            shown.source = "current" /\ document[d].at <= document[shown.document].at
       /\ shown.source = "same_instructor" =>
            LET his == document[shown.document].name
            IN /\ Could(name, his)
               /\ Words[name] = Words[his] \/
                  \A d \in earlier : Could(name, document[d].name) =>
                                       Words[document[d].name] = Words[his]
=============================================================================
