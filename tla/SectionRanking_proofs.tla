----------------------- MODULE SectionRanking_proofs -----------------------
(***************************************************************************)
(* Theorems about SectionRanking: what search and the page of a course     *)
(* show of a section, for any sections, courses, names, documents, rules   *)
(* of abbreviation and times.                                              *)
(***************************************************************************)
EXTENDS SectionRanking, FieldSums_proofs

---------------------------------------------------------------------------
(* Shapes *)

Notes == {row.note : row \in Rows}
Deliveries == {row.delivery : row \in Rows}
Details == {row.details : row \in Rows}
Seats == {row.seats : row \in Rows}
Teachers == {row.name : row \in Rows}

SectionRecs ==
  [course : Courses, note : Notes, delivery : Deliveries, details : Details,
   snapshot : Seats, snapshotAt : Nat, names : SUBSET Teachers, namesAt : Nat,
   seen : Nat, removed : BOOLEAN]

Sections == [Crns -> SectionRecs \cup {Absent}]
Listings == [Crns -> Rows \cup {Unlisted}]
Parts == UNION {[S -> Rows] : S \in SUBSET Crns}

Fetches ==
  {NoFetch} \cup [stage : {"load"}, at : Nat, rows : Listings]
    \cup [stage : {"names", "seats", "write"}, at : Nat, rows : Listings, known : Sections,
          since : SUBSET Crns]

(* What a sweep knows is stored *)
KnownStored(known) ==
  known \in Sections /\ \A c \in Crns : known[c] # Absent => section[c] # Absent

RankShapes ==
  /\ usf \in Listings
  /\ section \in Sections
  /\ catalog \in [Courses -> Entries]
  /\ DOMAIN document = Documents
  /\ \A d \in Documents : document[d] # NoDocument => document[d].term \in Nat /\ document[d].at \in Nat
  /\ DOMAIN cached = Crns
  /\ clock \in Nat
  /\ listed \in [Crns -> SUBSET [at : Nat, seats : Seats]]
  /\ sweep \in Fetches
  /\ kept # NoKept => KnownStored(kept)
  /\ sweep.stage \in {"names", "seats", "write"} => KnownStored(sweep.known)
  /\ ingest.stage = "fetch" => ingest.at \in Nat
  /\ ingest.stage = "write" => ingest.at \in Nat /\ ingest.rows \in Parts

LEMMA RowFields ==
  ASSUME NEW row \in Rows
  PROVE  /\ row.course \in Courses /\ row # Unlisted /\ row.note \in Notes
         /\ row.delivery \in Deliveries /\ row.details \in Details /\ row.seats \in Seats
         /\ row.name \in Teachers
BY ListingAssumption DEF Notes, Deliveries, Details, Seats, Teachers

LEMMA NewShape ==
  ASSUME NEW row \in Rows, NEW at \in Nat
  PROVE  LET s == NewSection(row, at)
         IN  /\ s \in SectionRecs /\ s # Absent
             /\ s.course = row.course /\ s.removed = FALSE /\ s.names = {row.name}
             /\ s.snapshot = row.seats /\ s.snapshotAt = at /\ s.seen = at
<1>1. NewSection(row, at) \in SectionRecs
  BY RowFields DEF NewSection, SectionRecs
<1>2. NewSection(row, at) # Absent
  BY DEF NewSection, Absent
<1> QED BY <1>1, <1>2 DEF NewSection

LEMMA RecsPresent == \A s \in SectionRecs : s # Absent
BY DEF SectionRecs, Absent

LEMMA NameShape ==
  ASSUME NEW s \in SectionRecs, NEW name \in Teachers, NEW at \in Nat
  PROVE  LET t == WithName(s, name, at)
         IN  /\ t \in SectionRecs
             /\ t.course = s.course /\ t.note = s.note /\ t.delivery = s.delivery
             /\ t.details = s.details /\ t.snapshot = s.snapshot
             /\ t.snapshotAt = s.snapshotAt /\ t.seen = s.seen /\ t.removed = s.removed
<1>1. CASE at > s.namesAt
  BY <1>1 DEF WithName, SectionRecs
<1>2. CASE at = s.namesAt
  BY <1>2 DEF WithName, SectionRecs
<1>3. CASE ~(at > s.namesAt) /\ at # s.namesAt
  BY <1>3 DEF WithName
<1> QED BY <1>1, <1>2, <1>3

LEMMA SeatsShape ==
  ASSUME NEW s \in SectionRecs, NEW seats \in Seats, NEW at \in Nat
  PROVE  LET t == WithSeats(s, seats, at)
         IN  /\ t \in SectionRecs
             /\ t.course = s.course /\ t.note = s.note /\ t.delivery = s.delivery
             /\ t.details = s.details /\ t.names = s.names /\ t.namesAt = s.namesAt
             /\ t.seen = s.seen /\ t.removed = s.removed
             /\ at >= s.snapshotAt => t.snapshot = seats /\ t.snapshotAt = at
             /\ ~(at >= s.snapshotAt) => t = s
<1>1. CASE at >= s.snapshotAt
  BY <1>1 DEF WithSeats, SectionRecs
<1>2. CASE ~(at >= s.snapshotAt)
  BY <1>2 DEF WithSeats
<1> QED BY <1>1, <1>2

LEMMA FieldsShape ==
  ASSUME NEW s \in SectionRecs, NEW row \in Rows
  PROVE  LET t == WithFields(s, row)
         IN  /\ t \in SectionRecs
             /\ t.course = s.course /\ t.note = row.note /\ t.delivery = row.delivery
             /\ t.details = row.details /\ t.names = s.names /\ t.namesAt = s.namesAt
             /\ t.snapshot = s.snapshot /\ t.snapshotAt = s.snapshotAt
             /\ t.seen = s.seen /\ t.removed = s.removed
BY RowFields DEF WithFields, SectionRecs

LEMMA FetchKinds ==
  ASSUME NEW fetch \in Fetches
  PROVE  /\ fetch # NoFetch => fetch.at \in Nat /\ fetch.rows \in Listings
         /\ fetch.stage \in {"none", "load", "names", "seats", "write"}
         /\ fetch.stage = "none" <=> fetch = NoFetch
         /\ fetch.stage \in {"names", "seats", "write"} =>
              /\ fetch \in [stage : {"names", "seats", "write"}, at : Nat, rows : Listings,
                            known : Sections, since : SUBSET Crns]
              /\ fetch.known \in Sections /\ fetch.since \in SUBSET Crns
<1>1. CASE fetch = NoFetch
  BY <1>1 DEF NoFetch
<1>2. CASE fetch \in [stage : {"load"}, at : Nat, rows : Listings]
  BY <1>2 DEF NoFetch
<1>3. CASE fetch \in [stage : {"names", "seats", "write"}, at : Nat, rows : Listings,
                     known : Sections, since : SUBSET Crns]
  BY <1>3 DEF NoFetch
<1> QED BY <1>1, <1>2, <1>3 DEF Fetches

(* What the diff sees of a section *)
LEMMA ViewShape ==
  ASSUME NEW s \in SectionRecs \cup {Absent}
  PROVE  /\ Viewed(s) \in SectionRecs \cup {Absent}
         /\ Viewed(s) = Absent <=> s = Absent
         /\ s # Absent => /\ Viewed(s).snapshot = s.snapshot
                         /\ Viewed(s).removed = s.removed
<1>1. CASE s = Absent
  BY <1>1 DEF Viewed
<1>2. CASE s \in SectionRecs /\ s # Absent
  <2>1. Viewed(s) = [s EXCEPT !.snapshotAt = 0, !.namesAt = 0, !.seen = 0]
    BY <1>2 DEF Viewed
  <2>2. /\ [s EXCEPT !.snapshotAt = 0, !.namesAt = 0, !.seen = 0] \in SectionRecs
        /\ [s EXCEPT !.snapshotAt = 0, !.namesAt = 0, !.seen = 0].snapshot = s.snapshot
        /\ [s EXCEPT !.snapshotAt = 0, !.namesAt = 0, !.seen = 0].removed = s.removed
    BY <1>2 DEF SectionRecs
  <2> QED BY <1>2, <2>1, <2>2, RecsPresent
<1> QED BY <1>1, <1>2

---------------------------------------------------------------------------
(* What a sweep and an ingest leave of a section *)

LEMMA ChangedShape ==
  ASSUME NEW s \in SectionRecs, NEW known \in SectionRecs, NEW row \in Rows
  PROVE  LET t == WithChanged(s, known, row)
         IN  /\ t \in SectionRecs
             /\ WithFields(known, row) = known => t.note = s.note /\ t.delivery = s.delivery
             /\ t.course = s.course /\ t.names = s.names /\ t.namesAt = s.namesAt
             /\ t.snapshot = s.snapshot /\ t.snapshotAt = s.snapshotAt
             /\ t.seen = s.seen /\ t.removed = s.removed
<1>1. /\ row.note \in Notes /\ row.delivery \in Deliveries /\ row.details \in Details
  BY RowFields
<1>2. WithFields(known, row) = known => row.note = known.note /\ row.delivery = known.delivery
  BY FieldsShape
<1> QED BY <1>1, <1>2 DEF WithChanged, SectionRecs

(* What the sweep that stamps "at" may leave of the section s *)
SweptFrom(new, s, known, row, at) ==
  /\ new \in SectionRecs
  /\ new.course = s.course /\ new.seen = at
  /\ known.removed = FALSE => new.removed = s.removed
  /\ WithFields(known, row) = known => new.note = s.note /\ new.delivery = s.delivery
  /\ ~InstructorChanged(known, row) => new.names = s.names
  /\ known.snapshot = row.seats => new.snapshot = s.snapshot /\ new.snapshotAt = s.snapshotAt
  /\ known.snapshot # row.seats =>
       \/ new.snapshot = s.snapshot /\ new.snapshotAt = s.snapshotAt /\ at < s.snapshotAt
       \/ new.snapshot = row.seats /\ new.snapshotAt = at

LEMMA SweptShape ==
  ASSUME NEW s \in SectionRecs, NEW known \in SectionRecs, NEW row \in Rows, NEW at \in Nat
  PROVE  SweptFrom(Swept(s, known, row, at), s, known, row, at)
<1> DEFINE named == IF InstructorChanged(known, row) THEN WithName(s, row.name, at) ELSE s
           seated == IF known.snapshot # row.seats THEN WithSeats(named, row.seats, at) ELSE named
           filled == WithChanged(seated, known, row)
           t == [filled EXCEPT !.removed = @ /\ ~known.removed, !.seen = at]
<1>1. row.name \in Teachers /\ row.seats \in Seats
  BY RowFields
<1>2. /\ named \in SectionRecs /\ named.course = s.course /\ named.removed = s.removed
      /\ named.note = s.note /\ named.delivery = s.delivery
      /\ named.snapshot = s.snapshot /\ named.snapshotAt = s.snapshotAt
      /\ ~InstructorChanged(known, row) => named.names = s.names
  BY <1>1, NameShape
<1> HIDE DEF named
<1>3. /\ seated \in SectionRecs /\ seated.course = s.course /\ seated.names = named.names
      /\ seated.note = s.note /\ seated.delivery = s.delivery /\ seated.removed = s.removed
      /\ known.snapshot = row.seats =>
           seated.snapshot = s.snapshot /\ seated.snapshotAt = s.snapshotAt
      /\ known.snapshot # row.seats =>
           \/ seated.snapshot = s.snapshot /\ seated.snapshotAt = s.snapshotAt
              /\ at < s.snapshotAt
           \/ seated.snapshot = row.seats /\ seated.snapshotAt = at
  <2>0. s.snapshotAt \in Nat
    BY DEF SectionRecs
  <2>1. CASE known.snapshot = row.seats
    BY <1>2, <2>1
  <2>2. CASE known.snapshot # row.seats
    <3>1. seated = WithSeats(named, row.seats, at)
      BY <2>2
    <3> HIDE DEF seated
    <3>2. CASE at >= s.snapshotAt
      BY <1>1, <1>2, <2>2, <3>1, <3>2, SeatsShape
    <3>3. CASE ~(at >= s.snapshotAt)
      BY <1>1, <1>2, <2>0, <2>2, <3>1, <3>3, SeatsShape
    <3> QED BY <3>2, <3>3
  <2> QED BY <2>1, <2>2
<1> HIDE DEF seated
<1>4. /\ filled \in SectionRecs /\ filled.course = seated.course
      /\ WithFields(known, row) = known =>
           filled.note = seated.note /\ filled.delivery = seated.delivery
      /\ filled.names = seated.names /\ filled.removed = seated.removed
      /\ filled.snapshot = seated.snapshot /\ filled.snapshotAt = seated.snapshotAt
  BY <1>3, ChangedShape
<1> HIDE DEF filled
<1>5. /\ t \in SectionRecs /\ t.course = filled.course /\ t.note = filled.note
      /\ t.delivery = filled.delivery /\ t.names = filled.names
      /\ known.removed = FALSE => t.removed = filled.removed
      /\ t.seen = at /\ t.snapshot = filled.snapshot /\ t.snapshotAt = filled.snapshotAt
  BY <1>4 DEF SectionRecs
<1>6. Swept(s, known, row, at) = t
  BY DEF Swept, named, seated, filled
<1> HIDE DEF t
<1>7. SweptFrom(t, s, known, row, at)
  BY <1>2, <1>3, <1>4, <1>5 DEF SweptFrom
<1> QED BY <1>6, <1>7

LEMMA OverwrittenShape ==
  ASSUME NEW s \in SectionRecs, NEW row \in Rows, NEW at \in Nat
  PROVE  LET t == Overwritten(s, row, at)
         IN  /\ t \in SectionRecs /\ t.seen = at
             /\ \/ t.snapshot = s.snapshot /\ t.snapshotAt = s.snapshotAt /\ at < s.snapshotAt
                \/ t.snapshot = row.seats /\ t.snapshotAt = at /\ at >= s.snapshotAt
<1> DEFINE named == WithName(s, row.name, at)
           observed == WithSeats(named, row.seats, at)
           filled == WithFields(observed, row)
           t == [filled EXCEPT !.course = row.course, !.removed = FALSE, !.seen = at]
<1>1. row.name \in Teachers /\ row.seats \in Seats /\ row.course \in Courses
  BY RowFields
<1>2. named \in SectionRecs /\ named.snapshot = s.snapshot /\ named.snapshotAt = s.snapshotAt
      /\ s.snapshotAt \in Nat
  BY <1>1, NameShape DEF SectionRecs
<1> HIDE DEF named
<1>3. /\ observed \in SectionRecs
      /\ \/ observed.snapshot = s.snapshot /\ observed.snapshotAt = s.snapshotAt
            /\ at < s.snapshotAt
         \/ observed.snapshot = row.seats /\ observed.snapshotAt = at /\ at >= s.snapshotAt
  <2>1. CASE at >= s.snapshotAt
    BY <1>1, <1>2, <2>1, SeatsShape
  <2>2. CASE ~(at >= s.snapshotAt)
    BY <1>1, <1>2, <2>2, SeatsShape
  <2> QED BY <2>1, <2>2
<1> HIDE DEF observed
<1>4. filled \in SectionRecs /\ filled.snapshot = observed.snapshot
      /\ filled.snapshotAt = observed.snapshotAt
  BY <1>3, FieldsShape
<1> HIDE DEF filled
<1>5. t \in SectionRecs /\ t.seen = at /\ t.snapshot = filled.snapshot
      /\ t.snapshotAt = filled.snapshotAt
  BY <1>1, <1>4 DEF SectionRecs
<1>6. Overwritten(s, row, at) = t
  BY DEF Overwritten, named, observed, filled
<1> HIDE DEF t
<1> QED BY <1>3, <1>4, <1>5, <1>6

(* A row is listed and known, listed and new, gone from a live section, or nothing *)
LEMMA AfterSweepIs ==
  ASSUME RankShapes, sweep.stage = "write", NEW c \in Crns,
         NEW row, row = sweep.rows[c], NEW known, known = sweep.known[c],
         NEW new, new = AfterSweep(sweep)[c]
  PROVE  /\ sweep # NoFetch /\ sweep.at \in Nat /\ row \in Rows \cup {Unlisted}
         /\ c \in Relisted(sweep) =>
              /\ row \in Rows /\ known \in SectionRecs /\ section[c] \in SectionRecs
              /\ new = Swept(section[c], known, row, sweep.at)
         /\ c \in Inserted(sweep) => row \in Rows /\ new = NewSection(row, sweep.at)
         /\ c \in Removed(sweep) =>
              section[c] \in SectionRecs /\ new = [section[c] EXCEPT !.removed = TRUE]
         /\ c \notin Relisted(sweep) \cup Inserted(sweep) \cup Removed(sweep) =>
              new = section[c] /\ row = Unlisted /\ (known = Absent \/ known.removed)
<1>1. /\ sweep # NoFetch /\ row \in Rows \cup {Unlisted} /\ sweep.at \in Nat
      /\ known \in SectionRecs \cup {Absent} /\ section[c] \in SectionRecs \cup {Absent}
      /\ known # Absent => section[c] # Absent
  BY FetchKinds DEF RankShapes, Listings, KnownStored, Sections
<1>2. new = CASE c \in Relisted(sweep) -> Swept(section[c], known, row, sweep.at)
              [] c \in Inserted(sweep) -> NewSection(row, sweep.at)
              [] c \in Removed(sweep) -> [section[c] EXCEPT !.removed = TRUE]
              [] OTHER -> section[c]
  BY DEF AfterSweep
<1>3. /\ c \in Relisted(sweep) <=> row # Unlisted /\ known # Absent
      /\ c \in Inserted(sweep) <=> row # Unlisted /\ known = Absent
      /\ c \in Removed(sweep) <=> row = Unlisted /\ known # Absent /\ ~known.removed
  BY DEF Relisted, Inserted, Removed
<1> HIDE DEF Relisted, Inserted, Removed
<1>4. CASE c \in Relisted(sweep)
  BY <1>1, <1>2, <1>3, <1>4
<1>5. CASE c \in Inserted(sweep)
  BY <1>1, <1>2, <1>3, <1>5
<1>6. CASE c \in Removed(sweep)
  BY <1>1, <1>2, <1>3, <1>6
<1>7. CASE c \notin Relisted(sweep) \cup Inserted(sweep) \cup Removed(sweep)
  BY <1>1, <1>2, <1>3, <1>7
<1> QED BY <1>1, <1>3, <1>4, <1>5, <1>6, <1>7

(* A row that is listed and known *)
RelistedAs(new, s, known, row, at) ==
  /\ row \in Rows /\ known \in SectionRecs /\ s \in SectionRecs
  /\ at \in Nat /\ s.snapshotAt \in Nat
  /\ new # Absent /\ s # Absent
  /\ SweptFrom(new, s, known, row, at)

LEMMA RelistedIs ==
  ASSUME RankShapes, sweep.stage = "write", NEW c \in Crns, c \in Relisted(sweep)
  PROVE  RelistedAs(AfterSweep(sweep)[c], section[c], sweep.known[c], sweep.rows[c], sweep.at)
<1>a. PICK new : new = AfterSweep(sweep)[c]
  OBVIOUS
<1>b. PICK s : s = section[c]
  OBVIOUS
<1>c. PICK row : row = sweep.rows[c]
  OBVIOUS
<1>d. PICK known : known = sweep.known[c]
  OBVIOUS
<1>1. PICK at : at = sweep.at
  OBVIOUS
<1>2. at \in Nat /\ row \in Rows /\ known \in SectionRecs /\ s \in SectionRecs
  <2>1. /\ sweep \in Fetches /\ sweep # NoFetch /\ sweep.at \in Nat
        /\ sweep.rows \in Listings /\ sweep.known \in Sections
        /\ section[c] # Absent
    BY FetchKinds DEF RankShapes, Relisted, KnownStored
  <2>2. /\ row \in Rows \cup {Unlisted} /\ known \in SectionRecs \cup {Absent}
        /\ s \in SectionRecs \cup {Absent}
    BY <1>b, <1>c, <1>d, <2>1 DEF RankShapes, Listings, Sections
  <2>3. row # Unlisted /\ known # Absent
    BY <1>c, <1>d DEF Relisted
  <2> QED BY <1>b, <1>1, <2>1, <2>2, <2>3
<1>3. new = Swept(s, known, row, at)
  <2>1. new = CASE c \in Relisted(sweep) -> Swept(s, known, row, at)
              [] c \in Inserted(sweep) -> NewSection(row, at)
              [] c \in Removed(sweep) -> [s EXCEPT !.removed = TRUE]
              [] OTHER -> s
    BY <1>a, <1>b, <1>c, <1>d, <1>1 DEF AfterSweep
  <2>2. c \notin Inserted(sweep) /\ c \notin Removed(sweep)
    BY DEF Relisted, Inserted, Removed
  <2> QED BY <2>1, <2>2
<1>4. SweptFrom(new, s, known, row, at)
  BY <1>2, <1>3, SweptShape
<1>5. s.snapshotAt \in Nat
  BY <1>2 DEF SectionRecs
<1>6. new # Absent /\ s # Absent
  BY <1>2, <1>4, RecsPresent DEF SweptFrom
<1> QED BY <1>a, <1>b, <1>c, <1>d, <1>1, <1>2, <1>4, <1>5, <1>6 DEF RelistedAs

LEMMA RemovedShape ==
  ASSUME NEW s \in SectionRecs
  PROVE  LET t == [s EXCEPT !.removed = TRUE]
         IN  /\ t \in SectionRecs /\ t.removed = TRUE /\ t.course = s.course
             /\ t.snapshot = s.snapshot /\ t.snapshotAt = s.snapshotAt /\ t.seen = s.seen
BY DEF SectionRecs

LEMMA AfterSweepShape ==
  ASSUME RankShapes, sweep.stage = "write", NEW c \in Crns
  PROVE  /\ AfterSweep(sweep)[c] \in SectionRecs \cup {Absent}
         /\ c \in Relisted(sweep) \cup Inserted(sweep) \cup Removed(sweep) =>
              AfterSweep(sweep)[c] # Absent
         /\ section[c] # Absent => AfterSweep(sweep)[c] # Absent
<1>1. section[c] \in SectionRecs \cup {Absent}
  BY DEF RankShapes, Sections
<1>2. PICK row : row = sweep.rows[c]
  OBVIOUS
<1>3. PICK known : known = sweep.known[c]
  OBVIOUS
<1>4. PICK new : new = AfterSweep(sweep)[c]
  OBVIOUS
<1>5. /\ sweep.at \in Nat
      /\ c \in Relisted(sweep) =>
              /\ row \in Rows /\ known \in SectionRecs /\ section[c] \in SectionRecs
              /\ new = Swept(section[c], known, row, sweep.at)
      /\ c \in Inserted(sweep) => row \in Rows /\ new = NewSection(row, sweep.at)
      /\ c \in Removed(sweep) =>
              section[c] \in SectionRecs /\ new = [section[c] EXCEPT !.removed = TRUE]
      /\ c \notin Relisted(sweep) \cup Inserted(sweep) \cup Removed(sweep) => new = section[c]
  BY <1>2, <1>3, <1>4, AfterSweepIs
<1> HIDE DEF Relisted, Inserted, Removed
<1>6. CASE c \in Relisted(sweep)
  <2>1. Swept(section[c], known, row, sweep.at) \in SectionRecs
    <3>1. RelistedAs(new, section[c], known, row, sweep.at)
      BY <1>2, <1>3, <1>4, <1>6, RelistedIs
    <3> QED BY <1>5, <1>6, <3>1 DEF RelistedAs, SweptFrom
  <2> QED BY <1>4, <1>5, <1>6, <2>1, RecsPresent
<1>7. CASE c \in Inserted(sweep)
  <2>1. NewSection(row, sweep.at) \in SectionRecs
    BY <1>5, <1>7, NewShape
  <2> QED BY <1>4, <1>5, <1>7, <2>1, RecsPresent
<1>8. CASE c \in Removed(sweep)
  <2>1. [section[c] EXCEPT !.removed = TRUE] \in SectionRecs
    BY <1>5, <1>8, RemovedShape
  <2> QED BY <1>4, <1>5, <1>8, <2>1, RecsPresent
<1>9. CASE c \notin Relisted(sweep) \cup Inserted(sweep) \cup Removed(sweep)
  BY <1>1, <1>4, <1>5, <1>9
<1> QED BY <1>6, <1>7, <1>8, <1>9

(* What an ingest writes *)
LEMMA IngestWrites ==
  ASSUME RankShapes, WriteIngest
  PROVE  /\ ingest.at \in Nat /\ DOMAIN ingest.rows \subseteq Crns
         /\ \A c \in DOMAIN ingest.rows : ingest.rows[c] \in Rows
         /\ DOMAIN section' = Crns
         /\ \A c \in Crns :
              section'[c] = IF c \notin DOMAIN ingest.rows THEN section[c]
                            ELSE IF c \in Stored THEN Overwritten(section[c], ingest.rows[c], ingest.at)
                            ELSE NewSection(ingest.rows[c], ingest.at)
<1>1. ingest.at \in Nat /\ ingest.rows \in Parts
  BY DEF RankShapes, WriteIngest
<1>2. DOMAIN ingest.rows \subseteq Crns /\ \A c \in DOMAIN ingest.rows : ingest.rows[c] \in Rows
  BY <1>1 DEF Parts
<1> QED BY <1>1, <1>2 DEF WriteIngest

LEMMA IngestShape ==
  ASSUME RankShapes, WriteIngest, NEW c \in Crns
  PROVE  /\ section'[c] \in SectionRecs \cup {Absent}
         /\ section[c] # Absent => section'[c] # Absent
<1>1. section[c] \in SectionRecs \cup {Absent}
  BY DEF RankShapes, Sections
<1>2. CASE c \notin DOMAIN ingest.rows
  BY <1>1, <1>2, IngestWrites
<1>3. CASE c \in DOMAIN ingest.rows
  <2>1. ingest.at \in Nat /\ ingest.rows[c] \in Rows
    BY <1>3, IngestWrites
  <2>2. CASE c \in Stored
    <3>1. section[c] \in SectionRecs
      BY <1>1, <2>2 DEF Stored
    <3>2. section'[c] = Overwritten(section[c], ingest.rows[c], ingest.at)
      BY <1>3, <2>2, IngestWrites
    <3> QED BY <2>1, <3>1, <3>2, OverwrittenShape, RecsPresent
  <2>3. CASE c \notin Stored
    <3>1. section'[c] = NewSection(ingest.rows[c], ingest.at)
      BY <1>3, <2>3, IngestWrites
    <3>2. NewSection(ingest.rows[c], ingest.at) \in SectionRecs
      BY <2>1, NewShape
    <3> QED BY <3>1, <3>2, RecsPresent
  <2> QED BY <2>2, <2>3
<1> QED BY <1>2, <1>3

LEMMA InitShapes == Init => RankShapes
<1> SUFFICES ASSUME Init PROVE RankShapes
  OBVIOUS
<1>1. PICK start \in Starts : usf = start.usf /\ catalog = start.catalog
  BY DEF Init
<1>2. usf \in Listings /\ catalog \in [Courses -> Entries]
  BY <1>1, ListingAssumption DEF Listings
<1>3. section \in Sections /\ listed \in [Crns -> SUBSET [at : Nat, seats : Seats]]
  BY DEF Init, Sections
<1>4. ingest.stage = "none" /\ sweep \in Fetches /\ sweep.stage = "none" /\ kept = NoKept
  BY DEF Init, NoFetch, Fetches
<1> QED BY <1>2, <1>3, <1>4 DEF Init, RankShapes

(* What a fetch has seen was listed at that time *)
LEMMA SeenShape ==
  ASSUME RankShapes, NEW found, SeenNow(found)
  PROVE  /\ listed' \in [Crns -> SUBSET [at : Nat, seats : Seats]]
         /\ \A c \in Crns : listed[c] \subseteq listed'[c]
         /\ \A c \in Crns \cap found : usf[c] # Unlisted =>
              [at |-> clock, seats |-> usf[c].seats] \in listed'[c]
<1>1. \A c \in Crns : usf[c] # Unlisted =>
        [at |-> clock, seats |-> usf[c].seats] \in [at : Nat, seats : Seats]
  <2> TAKE c \in Crns
  <2> HAVE usf[c] # Unlisted
  <2>1. usf[c] \in Rows
    BY DEF RankShapes, Listings
  <2> QED BY <2>1, RowFields DEF RankShapes
<1>2. listed \in [Crns -> SUBSET [at : Nat, seats : Seats]]
  BY DEF RankShapes
<1> QED BY <1>1, <1>2 DEF SeenNow

(* The steps of a load: what they read, and that it is stored *)
LoadStep(stage, known, since) ==
  /\ sweep.stage \in {"load", "names", "seats"}
  /\ Loaded(stage, known, since)
  /\ KnownStored(known) /\ since \in SUBSET Crns

LEMMA LoadSteps ==
  ASSUME RankShapes, overtaken \in SUBSET Crns
  PROVE  /\ ReuseKept => LoadStep("write", kept, overtaken)
         /\ LoadSections => LoadStep("names", View, {})
         /\ LoadNames => \E known : /\ LoadStep("seats", known, sweep.since)
                                   /\ \A c \in Crns :
                                        /\ known[c] = Absent <=> sweep.known[c] = Absent
                                        /\ known[c] # Absent =>
                                             known[c].removed = sweep.known[c].removed
         /\ LoadSeats => \E known : /\ LoadStep("write", known, sweep.since)
                                   /\ \A c \in Crns :
                                        /\ known[c] = Absent <=> sweep.known[c] = Absent
                                        /\ known[c] # Absent =>
                                             /\ known[c].removed = sweep.known[c].removed
                                             /\ known[c].snapshot = section[c].snapshot
<1>1. ASSUME ReuseKept PROVE LoadStep("write", kept, overtaken)
  BY <1>1 DEF ReuseKept, LoadStep, RankShapes
<1>2. ASSUME LoadSections PROVE LoadStep("names", View, {})
  <2>1. \A c \in Crns : section[c] \in SectionRecs \cup {Absent}
    BY DEF RankShapes, Sections
  <2>2. View \in Sections /\ \A c \in Crns : View[c] # Absent => section[c] # Absent
    BY <2>1, ViewShape DEF View, Sections
  <2> QED BY <1>2, <2>2 DEF LoadSections, LoadStep, KnownStored
<1>3. ASSUME sweep.stage \in {"names", "seats"}
      PROVE  /\ sweep.since \in SUBSET Crns
             /\ \A c \in Crns :
                  /\ sweep.known[c] \in SectionRecs \cup {Absent}
                  /\ sweep.known[c] # Absent =>
                       section[c] # Absent /\ section[c] \in SectionRecs
  BY <1>3, FetchKinds DEF RankShapes, KnownStored, Sections
<1>4. \A s \in SectionRecs, t \in SectionRecs :
        /\ [s EXCEPT !.names = t.names] \in SectionRecs
        /\ [s EXCEPT !.names = t.names].removed = s.removed
        /\ [s EXCEPT !.snapshot = t.snapshot] \in SectionRecs
        /\ [s EXCEPT !.snapshot = t.snapshot].removed = s.removed
        /\ [s EXCEPT !.snapshot = t.snapshot].snapshot = t.snapshot
  BY DEF SectionRecs
<1>5. ASSUME LoadNames
      PROVE  \E known : /\ LoadStep("seats", known, sweep.since)
                        /\ \A c \in Crns :
                             /\ known[c] = Absent <=> sweep.known[c] = Absent
                             /\ known[c] # Absent =>
                                  known[c].removed = sweep.known[c].removed
  <2> DEFINE known == [c \in Crns |-> IF sweep.known[c] = Absent THEN Absent
                         ELSE [sweep.known[c] EXCEPT !.names = section[c].names]]
  <2>1. sweep.stage = "names" /\ Loaded("seats", known, sweep.since)
    BY <1>5 DEF LoadNames
  <2>2. \A c \in Crns :
          /\ known[c] \in SectionRecs \cup {Absent}
          /\ known[c] = Absent <=> sweep.known[c] = Absent
          /\ known[c] # Absent => /\ known[c].removed = sweep.known[c].removed
                                 /\ section[c] # Absent
    BY <1>3, <1>4, <2>1, RecsPresent
  <2>3. known \in Sections
    BY <2>2 DEF Sections
  <2> HIDE DEF known
  <2> QED BY <1>3, <2>1, <2>2, <2>3 DEF LoadStep, KnownStored
<1>6. ASSUME LoadSeats
      PROVE  \E known : /\ LoadStep("write", known, sweep.since)
                        /\ \A c \in Crns :
                             /\ known[c] = Absent <=> sweep.known[c] = Absent
                             /\ known[c] # Absent =>
                                  /\ known[c].removed = sweep.known[c].removed
                                  /\ known[c].snapshot = section[c].snapshot
  <2> DEFINE known == [c \in Crns |-> IF sweep.known[c] = Absent THEN Absent
                         ELSE [sweep.known[c] EXCEPT !.snapshot = section[c].snapshot]]
  <2>1. sweep.stage = "seats" /\ Loaded("write", known, sweep.since)
    BY <1>6 DEF LoadSeats
  <2>2. \A c \in Crns :
          /\ known[c] \in SectionRecs \cup {Absent}
          /\ known[c] = Absent <=> sweep.known[c] = Absent
          /\ known[c] # Absent => /\ known[c].removed = sweep.known[c].removed
                                 /\ known[c].snapshot = section[c].snapshot
                                 /\ section[c] # Absent
    BY <1>3, <1>4, <2>1, RecsPresent
  <2>3. known \in Sections
    BY <2>2 DEF Sections
  <2> HIDE DEF known
  <2> QED BY <1>3, <2>1, <2>2, <2>3 DEF LoadStep, KnownStored
<1> QED BY <1>1, <1>2, <1>5, <1>6

(* What a load step leaves of the fetch *)
LEMMA LoadedShape ==
  ASSUME RankShapes, NEW stage \in {"names", "seats", "write"}, NEW known, NEW since,
         LoadStep(stage, known, since)
  PROVE  /\ sweep' \in Fetches /\ sweep'.stage = stage /\ sweep'.known = known
         /\ sweep'.since = since /\ sweep'.at = sweep.at /\ sweep'.rows = sweep.rows
         /\ sweep # NoFetch
<1>1. sweep.at \in Nat /\ sweep.rows \in Listings /\ sweep # NoFetch
  BY FetchKinds DEF RankShapes, LoadStep
<1>2. sweep' = [stage |-> stage, at |-> sweep.at, rows |-> sweep.rows,
               known |-> known, since |-> since]
  BY DEF LoadStep, Loaded
<1>3. sweep' \in Fetches
  BY <1>1, <1>2 DEF LoadStep, KnownStored, Fetches
<1> QED BY <1>1, <1>2, <1>3

LEMMA LoadShapes ==
  ASSUME RankShapes, NEW stage \in {"names", "seats", "write"}, NEW known, NEW since,
         LoadStep(stage, known, since)
  PROVE  RankShapes'
<1>1. sweep' \in Fetches /\ sweep'.known = known /\ section' = section
  BY LoadedShape DEF LoadStep, Loaded, tableVars
<1>2. /\ kept' = kept /\ usf' = usf /\ catalog' = catalog /\ document' = document
      /\ cached' = cached /\ ingest' = ingest /\ clock' = clock /\ listed' = listed
  BY DEF LoadStep, Loaded, tableVars
<1>3. KnownStored(sweep.known)' /\ (kept' # NoKept => KnownStored(kept)')
  BY <1>1, <1>2 DEF LoadStep, RankShapes, KnownStored
<1> QED BY <1>1, <1>2, <1>3 DEF RankShapes

(* What an ingest leaves of a sweep it overtakes *)
LEMMA IngestOvertakes ==
  ASSUME RankShapes, WriteIngest
  PROVE  /\ sweep' \in Fetches /\ sweep'.stage = sweep.stage
         /\ sweep # NoFetch => sweep'.at = sweep.at /\ sweep'.rows = sweep.rows
         /\ sweep' # NoFetch => sweep # NoFetch
         /\ sweep.stage \in {"names", "seats", "write"} =>
              /\ sweep'.known = sweep.known
              /\ sweep'.since = sweep.since \cup DOMAIN ingest.rows
<1>1. CASE sweep.stage \in {"none", "load"}
  BY <1>1 DEF WriteIngest, RankShapes
<1>2. CASE sweep.stage \in {"names", "seats", "write"}
  <2>1. /\ sweep' = [sweep EXCEPT !.since = @ \cup DOMAIN ingest.rows]
        /\ DOMAIN ingest.rows \in SUBSET Crns
    BY <1>2, IngestWrites DEF WriteIngest
  <2>2. /\ sweep \in [stage : {"names", "seats", "write"}, at : Nat, rows : Listings,
                      known : Sections, since : SUBSET Crns]
        /\ sweep # NoFetch
    BY <1>2, FetchKinds DEF RankShapes
  <2>3. sweep' \in [stage : {"names", "seats", "write"}, at : Nat, rows : Listings,
                   known : Sections, since : SUBSET Crns]
    BY <2>1, <2>2
  <2> QED BY <1>2, <2>1, <2>2, <2>3 DEF Fetches
<1> QED BY <1>1, <1>2, FetchKinds DEF RankShapes

(* What a sweep keeps of what it knew *)
LEMMA KeptAfter ==
  ASSUME RankShapes, WriteSweep
  PROVE  /\ KnownStored(kept)' /\ section' \in Sections
         /\ \A c \in Crns :
              /\ c \in Changed(sweep) \cup Reseated(sweep) => kept'[c] = Viewed(section'[c])
              /\ c \notin Changed(sweep) \cup Reseated(sweep) => kept'[c] = sweep.known[c]
<1>1. /\ section' = AfterSweep(sweep) /\ sweep.stage = "write"
      /\ kept' = [c \in Crns |-> IF c \in Changed(sweep) \cup Reseated(sweep)
                                THEN View'[c] ELSE sweep.known[c]]
  BY DEF WriteSweep
<1>2. \A c \in Crns : /\ section'[c] \in SectionRecs \cup {Absent}
                      /\ section[c] # Absent => section'[c] # Absent
  BY <1>1, AfterSweepShape
<1>3. section' = [c \in Crns |-> section'[c]]
  BY <1>1 DEF AfterSweep
<1>4. section' \in Sections
  BY <1>2, <1>3 DEF Sections
<1>5. \A c \in Crns : View'[c] = Viewed(section'[c])
  BY DEF View
<1>6. \A c \in Crns : /\ sweep.known[c] \in SectionRecs \cup {Absent}
                      /\ sweep.known[c] # Absent => section[c] # Absent
  BY <1>1 DEF RankShapes, KnownStored, Sections
<1> HIDE DEF Changed, Reseated
<1>7. \A c \in Crns :
        /\ c \in Changed(sweep) \cup Reseated(sweep) => kept'[c] = Viewed(section'[c])
        /\ c \notin Changed(sweep) \cup Reseated(sweep) => kept'[c] = sweep.known[c]
  BY <1>1, <1>5
<1>8. \A c \in Crns : /\ kept'[c] \in SectionRecs \cup {Absent}
                      /\ kept'[c] # Absent => section'[c] # Absent
  BY <1>2, <1>6, <1>7, ViewShape
<1>9. kept' = [c \in Crns |-> kept'[c]]
  BY <1>1
<1>10. kept' \in Sections
  BY <1>8, <1>9 DEF Sections
<1> QED BY <1>4, <1>7, <1>8, <1>10 DEF KnownStored

LEMMA StepShapes ==
  RankShapes /\ overtaken \in SUBSET Crns /\ [Next]_rankingVars => RankShapes'
<1> SUFFICES ASSUME RankShapes, overtaken \in SUBSET Crns, [Next]_rankingVars PROVE RankShapes'
  OBVIOUS
<1> USE DEF tableVars, sweepVars
<1>1. CASE FetchSweep
  <2>1. listed' \in [Crns -> SUBSET [at : Nat, seats : Seats]]
    BY <1>1, SeenShape DEF FetchSweep
  <2>2. sweep' \in Fetches /\ sweep'.stage = "load"
    BY <1>1 DEF FetchSweep, RankShapes, Fetches
  <2>3. kept' # NoKept => KnownStored(kept)'
    BY <1>1 DEF FetchSweep, RankShapes, KnownStored
  <2> QED BY <1>1, <2>1, <2>2, <2>3 DEF FetchSweep, RankShapes
<1>2. CASE WriteSweep
  <2>1. KnownStored(kept)' /\ section' \in Sections
    BY <1>2, KeptAfter
  <2>2. DOMAIN cached' = Crns
    BY <1>2 DEF WriteSweep, RankCourses
  <2>3. sweep' \in Fetches /\ sweep'.stage = "none"
    BY <1>2 DEF WriteSweep, Fetches, NoFetch
  <2> QED BY <1>2, <2>1, <2>2, <2>3 DEF WriteSweep, RankShapes
<1>12. CASE ReuseKept
  BY <1>12, LoadSteps, LoadShapes
<1>13. CASE LoadSections
  BY <1>13, LoadSteps, LoadShapes
<1>14. CASE LoadNames
  BY <1>14, LoadSteps, LoadShapes
<1>15. CASE LoadSeats
  BY <1>15, LoadSteps, LoadShapes
<1>16. CASE FailSweep
  <2>1. sweep' \in Fetches /\ sweep'.stage = "none"
    BY <1>16 DEF FailSweep, Fetches, NoFetch
  <2> QED BY <1>16, <2>1 DEF FailSweep, RankShapes
<1>18. ASSUME section' = section, UNCHANGED sweepVars
       PROVE  /\ sweep' \in Fetches /\ (kept' # NoKept => KnownStored(kept)')
              /\ sweep'.stage \in {"names", "seats", "write"} => KnownStored(sweep.known)'
  BY <1>18 DEF RankShapes, KnownStored
<1>3. ASSUME NEW c \in Crns, NEW row \in Rows \cup {Unlisted}, ListingChanges(c, row)
      PROVE  RankShapes'
  <2>1. usf' \in Listings
    BY <1>3 DEF ListingChanges, RankShapes, Listings
  <2> QED BY <1>3, <1>18, <2>1 DEF ListingChanges, RankShapes
<1>4. ASSUME NEW course \in Courses, BeginIngest(course) PROVE RankShapes'
  <2>1. /\ ingest'.stage = "fetch" => ingest'.at \in Nat
        /\ ingest'.stage # "write"
    BY <1>4 DEF BeginIngest, RankShapes
  <2> QED BY <1>4, <1>18, <2>1 DEF BeginIngest, RankShapes
<1>5. CASE FetchIngest
  <2> DEFINE found == {c \in Crns : usf[c] # Unlisted /\ usf[c].course = ingest.course}
  <2>1. listed' \in [Crns -> SUBSET [at : Nat, seats : Seats]]
    BY <1>5, SeenShape DEF FetchIngest
  <2>2. [c \in found |-> usf[c]] \in [found -> Rows]
    BY DEF RankShapes, Listings
  <2>3. [c \in found |-> usf[c]] \in Parts
    BY <2>2 DEF Parts
  <2>4. /\ ingest'.stage = "write" /\ ingest'.at = ingest.at
        /\ ingest'.rows = [c \in found |-> usf[c]]
    BY <1>5 DEF FetchIngest
  <2>5. ingest.at \in Nat
    BY <1>5 DEF FetchIngest, RankShapes
  <2> QED BY <1>5, <1>18, <2>1, <2>3, <2>4, <2>5 DEF FetchIngest, RankShapes
<1>6. CASE WriteIngest
  <2>1. section' \in Sections
    <3>1. \A c \in Crns : section'[c] \in SectionRecs \cup {Absent}
      BY <1>6, IngestShape
    <3>2. section' = [c \in Crns |-> section'[c]]
      BY <1>6 DEF WriteIngest
    <3> QED BY <3>1, <3>2 DEF Sections
  <2>2. ingest'.stage = "none" /\ kept' = NoKept
    BY <1>6 DEF WriteIngest, NoFetch
  <2>3. /\ sweep' \in Fetches
        /\ sweep'.stage \in {"names", "seats", "write"} => KnownStored(sweep.known)'
    <3>1. \A c \in Crns : section[c] # Absent => section'[c] # Absent
      BY <1>6, IngestShape
    <3> QED BY <1>6, <3>1, IngestOvertakes DEF RankShapes, KnownStored
  <2> QED BY <1>6, <2>1, <2>2, <2>3 DEF WriteIngest, RankShapes
<1>7. ASSUME NEW d \in Documents, NEW import \in Imports, ImportSyllabus(d, import)
      PROVE  RankShapes'
  <2>1. /\ DOMAIN document' = Documents
        /\ \A e \in Documents : document'[e] # NoDocument =>
             document'[e].term \in Nat /\ document'[e].at \in Nat
    <3>1. import.term \in Nat /\ clock \in Nat
      BY RankingAssumption DEF RankShapes
    <3>2. /\ document'[d].term = import.term /\ document'[d].at = clock
          /\ \A e \in Documents \ {d} : document'[e] = document[e]
          /\ DOMAIN document' = Documents
      BY <1>7 DEF ImportSyllabus, RankShapes
    <3> QED BY <3>1, <3>2 DEF RankShapes
  <2> QED BY <1>7, <1>18, <2>1 DEF ImportSyllabus, RankShapes
<1>8. ASSUME NEW course \in Courses, NEW entry \in Entries, ImportCatalog(course, entry)
      PROVE  RankShapes'
  <2>1. catalog' \in [Courses -> Entries]
    BY <1>8 DEF ImportCatalog, RankShapes
  <2> QED BY <1>8, <1>18, <2>1 DEF ImportCatalog, RankShapes
<1>9. ASSUME NEW courses, Rank(courses) PROVE RankShapes'
  <2>1. DOMAIN cached' = Crns
    BY <1>9 DEF Rank, RankCourses
  <2> QED BY <1>9, <1>18, <2>1 DEF Rank, RankShapes
<1>10. CASE Tick
  BY <1>10, <1>18 DEF Tick, RankShapes
<1>11. CASE UNCHANGED rankingVars
  BY <1>11, <1>18 DEF rankingVars, RankShapes
<1> QED BY <1>1, <1>2, <1>3, <1>4, <1>5, <1>6, <1>7, <1>8, <1>9, <1>10, <1>11, <1>12, <1>13,
          <1>14, <1>15, <1>16 DEF Next

---------------------------------------------------------------------------
(* Seats: some fetch has seen the counts of the snapshot, no earlier than the time the
   age is taken from; of a section that an ingest overtook, than its own time *)
SeenSince(c, seats, at) ==
  \E entry \in listed[c] : entry.at \in Nat /\ entry.seats = seats /\ entry.at >= at

StoredSeen ==
  /\ \A c \in Stored : SeenSince(c, section[c].snapshot, section[c].snapshotAt)
  /\ \A c \in Active \ overtaken :
       SeenSince(c, section[c].snapshot, LaterOf(section[c].snapshotAt, section[c].seen))

FetchesSeen ==
  /\ sweep # NoFetch =>
       \A c \in Crns : sweep.rows[c] # Unlisted => SeenSince(c, sweep.rows[c].seats, sweep.at)
  /\ ingest.stage = "fetch" => ingest.at <= clock
  /\ ingest.stage = "write" =>
       \A c \in DOMAIN ingest.rows : SeenSince(c, ingest.rows[c].seats, ingest.at)

(* What a sweep knows of the sections no ingest has written since it read them *)
Matches(known, c) ==
  /\ known[c] = Absent <=> section[c] = Absent
  /\ section[c] # Absent => known[c].removed = section[c].removed

SeatsMatch(known, c) ==
  Matches(known, c) /\ (section[c] # Absent => known[c].snapshot = section[c].snapshot)

KnownMatches ==
  /\ overtaken \in SUBSET Crns
  /\ kept # NoKept => \A c \in Crns \ overtaken : SeatsMatch(kept, c)
  /\ sweep.stage \in {"names", "seats", "write"} =>
       \A c \in Crns \ sweep.since : Matches(sweep.known, c)
  /\ sweep.stage = "write" => \A c \in Crns \ sweep.since : SeatsMatch(sweep.known, c)

SeatsListed == StoredSeen /\ FetchesSeen /\ KnownMatches

(* A step that writes no section keeps what is stored of it *)
LEMMA StoredStay ==
  ASSUME RankShapes, StoredSeen, section' = section, overtaken' = overtaken,
         \A c \in Crns : listed[c] \subseteq listed'[c]
  PROVE  StoredSeen'
<1>1. Stored' = Stored /\ Active' = Active /\ Active \subseteq Stored /\ Stored \subseteq Crns
  BY DEF Stored, Active
<1>2. ASSUME NEW c \in Stored'
      PROVE  SeenSince(c, section[c].snapshot, section[c].snapshotAt)'
  <2>1. c \in Crns /\ SeenSince(c, section[c].snapshot, section[c].snapshotAt)
    BY <1>1, <1>2 DEF StoredSeen
  <2> QED BY <2>1 DEF SeenSince
<1>3. ASSUME NEW c \in Active' \ overtaken'
      PROVE  SeenSince(c, section[c].snapshot, LaterOf(section[c].snapshotAt, section[c].seen))'
  <2>1. c \in Crns
        /\ SeenSince(c, section[c].snapshot, LaterOf(section[c].snapshotAt, section[c].seen))
    BY <1>1, <1>3 DEF StoredSeen
  <2>2. PICK later : later = LaterOf(section[c].snapshotAt, section[c].seen)
    OBVIOUS
  <2>3. SeenSince(c, section[c].snapshot, later)'
    BY <2>1, <2>2 DEF SeenSince
  <2> QED BY <2>2, <2>3
<1> QED BY <1>2, <1>3 DEF StoredSeen

(* What was fetched stays seen *)
LEMMA FetchedStay ==
  ASSUME RankShapes, FetchesSeen, \A c \in Crns : listed[c] \subseteq listed'[c]
  PROVE  /\ \A c \in Crns : sweep # NoFetch /\ sweep.rows[c] # Unlisted =>
              \E entry \in listed'[c] : /\ entry.at \in Nat /\ entry.at >= sweep.at
                                       /\ entry.seats = sweep.rows[c].seats
         /\ ingest.stage = "write" => \A c \in DOMAIN ingest.rows :
              \E entry \in listed'[c] : /\ entry.at \in Nat /\ entry.at >= ingest.at
                                       /\ entry.seats = ingest.rows[c].seats
<1>1. ASSUME NEW c \in Crns, sweep # NoFetch, sweep.rows[c] # Unlisted
      PROVE  \E entry \in listed'[c] : /\ entry.at \in Nat /\ entry.at >= sweep.at
                                       /\ entry.seats = sweep.rows[c].seats
  BY <1>1 DEF FetchesSeen, SeenSince
<1>2. ASSUME ingest.stage = "write", NEW c \in DOMAIN ingest.rows
      PROVE  \E entry \in listed'[c] : /\ entry.at \in Nat /\ entry.at >= ingest.at
                                       /\ entry.seats = ingest.rows[c].seats
  <2>1. c \in Crns
    BY <1>2 DEF RankShapes, Parts
  <2> QED BY <1>2, <2>1 DEF FetchesSeen, SeenSince
<1> QED BY <1>1, <1>2

(* A step that fetches nothing and does not change what a job has fetched *)
LEMMA FetchesStay ==
  ASSUME RankShapes, FetchesSeen, listed' = listed, ingest' = ingest,
         clock' = clock \/ clock' = clock + 1,
         sweep' # NoFetch => /\ sweep # NoFetch /\ sweep'.at = sweep.at
                            /\ sweep'.rows = sweep.rows
  PROVE  FetchesSeen'
<1>1. ASSUME sweep' # NoFetch, NEW c \in Crns, sweep'.rows[c] # Unlisted
      PROVE  SeenSince(c, sweep.rows[c].seats, sweep.at)'
  <2>1. SeenSince(c, sweep.rows[c].seats, sweep.at)
    BY <1>1 DEF FetchesSeen
  <2> QED BY <1>1, <2>1 DEF SeenSince
<1>2. ASSUME ingest.stage = "write", NEW c \in DOMAIN ingest.rows
      PROVE  SeenSince(c, ingest.rows[c].seats, ingest.at)'
  <2>1. SeenSince(c, ingest.rows[c].seats, ingest.at)
    BY <1>2 DEF FetchesSeen
  <2> QED BY <2>1 DEF SeenSince
<1>3. ASSUME ingest.stage = "fetch" PROVE ingest.at <= clock'
  BY <1>3 DEF FetchesSeen, RankShapes
<1> QED BY <1>1, <1>2, <1>3 DEF FetchesSeen

LEMMA KnownStay ==
  ASSUME KnownMatches, section' = section, UNCHANGED <<sweep, kept, overtaken>>
  PROVE  KnownMatches'
BY DEF KnownMatches, SeatsMatch, Matches

(* A step that fetches nothing and writes no section *)
LEMMA SeatsStay ==
  ASSUME RankShapes, SeatsListed, listed' = listed, section' = section,
         UNCHANGED <<sweep, kept, overtaken>>,
         ingest' = ingest, clock' = clock \/ clock' = clock + 1
  PROVE  SeatsListed'
BY StoredStay, FetchesStay, KnownStay DEF SeatsListed

LEMMA LaterIs ==
  ASSUME NEW m \in Nat, NEW n \in Nat
  PROVE  /\ LaterOf(m, n) \in Nat /\ LaterOf(m, n) >= m /\ LaterOf(m, n) >= n
         /\ m >= n => LaterOf(m, n) = m
         /\ n >= m => LaterOf(m, n) = n
BY DEF LaterOf

(* A section observed again keeps its counts for a reason, or has the new ones *)
LEMMA ObservedSeats ==
  ASSUME NEW c, NEW s \in SectionRecs, NEW t \in SectionRecs, NEW at \in Nat, NEW seats,
         SeenSince(c, s.snapshot, s.snapshotAt), SeenSince(c, seats, at), t.seen = at,
         \/ t.snapshot = s.snapshot /\ t.snapshotAt = s.snapshotAt
            /\ (s.snapshot = seats \/ at < s.snapshotAt)
         \/ t.snapshot = seats /\ t.snapshotAt = at
  PROVE  /\ SeenSince(c, t.snapshot, LaterOf(t.snapshotAt, t.seen))
         /\ SeenSince(c, t.snapshot, t.snapshotAt)
<1>1. s.snapshotAt \in Nat /\ s.seen \in Nat /\ t.snapshotAt \in Nat /\ t.seen \in Nat
  BY DEF SectionRecs
<1>2. PICK e1 \in listed[c] : /\ e1.at \in Nat /\ e1.seats = s.snapshot
                              /\ e1.at >= s.snapshotAt
  BY DEF SeenSince
<1>4. PICK e2 \in listed[c] : e2.at \in Nat /\ e2.seats = seats /\ e2.at >= at
  BY DEF SeenSince
<1>5. CASE t.snapshot = seats /\ t.snapshotAt = at
  <2>1. LaterOf(t.snapshotAt, t.seen) = at
    BY <1>1, <1>5, LaterIs
  <2> QED BY <1>4, <1>5, <2>1 DEF SeenSince
<1>6. CASE t.snapshot = s.snapshot /\ t.snapshotAt = s.snapshotAt /\ at <= s.snapshotAt
  <2>1. LaterOf(t.snapshotAt, t.seen) = s.snapshotAt
    BY <1>1, <1>6, LaterIs
  <2> QED BY <1>2, <1>6, <2>1 DEF SeenSince
<1>7. CASE /\ t.snapshot = s.snapshot /\ t.snapshotAt = s.snapshotAt /\ s.snapshot = seats
           /\ s.snapshotAt <= at
  <2>1. LaterOf(t.snapshotAt, t.seen) = at
    BY <1>1, <1>7, LaterIs
  <2> QED BY <1>2, <1>4, <1>7, <2>1 DEF SeenSince
<1> QED BY <1>1, <1>5, <1>6, <1>7

(* What a sweep has fetched, and what it leaves *)
LEMMA SweptSeats ==
  ASSUME RankShapes, SeatsListed, sweep.stage = "write", NEW c \in Crns,
         NEW new, new = AfterSweep(sweep)[c], new # Absent
  PROVE  /\ SeenSince(c, new.snapshot, new.snapshotAt)
         /\ ~new.removed /\ c \notin sweep.since \ Reseated(sweep) =>
              SeenSince(c, new.snapshot, LaterOf(new.snapshotAt, new.seen))
<1>1. PICK row : row = sweep.rows[c]
  OBVIOUS
<1>2. PICK known : known = sweep.known[c]
  OBVIOUS
<1>0. sweep # NoFetch
  BY FetchKinds DEF RankShapes
<1>3. /\ sweep.at \in Nat
      /\ c \in Relisted(sweep) => row \in Rows /\ section[c] \in SectionRecs
      /\ c \in Inserted(sweep) => row \in Rows /\ new = NewSection(row, sweep.at)
      /\ c \in Removed(sweep) =>
              section[c] \in SectionRecs /\ new = [section[c] EXCEPT !.removed = TRUE]
      /\ c \notin Relisted(sweep) \cup Inserted(sweep) \cup Removed(sweep) => new = section[c]
  BY <1>1, <1>2, AfterSweepIs
<1>13. c \notin Relisted(sweep) \cup Inserted(sweep) \cup Removed(sweep) =>
         known = Absent \/ known.removed
  BY <1>2 DEF Relisted, Inserted, Removed
<1>4. row \in Rows => SeenSince(c, row.seats, sweep.at)
  BY <1>0, <1>1, RowFields DEF SeatsListed, FetchesSeen
<1>5. c \in Stored => SeenSince(c, section[c].snapshot, section[c].snapshotAt)
  BY DEF SeatsListed, StoredSeen
<1>6. c \notin sweep.since => SeatsMatch(sweep.known, c)
  BY DEF SeatsListed, KnownMatches
<1>7. c \in Relisted(sweep) => (c \in Reseated(sweep) <=> known.snapshot # row.seats)
  BY <1>1, <1>2 DEF Reseated
<1>8. c \in Reseated(sweep) => c \in Relisted(sweep)
  BY DEF Reseated
<1> HIDE DEF Relisted, Inserted, Removed, Reseated
<1>9. CASE c \in Relisted(sweep)
  <2>1. PICK s : s = section[c]
    OBVIOUS
  <2>2. /\ new \in SectionRecs /\ new.seen = sweep.at /\ s.snapshotAt \in Nat
        /\ known.snapshot = row.seats =>
             new.snapshot = s.snapshot /\ new.snapshotAt = s.snapshotAt
        /\ known.snapshot # row.seats =>
             \/ new.snapshot = s.snapshot /\ new.snapshotAt = s.snapshotAt
                /\ sweep.at < s.snapshotAt
             \/ new.snapshot = row.seats /\ new.snapshotAt = sweep.at
    <3>1. RelistedAs(new, s, known, row, sweep.at)
      BY <1>1, <1>2, <1>9, <2>1, RelistedIs
    <3> QED BY <3>1 DEF RelistedAs, SweptFrom
  <2>3. c \in Stored /\ SeenSince(c, s.snapshot, s.snapshotAt)
        /\ SeenSince(c, row.seats, sweep.at)
    BY <1>3, <1>4, <1>5, <1>9, <2>1, RecsPresent DEF Stored
  <2>4. CASE c \in Reseated(sweep)
    <3>1. \/ new.snapshot = s.snapshot /\ new.snapshotAt = s.snapshotAt
             /\ (s.snapshot = row.seats \/ sweep.at < s.snapshotAt)
          \/ new.snapshot = row.seats /\ new.snapshotAt = sweep.at
      BY <1>7, <1>9, <2>2, <2>4
    <3> QED BY <1>3, <2>1, <2>2, <2>3, <3>1, ObservedSeats
  <2>5. CASE c \notin Reseated(sweep) /\ c \notin sweep.since
    <3>1. s.snapshot = row.seats
      <4>1. known.snapshot = s.snapshot
        BY <1>2, <1>6, <2>1, <2>3, <2>5 DEF SeatsMatch, Stored
      <4> QED BY <1>7, <1>9, <2>5, <4>1
    <3>2. \/ new.snapshot = s.snapshot /\ new.snapshotAt = s.snapshotAt
             /\ (s.snapshot = row.seats \/ sweep.at < s.snapshotAt)
          \/ new.snapshot = row.seats /\ new.snapshotAt = sweep.at
      BY <1>7, <1>9, <2>2, <2>5, <3>1
    <3> QED BY <1>3, <2>1, <2>2, <2>3, <3>2, ObservedSeats
  <2>6. CASE c \notin Reseated(sweep) /\ c \in sweep.since
    BY <1>7, <1>9, <2>2, <2>3, <2>6
  <2> QED BY <2>4, <2>5, <2>6
<1>10. CASE c \in Inserted(sweep)
  <2>1. new.snapshot = row.seats /\ new.snapshotAt = sweep.at /\ new.seen = sweep.at
    BY <1>3, <1>10 DEF NewSection
  <2>2. LaterOf(new.snapshotAt, new.seen) = sweep.at
    BY <1>3, <2>1, LaterIs
  <2> QED BY <1>3, <1>4, <1>10, <2>1, <2>2
<1>11. CASE c \in Removed(sweep)
  <2>1. /\ new.snapshot = section[c].snapshot /\ new.snapshotAt = section[c].snapshotAt
        /\ new.removed /\ c \in Stored
    BY <1>3, <1>11, RemovedShape, RecsPresent DEF Stored
  <2> QED BY <1>5, <2>1
<1>12. CASE c \notin Relisted(sweep) \cup Inserted(sweep) \cup Removed(sweep)
  <2>1. new = section[c] /\ c \in Stored /\ (known = Absent \/ known.removed)
    BY <1>3, <1>12, <1>13 DEF Stored
  <2>2. c \notin sweep.since => new.removed
    BY <1>2, <1>6, <2>1 DEF SeatsMatch, Matches, Stored
  <2>3. c \notin Reseated(sweep)
    BY <1>8, <1>12
  <2> QED BY <1>5, <2>1, <2>2, <2>3
<1> QED BY <1>9, <1>10, <1>11, <1>12

(* What a sweep keeps matches what it leaves, but where an ingest overtook it *)
LEMMA SweptMatches ==
  ASSUME RankShapes, SeatsListed, WriteSweep, NEW c \in Crns, c \notin overtaken'
  PROVE  SeatsMatch(kept, c)'
<1>1. /\ sweep.stage = "write" /\ section' = AfterSweep(sweep)
      /\ overtaken' = sweep.since \ Reseated(sweep)
  BY DEF WriteSweep
<1>2. PICK new : new = section'[c]
  OBVIOUS
<1>3. new \in SectionRecs \cup {Absent}
  BY <1>1, <1>2, AfterSweepShape
<1>4. CASE c \in Changed(sweep) \cup Reseated(sweep)
  <2>1. kept'[c] = Viewed(new)
    BY <1>2, <1>4, KeptAfter
  <2> QED BY <1>2, <1>3, <2>1, ViewShape DEF SeatsMatch, Matches
<1>5. CASE c \notin Changed(sweep) \cup Reseated(sweep)
  <2>1. kept'[c] = sweep.known[c]
    BY <1>5, KeptAfter
  <2>2. c \notin sweep.since
    BY <1>1, <1>5
  <2>3. SeatsMatch(sweep.known, c)
    BY <1>1, <2>2 DEF SeatsListed, KnownMatches
  <2>4. PICK row : row = sweep.rows[c]
    OBVIOUS
  <2>5. PICK known : known = sweep.known[c]
    OBVIOUS
  <2>6. /\ sweep.at \in Nat
        /\ c \in Relisted(sweep) =>
                /\ row \in Rows /\ known \in SectionRecs /\ section[c] \in SectionRecs
                /\ new = Swept(section[c], known, row, sweep.at)
        /\ c \notin Relisted(sweep) \cup Inserted(sweep) \cup Removed(sweep) =>
                new = section[c]
    BY <1>1, <1>2, <2>4, <2>5, AfterSweepIs
  <2>7. c \notin Inserted(sweep) \cup Removed(sweep)
    BY <1>5 DEF Changed
  <2>8. c \in Relisted(sweep) => known.removed = FALSE /\ known.snapshot = row.seats
    <3>1. c \in Relisted(sweep) => ~known.removed /\ known.snapshot = row.seats
      BY <1>5, <2>4, <2>5 DEF Changed, Reseated
    <3> QED BY <2>6, <3>1 DEF SectionRecs
  <2> HIDE DEF Relisted, Inserted, Removed
  <2>9. CASE c \in Relisted(sweep)
    <3>1. /\ new # Absent /\ section[c] # Absent
          /\ new.snapshot = section[c].snapshot
          /\ new.removed = section[c].removed
      <4>1. RelistedAs(new, section[c], known, row, sweep.at)
        BY <1>1, <1>2, <2>4, <2>5, <2>9, RelistedIs
      <4> QED BY <2>8, <2>9, <4>1 DEF RelistedAs, SweptFrom
    <3> QED BY <1>2, <2>1, <2>3, <3>1 DEF SeatsMatch, Matches
  <2>10. CASE c \notin Relisted(sweep)
    <3>1. new = section[c]
      BY <2>6, <2>7, <2>10
    <3> QED BY <1>2, <2>1, <2>3, <3>1 DEF SeatsMatch, Matches
  <2> QED BY <2>9, <2>10
<1> QED BY <1>4, <1>5

LEMMA IngestSeats ==
  ASSUME RankShapes, SeatsListed, WriteIngest, NEW c \in Crns,
         NEW new, new = section'[c], new # Absent
  PROVE  /\ SeenSince(c, new.snapshot, new.snapshotAt)
         /\ ~new.removed /\ c \notin overtaken' =>
              SeenSince(c, new.snapshot, LaterOf(new.snapshotAt, new.seen))
<1>1. /\ c \in Stored => SeenSince(c, section[c].snapshot, section[c].snapshotAt)
      /\ c \in Active \ overtaken =>
           SeenSince(c, section[c].snapshot, LaterOf(section[c].snapshotAt, section[c].seen))
  BY DEF SeatsListed, StoredSeen
<1>2. CASE c \notin DOMAIN ingest.rows
  <2>1. new = section[c] /\ c \in Stored /\ (c \notin overtaken' => c \notin overtaken)
    BY <1>2, IngestWrites DEF Stored, WriteIngest
  <2> QED BY <1>1, <2>1 DEF Active
<1>3. CASE c \in DOMAIN ingest.rows
  <2>1. ingest.at \in Nat /\ ingest.rows[c] \in Rows
    BY <1>3, IngestWrites
  <2>2. SeenSince(c, ingest.rows[c].seats, ingest.at)
    BY <1>3 DEF SeatsListed, FetchesSeen, WriteIngest
  <2>3. CASE c \in Stored
    <3>1. section[c] \in SectionRecs
      BY <2>3 DEF Stored, RankShapes, Sections
    <3>2. new = Overwritten(section[c], ingest.rows[c], ingest.at)
      BY <1>3, <2>3, IngestWrites
    <3>3. /\ new \in SectionRecs /\ new.seen = ingest.at
          /\ \/ new.snapshot = section[c].snapshot /\ new.snapshotAt = section[c].snapshotAt
                /\ ingest.at < section[c].snapshotAt
             \/ new.snapshot = ingest.rows[c].seats /\ new.snapshotAt = ingest.at
      BY <2>1, <3>1, <3>2, OverwrittenShape
    <3> QED BY <1>1, <2>1, <2>2, <2>3, <3>1, <3>3, ObservedSeats
  <2>4. CASE c \notin Stored
    <3>1. new = NewSection(ingest.rows[c], ingest.at)
      BY <1>3, <2>4, IngestWrites
    <3>2. /\ new.snapshot = ingest.rows[c].seats /\ new.snapshotAt = ingest.at
          /\ new.seen = ingest.at
      BY <3>1 DEF NewSection
    <3>3. LaterOf(new.snapshotAt, new.seen) = ingest.at
      BY <2>1, <3>2, LaterIs
    <3> QED BY <2>2, <3>2, <3>3
  <2> QED BY <2>3, <2>4
<1> QED BY <1>2, <1>3

(* What a load has read matches what is stored: all of it, when it is read anew *)
LEMMA LoadMatches ==
  ASSUME RankShapes, SeatsListed, NEW stage \in {"names", "seats", "write"}, NEW known, NEW since,
         LoadStep(stage, known, since),
         \A c \in Crns \ since : Matches(known, c),
         stage = "write" => \A c \in Crns \ since : SeatsMatch(known, c)
  PROVE  SeatsListed'
<1>1. /\ sweep'.stage = stage /\ sweep'.known = known /\ sweep'.since = since
      /\ sweep'.at = sweep.at /\ sweep'.rows = sweep.rows /\ sweep # NoFetch
  BY LoadedShape
<1>2. /\ section' = section /\ listed' = listed /\ ingest' = ingest /\ clock' = clock
      /\ kept' = kept /\ overtaken' = overtaken
  BY DEF LoadStep, Loaded, tableVars
<1>3. StoredSeen' /\ FetchesSeen'
  BY <1>1, <1>2, StoredStay, FetchesStay DEF SeatsListed
<1>4. KnownMatches'
  BY <1>1, <1>2 DEF SeatsListed, KnownMatches, Matches, SeatsMatch
<1> QED BY <1>3, <1>4 DEF SeatsListed

LEMMA LoadSeatsListed ==
  ASSUME RankShapes, SeatsListed, ReuseKept \/ LoadSections \/ LoadNames \/ LoadSeats
  PROVE  SeatsListed'
<1>0. overtaken \in SUBSET Crns
  BY DEF SeatsListed, KnownMatches
<1>1. CASE ReuseKept
  <2>1. LoadStep("write", kept, overtaken) /\ kept # NoKept
    BY <1>0, <1>1, LoadSteps DEF ReuseKept
  <2>2. \A c \in Crns \ overtaken : Matches(kept, c) /\ SeatsMatch(kept, c)
    BY <2>1 DEF SeatsListed, KnownMatches, SeatsMatch
  <2> QED BY <2>1, <2>2, LoadMatches
<1>2. CASE LoadSections
  <2>1. LoadStep("names", View, {})
    BY <1>0, <1>2, LoadSteps
  <2>2. \A c \in Crns : section[c] \in SectionRecs \cup {Absent}
    BY DEF RankShapes, Sections
  <2>3. \A c \in Crns : Matches(View, c)
    BY <2>2, ViewShape DEF View, Matches
  <2> QED BY <2>1, <2>3, LoadMatches
<1>3. CASE LoadNames
  <2>1. PICK known :
          /\ LoadStep("seats", known, sweep.since)
          /\ \A c \in Crns : /\ known[c] = Absent <=> sweep.known[c] = Absent
                             /\ known[c] # Absent => known[c].removed = sweep.known[c].removed
    BY <1>0, <1>3, LoadSteps
  <2>2. \A c \in Crns \ sweep.since : Matches(sweep.known, c)
    BY <1>3 DEF LoadNames, SeatsListed, KnownMatches
  <2>3. \A c \in Crns \ sweep.since : Matches(known, c)
    BY <2>1, <2>2 DEF Matches
  <2> QED BY <2>1, <2>3, LoadMatches
<1>4. CASE LoadSeats
  <2>1. PICK known :
          /\ LoadStep("write", known, sweep.since)
          /\ \A c \in Crns : /\ known[c] = Absent <=> sweep.known[c] = Absent
                             /\ known[c] # Absent =>
                                  /\ known[c].removed = sweep.known[c].removed
                                  /\ known[c].snapshot = section[c].snapshot
    BY <1>0, <1>4, LoadSteps
  <2>2. \A c \in Crns \ sweep.since : Matches(sweep.known, c)
    BY <1>4 DEF LoadSeats, SeatsListed, KnownMatches
  <2>3. \A c \in Crns \ sweep.since : Matches(known, c) /\ SeatsMatch(known, c)
    BY <2>1, <2>2 DEF Matches, SeatsMatch
  <2> QED BY <2>1, <2>3, LoadMatches
<1> QED BY <1>1, <1>2, <1>3, <1>4

LEMMA StepSeats == RankShapes /\ SeatsListed /\ [Next]_rankingVars => SeatsListed'
<1> SUFFICES ASSUME RankShapes, SeatsListed, [Next]_rankingVars PROVE SeatsListed'
  OBVIOUS
<1> USE DEF tableVars, sweepVars
<1>1. CASE FetchSweep
  <2>1. /\ \A c \in Crns : listed[c] \subseteq listed'[c]
        /\ \A c \in Crns \cap Crns : usf[c] # Unlisted =>
             [at |-> clock, seats |-> usf[c].seats] \in listed'[c]
    BY <1>1, SeenShape DEF FetchSweep
  <2>2. /\ section' = section /\ ingest' = ingest /\ clock' = clock /\ clock \in Nat
        /\ sweep'.stage = "load" /\ sweep'.at = clock /\ sweep'.rows = usf
        /\ kept' = kept /\ overtaken' = overtaken
    BY <1>1 DEF FetchSweep, RankShapes
  <2>3. ASSUME NEW c \in Crns, usf[c] # Unlisted
        PROVE  \E entry \in listed'[c] : /\ entry.at \in Nat /\ entry.seats = usf[c].seats
                                         /\ entry.at >= clock
    <3>1. [at |-> clock, seats |-> usf[c].seats] \in listed'[c]
      BY <2>1, <2>3
    <3> QED BY <2>2, <3>1
  <2>4. FetchesSeen'
    <3>1. (\A c \in Crns : sweep.rows[c] # Unlisted =>
             SeenSince(c, sweep.rows[c].seats, sweep.at))'
      BY <2>2, <2>3 DEF SeenSince
    <3>2. (ingest.stage = "write" =>
             \A c \in DOMAIN ingest.rows : SeenSince(c, ingest.rows[c].seats, ingest.at))'
      BY <2>1, <2>2, FetchedStay DEF SeatsListed, SeenSince
    <3>3. (ingest.stage = "fetch" => ingest.at <= clock)'
      BY <2>2 DEF SeatsListed, FetchesSeen
    <3> QED BY <3>1, <3>2, <3>3 DEF FetchesSeen
  <2>5. KnownMatches'
    BY <2>2 DEF SeatsListed, KnownMatches, SeatsMatch, Matches
  <2> QED BY <2>1, <2>2, <2>4, <2>5, StoredStay DEF SeatsListed
<1>2. CASE WriteSweep
  <2>1. /\ sweep.stage = "write" /\ section' = AfterSweep(sweep) /\ sweep' = NoFetch
        /\ overtaken' = sweep.since \ Reseated(sweep)
        /\ listed' = listed /\ ingest' = ingest /\ clock' = clock
    BY <1>2 DEF WriteSweep
  <2>2. ASSUME NEW c \in Stored'
        PROVE  /\ SeenSince(c, section[c].snapshot, section[c].snapshotAt)'
               /\ c \in Active' \ overtaken' =>
                    SeenSince(c, section[c].snapshot,
                              LaterOf(section[c].snapshotAt, section[c].seen))'
    <3>1. PICK new : new = section'[c]
      OBVIOUS
    <3>2. c \in Crns /\ new = AfterSweep(sweep)[c] /\ new # Absent
      BY <2>1, <2>2, <3>1 DEF Stored
    <3>3. /\ SeenSince(c, new.snapshot, new.snapshotAt)
          /\ ~new.removed /\ c \notin sweep.since \ Reseated(sweep) =>
               SeenSince(c, new.snapshot, LaterOf(new.snapshotAt, new.seen))
      BY <2>1, <3>2, SweptSeats
    <3>4. c \in Active' \ overtaken' => ~new.removed /\ c \notin sweep.since \ Reseated(sweep)
      BY <2>1, <3>1 DEF Active
    <3> QED BY <2>1, <3>1, <3>3, <3>4 DEF SeenSince
  <2>3. StoredSeen'
    BY <2>2 DEF StoredSeen, Active
  <2>4. FetchesSeen'
    BY <2>1, FetchesStay DEF SeatsListed
  <2>5. KnownMatches'
    <3>1. sweep'.stage = "none"
      BY <2>1 DEF NoFetch
    <3>2. overtaken' \in SUBSET Crns
      BY <2>1, FetchKinds DEF RankShapes
    <3> QED BY <1>2, <3>1, <3>2, SweptMatches DEF KnownMatches
  <2> QED BY <2>3, <2>4, <2>5 DEF SeatsListed
<1>12. CASE ReuseKept \/ LoadSections \/ LoadNames \/ LoadSeats
  BY <1>12, LoadSeatsListed
<1>13. CASE FailSweep
  <2>1. /\ sweep' = NoFetch /\ sweep'.stage = "none" /\ kept' = NoKept
        /\ overtaken' = overtaken /\ section' = section /\ listed' = listed
        /\ ingest' = ingest /\ clock' = clock
    BY <1>13 DEF FailSweep, NoFetch
  <2>2. KnownMatches'
    BY <2>1 DEF SeatsListed, KnownMatches
  <2> QED BY <2>1, <2>2, StoredStay, FetchesStay DEF SeatsListed
<1>3. ASSUME NEW c \in Crns, NEW row \in Rows \cup {Unlisted}, ListingChanges(c, row)
      PROVE  SeatsListed'
  BY <1>3, SeatsStay DEF ListingChanges
<1>4. ASSUME NEW course \in Courses, BeginIngest(course) PROVE SeatsListed'
  <2>1. /\ section' = section /\ UNCHANGED <<sweep, kept, overtaken>> /\ listed' = listed
        /\ clock' = clock /\ ingest'.stage = "fetch" /\ ingest'.at = clock /\ clock \in Nat
    BY <1>4 DEF BeginIngest, RankShapes
  <2>2. FetchesSeen'
    <3>1. (sweep # NoFetch => \A c \in Crns : sweep.rows[c] # Unlisted =>
             SeenSince(c, sweep.rows[c].seats, sweep.at))'
      BY <2>1, FetchedStay DEF SeatsListed, SeenSince
    <3> QED BY <2>1, <3>1 DEF FetchesSeen
  <2> QED BY <2>1, <2>2, StoredStay, KnownStay DEF SeatsListed
<1>5. CASE FetchIngest
  <2> DEFINE found == {c \in Crns : usf[c] # Unlisted /\ usf[c].course = ingest.course}
  <2>1. /\ section' = section /\ UNCHANGED <<sweep, kept, overtaken>> /\ clock' = clock
        /\ ingest.stage = "fetch" /\ ingest'.stage = "write" /\ ingest'.at = ingest.at
        /\ ingest'.rows = [c \in found |-> usf[c]] /\ SeenNow(found)
    BY <1>5 DEF FetchIngest
  <2>2. /\ \A c \in Crns : listed[c] \subseteq listed'[c]
        /\ \A c \in Crns \cap found : usf[c] # Unlisted =>
             [at |-> clock, seats |-> usf[c].seats] \in listed'[c]
    BY <2>1, SeenShape
  <2>3. ingest.at <= clock /\ ingest.at \in Nat /\ clock \in Nat
    BY <2>1 DEF SeatsListed, FetchesSeen, RankShapes
  <2>4. ASSUME NEW c \in found
        PROVE  \E entry \in listed'[c] : /\ entry.at \in Nat /\ entry.seats = usf[c].seats
                                         /\ entry.at >= ingest.at
    <3>1. [at |-> clock, seats |-> usf[c].seats] \in listed'[c]
      BY <2>2, <2>4
    <3> QED BY <2>3, <3>1
  <2> HIDE DEF found
  <2>5. FetchesSeen'
    <3>1. (\A c \in DOMAIN ingest.rows : SeenSince(c, ingest.rows[c].seats, ingest.at))'
      BY <2>1, <2>4 DEF SeenSince
    <3>2. (sweep # NoFetch => \A c \in Crns : sweep.rows[c] # Unlisted =>
             SeenSince(c, sweep.rows[c].seats, sweep.at))'
      BY <2>1, <2>2, FetchedStay DEF SeatsListed, SeenSince
    <3>3. ingest'.stage # "fetch"
      BY <2>1
    <3> QED BY <3>1, <3>2, <3>3 DEF FetchesSeen
  <2> QED BY <2>1, <2>2, <2>5, StoredStay, KnownStay DEF SeatsListed
<1>6. CASE WriteIngest
  <2>1. /\ ingest'.stage = "none" /\ kept' = NoKept /\ listed' = listed
        /\ overtaken' = overtaken \ DOMAIN ingest.rows
    BY <1>6 DEF WriteIngest, NoFetch
  <2>2. ASSUME NEW c \in Stored'
        PROVE  /\ SeenSince(c, section[c].snapshot, section[c].snapshotAt)'
               /\ c \in Active' \ overtaken' =>
                    SeenSince(c, section[c].snapshot,
                              LaterOf(section[c].snapshotAt, section[c].seen))'
    <3>1. PICK new : new = section'[c]
      OBVIOUS
    <3>2. c \in Crns /\ new # Absent
      BY <2>2, <3>1 DEF Stored
    <3>3. /\ SeenSince(c, new.snapshot, new.snapshotAt)
          /\ ~new.removed /\ c \notin overtaken' =>
               SeenSince(c, new.snapshot, LaterOf(new.snapshotAt, new.seen))
      BY <1>6, <3>1, <3>2, IngestSeats
    <3>4. c \in Active' \ overtaken' => ~new.removed
      BY <3>1 DEF Active
    <3> QED BY <2>1, <3>1, <3>3, <3>4 DEF SeenSince
  <2>3. StoredSeen'
    BY <2>2 DEF StoredSeen, Active
  <2>4. FetchesSeen'
    <3>1. (sweep # NoFetch => \A c \in Crns : sweep.rows[c] # Unlisted =>
             SeenSince(c, sweep.rows[c].seats, sweep.at))'
      BY <1>6, <2>1, IngestOvertakes, FetchedStay DEF SeatsListed, SeenSince
    <3> QED BY <2>1, <3>1 DEF FetchesSeen
  <2>5. KnownMatches'
    <3>1. overtaken' \in SUBSET Crns
      BY <2>1 DEF SeatsListed, KnownMatches
    <3>2. ASSUME sweep'.stage \in {"names", "seats", "write"}
          PROVE  /\ sweep.stage = sweep'.stage /\ sweep'.known = sweep.known
                 /\ \A c \in Crns \ sweep'.since :
                      c \notin sweep.since /\ section'[c] = section[c]
      BY <1>6, <3>2, IngestOvertakes, IngestWrites
    <3>3. sweep'.stage \in {"names", "seats", "write"} =>
            \A c \in Crns \ sweep'.since : Matches(sweep.known, c)'
      BY <3>2 DEF SeatsListed, KnownMatches, Matches
    <3>4. sweep'.stage = "write" =>
            \A c \in Crns \ sweep'.since : SeatsMatch(sweep.known, c)'
      BY <3>2 DEF SeatsListed, KnownMatches, Matches, SeatsMatch
    <3> QED BY <2>1, <3>1, <3>3, <3>4 DEF KnownMatches
  <2> QED BY <2>3, <2>4, <2>5 DEF SeatsListed
<1>7. ASSUME NEW d \in Documents, NEW import \in Imports, ImportSyllabus(d, import)
      PROVE  SeatsListed'
  BY <1>7, SeatsStay DEF ImportSyllabus
<1>8. ASSUME NEW course \in Courses, NEW entry \in Entries, ImportCatalog(course, entry)
      PROVE  SeatsListed'
  BY <1>8, SeatsStay DEF ImportCatalog
<1>9. ASSUME NEW courses, Rank(courses) PROVE SeatsListed'
  BY <1>9, SeatsStay DEF Rank
<1>10. CASE Tick
  BY <1>10, SeatsStay DEF Tick
<1>11. CASE UNCHANGED rankingVars
  BY <1>11, SeatsStay DEF rankingVars
<1> QED BY <1>1, <1>2, <1>3, <1>4, <1>5, <1>6, <1>7, <1>8, <1>9, <1>10, <1>11, <1>12,
          <1>13 DEF Next

LEMMA FreshFollows == RankShapes /\ SeatsListed => FreshSeatsWereListed
<1> SUFFICES ASSUME RankShapes, SeatsListed, NEW c \in Active \ overtaken,
                    SeatInfo(section[c]).freshness = "fresh"
             PROVE  \E seen \in listed[c] : /\ seen.seats = SeatInfo(section[c]).seats
                                            /\ clock - seen.at <= Fresh
  BY DEF FreshSeatsWereListed
<1>1. c \in Stored /\ section[c] \in SectionRecs /\ clock \in Nat
  BY DEF Active, Stored, RankShapes, Sections
<1>2. PICK entry \in listed[c] :
        /\ entry.at \in Nat /\ entry.seats = section[c].snapshot
        /\ entry.at >= LaterOf(section[c].snapshotAt, section[c].seen)
  BY <1>1 DEF SeatsListed, StoredSeen, SeenSince
<1>3. PICK later \in Nat : later = LaterOf(section[c].snapshotAt, section[c].seen)
  BY <1>1, LaterIs DEF SectionRecs
<1>4. Classify(clock - later) = "fresh"
  BY <1>3 DEF SeatInfo, Freshness
<1>5. clock - later <= Fresh
  BY <1>1, <1>3, <1>4, RankingAssumption DEF Classify
<1>6. SeatInfo(section[c]).seats = section[c].snapshot
  BY DEF SeatInfo
<1> QED BY <1>1, <1>2, <1>3, <1>5, <1>6, RankingAssumption

LEMMA SeatsAlways == Spec => [](RankShapes /\ SeatsListed)
<1>1. Init => SeatsListed
  <2> SUFFICES ASSUME Init PROVE SeatsListed
    OBVIOUS
  <2>1. /\ Stored = {} /\ Active = {} /\ sweep = NoFetch /\ sweep.stage = "none"
        /\ ingest.stage = "none" /\ kept = NoKept /\ overtaken = {}
    BY DEF Init, Stored, Active, NoFetch
  <2> QED BY <2>1 DEF SeatsListed, StoredSeen, FetchesSeen, KnownMatches
<1>2. SeatsListed => overtaken \in SUBSET Crns
  BY DEF SeatsListed, KnownMatches
<1> QED BY <1>1, <1>2, InitShapes, StepShapes, StepSeats, PTL DEF Spec

LEMMA ShapesAlways == Spec => []RankShapes
BY SeatsAlways, PTL

(* Seats shown as fresh were listed by USF, with these counts and within that age, for
   any listings, sweeps and narrow ingests that overlap and set their times in either
   order, but for the sections an ingest wrote between a sweep's read and its write. *)
THEOREM FreshSeatsListed == Spec => []FreshSeatsWereListed
BY SeatsAlways, FreshFollows, PTL

---------------------------------------------------------------------------
(* The cached part of a ranking as a function of the rows it is computed from *)

Ahead(docs, d, e) ==
  \/ docs[d].term > docs[e].term
  \/ docs[d].term = docs[e].term /\ docs[d].at > docs[e].at
  \/ docs[d].term = docs[e].term /\ docs[d].at = docs[e].at /\ d > e

LatestIn(docs, S) == CHOOSE d \in S : \A e \in S \ {d} : Ahead(docs, d, e)

KeptIn(docs) == {d \in Documents : docs[d] # NoDocument}
OfSectionIn(docs, c) == {d \in KeptIn(docs) : docs[d].term = LiveTerm /\ docs[d].crn = c}
HistoryIn(docs, course) ==
  {d \in KeptIn(docs) : docs[d].course = course /\ docs[d].term < LiveTerm}

(* The documents of history that are by the resolved instructor of a section *)
HisIn(docs, s) ==
  ResolveInstructor(Current(s).name, {docs[d].name : d \in HistoryIn(docs, s.course)})
SameIn(docs, s) == {d \in HistoryIn(docs, s.course) : Words[docs[d].name] \in HisIn(docs, s)}

FromIn(docs, source, d) == Resolved(source, d, docs[d].term, docs[d].says)

SignalsIn(docs, s, c) ==
  CASE OfSectionIn(docs, c) # {} -> FromIn(docs, "current", LatestIn(docs, OfSectionIn(docs, c)))
    [] OfSectionIn(docs, c) = {} /\ s.note # {} -> Resolved("note", -1, LiveTerm, s.note)
    [] OfSectionIn(docs, c) = {} /\ s.note = {} /\ SameIn(docs, s) # {} ->
         FromIn(docs, "same_instructor", LatestIn(docs, SameIn(docs, s)))
    [] OfSectionIn(docs, c) = {} /\ s.note = {} /\ SameIn(docs, s) = {}
       /\ HistoryIn(docs, s.course) # {} ->
         FromIn(docs, "same_course", LatestIn(docs, HistoryIn(docs, s.course)))
    [] OTHER -> Resolved("unavailable", -1, -1, {})

PayloadIn(docs, entry, s, c) ==
  [course |-> s.course, title |-> entry.title,
   gened |-> [codes |-> entry.geneds,
              freshness |-> IF entry.geneds = {} THEN "unavailable" ELSE "current"],
   instructor |-> Instructor(s), modality |-> Modality(s), signals |-> SignalsIn(docs, s, c)]

LEMMA SignalsAre ==
  ASSUME NEW c
  PROVE  /\ Signals(c) = SignalsIn(document, section[c], c)
         /\ Signals(c)' = SignalsIn(document', section'[c], c)
BY DEF Signals, SignalsIn, OfSection, OfSectionIn, History, HistoryIn, HisIn, SameIn, Kept,
       KeptIn, From, FromIn, Latest, LatestIn, Before, Ahead

LEMMA PayloadIs ==
  ASSUME NEW c
  PROVE  /\ c \in Active =>
              Payload(c) = PayloadIn(document, catalog[section[c].course], section[c], c)
         /\ c \in Active' =>
              Payload(c)' = PayloadIn(document', catalog'[section'[c].course], section'[c], c)
<1>1. c \in Active => TermSignals[c] = SignalsIn(document, section[c], c)
  BY SignalsAre DEF TermSignals
<1>2. c \in Active' => TermSignals'[c] = SignalsIn(document', section'[c], c)
  BY SignalsAre DEF TermSignals
<1>3. ASSUME c \in Active
      PROVE  Payload(c) = PayloadIn(document, catalog[section[c].course], section[c], c)
  BY <1>1, <1>3 DEF Payload, PayloadIn, GenEd
<1>4. ASSUME c \in Active'
      PROVE  Payload(c)' = PayloadIn(document', catalog'[section'[c].course], section'[c], c)
  BY <1>2, <1>4 DEF Payload, PayloadIn, GenEd
<1> QED BY <1>3, <1>4

(* The current name depends on the observed names alone *)
LEMMA CurrentSame ==
  ASSUME NEW s, NEW t, s.names = t.names
  PROVE  Current(s) = Current(t)
<1> DEFINE now(names) ==
             CASE names = {} -> [name |-> Blank, status |-> "blank"]
               [] Cardinality(names) = 1 -> [name |-> First(names), status |-> "resolved"]
               [] OTHER -> [name |-> Blank, status |-> "ambiguous"]
<1>1. Current(s) = now(s.names \ {Blank})
  BY DEF Current, First
<1>2. Current(t) = now(t.names \ {Blank})
  BY DEF Current, First
<1> QED BY <1>1, <1>2

DocsFit(docs) ==
  \A d \in Documents : docs[d] # NoDocument => docs[d].term \in Nat /\ docs[d].at \in Nat

(* The order of documents is strict and total, so that a set of them has one latest *)
LEMMA AheadOrders ==
  ASSUME NEW docs, DocsFit(docs), NEW d \in KeptIn(docs), NEW e \in KeptIn(docs)
  PROVE  /\ d # e => Ahead(docs, d, e) \/ Ahead(docs, e, d)
         /\ ~(Ahead(docs, d, e) /\ Ahead(docs, e, d))
         /\ \A f \in KeptIn(docs) : Ahead(docs, d, e) /\ Ahead(docs, e, f) => Ahead(docs, d, f)
<1>1. \A f \in KeptIn(docs) : f \in Nat /\ docs[f].term \in Nat /\ docs[f].at \in Nat
  BY RankingAssumption DEF KeptIn, DocsFit
<1> QED BY <1>1 DEF Ahead

LEMMA LatestExists ==
  ASSUME NEW docs, DocsFit(docs), NEW S \in SUBSET KeptIn(docs), S # {}
  PROVE  \E d \in S : \A e \in S \ {d} : Ahead(docs, d, e)
<1> DEFINE Best(T) == \E d \in T : \A e \in T \ {d} : Ahead(docs, d, e)
           Good == {T \in SUBSET S : T = {} \/ Best(T)}
<1>1. IsFiniteSet(S)
  BY RankingAssumption, FS_Subset DEF KeptIn
<1>2. ASSUME NEW T \in SUBSET S, \A U \in SUBSET T : U # T => U \in Good
      PROVE  T \in Good
  <2> SUFFICES ASSUME T # {} PROVE Best(T)
    OBVIOUS
  <2>1. PICK d \in T : TRUE
    OBVIOUS
  <2>2. T \ {d} \in Good
    BY <1>2, <2>1
  <2>3. CASE T \ {d} = {}
    BY <2>1, <2>3
  <2>4. CASE T \ {d} # {}
    <3>1. PICK b \in T \ {d} : \A e \in (T \ {d}) \ {b} : Ahead(docs, b, e)
      BY <2>2, <2>4
    <3>2. CASE Ahead(docs, d, b)
      <4>1. ASSUME NEW e \in T \ {d} PROVE Ahead(docs, d, e)
        BY <2>1, <3>1, <3>2, <4>1, AheadOrders
      <4> QED BY <2>1, <4>1
    <3>3. CASE Ahead(docs, b, d)
      BY <3>1, <3>3
    <3> QED BY <2>1, <3>1, <3>2, <3>3, AheadOrders
  <2> QED BY <2>3, <2>4
<1> HIDE DEF Good
<1>3. Good \in SUBSET (SUBSET S)
  BY DEF Good
<1>4. \A T \in SUBSET S : T \in Good
  BY <1>1, <1>2, <1>3, SubsetInduction
<1> QED BY <1>4 DEF Good

LEMMA LatestIs ==
  ASSUME NEW docs, DocsFit(docs), NEW S \in SUBSET KeptIn(docs), S # {}
  PROVE  /\ LatestIn(docs, S) \in S
         /\ \A e \in S \ {LatestIn(docs, S)} : Ahead(docs, LatestIn(docs, S), e)
BY LatestExists DEF LatestIn

LEMMA LatestSame ==
  ASSUME NEW docs, DocsFit(docs), NEW others, DocsFit(others),
         NEW S \in SUBSET KeptIn(docs), S # {}, \A d \in S : others[d] = docs[d]
  PROVE  LatestIn(others, S) = LatestIn(docs, S)
<1>1. S \in SUBSET KeptIn(others)
  BY DEF KeptIn
<1>2. PICK d \in S : d = LatestIn(docs, S) /\ \A e \in S \ {d} : Ahead(docs, d, e)
  BY LatestIs
<1>3. PICK b \in S : b = LatestIn(others, S) /\ \A e \in S \ {b} : Ahead(others, b, e)
  BY <1>1, LatestIs
<1>4. Ahead(others, b, d) => Ahead(docs, b, d)
  BY DEF Ahead
<1> QED BY <1>2, <1>3, <1>4, AheadOrders

(* Of the documents, the signals depend on those of the section and of its course's past *)
LEMMA SignalsSame ==
  ASSUME NEW docs, DocsFit(docs), NEW others, DocsFit(others), NEW s, NEW t, NEW c,
         t.course = s.course, t.note = s.note, t.names = s.names,
         OfSectionIn(others, c) = OfSectionIn(docs, c),
         HistoryIn(others, s.course) = HistoryIn(docs, s.course),
         \A d \in OfSectionIn(docs, c) \cup HistoryIn(docs, s.course) : others[d] = docs[d]
  PROVE  SignalsIn(others, t, c) = SignalsIn(docs, s, c)
<1>1. Current(t) = Current(s)
  BY CurrentSame
<1>2. {others[d].name : d \in HistoryIn(others, t.course)}
        = {docs[d].name : d \in HistoryIn(docs, s.course)}
  OBVIOUS
<1>3. HisIn(others, t) = HisIn(docs, s)
  BY <1>1, <1>2 DEF HisIn
<1>4. SameIn(others, t) = SameIn(docs, s)
  BY <1>3 DEF SameIn
<1>5. ASSUME NEW S \in SUBSET (OfSectionIn(docs, c) \cup HistoryIn(docs, s.course)), S # {},
             NEW source
      PROVE  FromIn(others, source, LatestIn(others, S)) = FromIn(docs, source, LatestIn(docs, S))
  <2>1. S \in SUBSET KeptIn(docs) /\ \A d \in S : others[d] = docs[d]
    BY <1>5 DEF OfSectionIn, HistoryIn
  <2>2. LatestIn(others, S) = LatestIn(docs, S) /\ LatestIn(docs, S) \in S
    BY <1>5, <2>1, LatestSame, LatestIs
  <2> QED BY <2>1, <2>2 DEF FromIn
<1>6. /\ OfSectionIn(docs, c) \in SUBSET (OfSectionIn(docs, c) \cup HistoryIn(docs, s.course))
      /\ HistoryIn(docs, s.course) \in SUBSET (OfSectionIn(docs, c) \cup HistoryIn(docs, s.course))
      /\ SameIn(docs, s) \in SUBSET (OfSectionIn(docs, c) \cup HistoryIn(docs, s.course))
  BY DEF SameIn
<1>7. CASE OfSectionIn(docs, c) # {}
  BY <1>5, <1>6, <1>7 DEF SignalsIn
<1>8. CASE OfSectionIn(docs, c) = {} /\ s.note # {}
  BY <1>8 DEF SignalsIn
<1>9. CASE OfSectionIn(docs, c) = {} /\ s.note = {} /\ SameIn(docs, s) # {}
  BY <1>4, <1>5, <1>6, <1>9 DEF SignalsIn
<1>10. CASE /\ OfSectionIn(docs, c) = {} /\ s.note = {} /\ SameIn(docs, s) = {}
            /\ HistoryIn(docs, s.course) # {}
  BY <1>4, <1>5, <1>6, <1>10 DEF SignalsIn
<1>11. CASE /\ OfSectionIn(docs, c) = {} /\ s.note = {} /\ SameIn(docs, s) = {}
            /\ HistoryIn(docs, s.course) = {}
  BY <1>4, <1>11 DEF SignalsIn
<1> QED BY <1>7, <1>8, <1>9, <1>10, <1>11

LEMMA PayloadSame ==
  ASSUME NEW docs, DocsFit(docs), NEW others, DocsFit(others), NEW s, NEW t, NEW c,
         t.course = s.course, t.note = s.note, t.names = s.names, t.delivery = s.delivery,
         OfSectionIn(others, c) = OfSectionIn(docs, c),
         HistoryIn(others, s.course) = HistoryIn(docs, s.course),
         \A d \in OfSectionIn(docs, c) \cup HistoryIn(docs, s.course) : others[d] = docs[d],
         NEW entry
  PROVE  PayloadIn(others, entry, t, c) = PayloadIn(docs, entry, s, c)
<1>1. SignalsIn(others, t, c) = SignalsIn(docs, s, c)
  BY SignalsSame
<1>2. Instructor(t) = Instructor(s)
  BY CurrentSame DEF Instructor
<1> QED BY <1>1, <1>2 DEF PayloadIn, Modality

---------------------------------------------------------------------------
(* The cached row of a section that no writer has left behind is what would be computed *)
CachedFits ==
  \A c \in Crns \ trailing :
    /\ c \in Active =>
         cached[c] = PayloadIn(document, catalog[section[c].course], section[c], c)
    /\ c \notin Active => cached[c] = NoRanking

(* A rebuild makes the rows of its courses fit, and leaves the others *)
LEMMA RankCoursesFit ==
  ASSUME NEW courses, RankCourses(courses), NEW c \in Crns
  PROVE  /\ c \in InCourses(courses, section') =>
              /\ c \in Active' => cached'[c] =
                   PayloadIn(document', catalog'[section'[c].course], section'[c], c)
              /\ c \notin Active' => cached'[c] = NoRanking
         /\ c \notin InCourses(courses, section') => cached'[c] = cached[c]
<1>1. cached'[c] = IF section'[c] = Absent \/ section'[c].course \notin courses THEN cached[c]
                   ELSE IF section'[c].removed THEN NoRanking
                   ELSE Payload(c)'
  BY DEF RankCourses
<1>2. c \in InCourses(courses, section') <=>
        ~(section'[c] = Absent \/ section'[c].course \notin courses)
  BY DEF InCourses
<1>3. c \in Active' <=> section'[c] # Absent /\ ~section'[c].removed
  BY DEF Active, Stored
<1>4. c \in Active' =>
        Payload(c)' = PayloadIn(document', catalog'[section'[c].course], section'[c], c)
  BY PayloadIs
<1> QED BY <1>1, <1>2, <1>3, <1>4

(* A section that a sweep does not call changed keeps all that is cached of it *)
LEMMA UnchangedBySweep ==
  ASSUME RankShapes, sweep.stage = "write", section' = AfterSweep(sweep),
         NEW c \in Crns, c \notin Changed(sweep)
  PROVE  /\ c \in Active' <=> c \in Active
         /\ c \in Active =>
              /\ section'[c].course = section[c].course /\ section'[c].note = section[c].note
              /\ section'[c].names = section[c].names
              /\ section'[c].delivery = section[c].delivery
<1>1. PICK row : row = sweep.rows[c]
  OBVIOUS
<1>2. PICK known : known = sweep.known[c]
  OBVIOUS
<1>3. PICK new : new = AfterSweep(sweep)[c]
  OBVIOUS
<1>4. /\ sweep.at \in Nat
      /\ c \in Relisted(sweep) =>
              /\ row \in Rows /\ known \in SectionRecs /\ section[c] \in SectionRecs
              /\ new = Swept(section[c], known, row, sweep.at)
      /\ c \notin Relisted(sweep) \cup Inserted(sweep) \cup Removed(sweep) => new = section[c]
  BY <1>1, <1>2, <1>3, AfterSweepIs
<1>5. section'[c] = new /\ c \notin Inserted(sweep) \cup Removed(sweep)
  BY <1>3 DEF Changed
<1>6. c \in Relisted(sweep) => /\ ~known.removed /\ ~InstructorChanged(known, row)
                              /\ WithFields(known, row) = known
  BY <1>1, <1>2 DEF Changed
<1> HIDE DEF Relisted, Inserted, Removed
<1>7. CASE c \notin Relisted(sweep)
  BY <1>4, <1>5, <1>7 DEF Active, Stored
<1>8. CASE c \in Relisted(sweep)
  <2>1. /\ new # Absent /\ section[c] # Absent
        /\ new.course = section[c].course /\ new.note = section[c].note
        /\ new.delivery = section[c].delivery /\ new.names = section[c].names
        /\ new.removed = section[c].removed
    <3>1. known.removed = FALSE
      BY <1>4, <1>6, <1>8 DEF SectionRecs
    <3>2. RelistedAs(new, section[c], known, row, sweep.at)
      BY <1>1, <1>2, <1>3, <1>8, RelistedIs
    <3> QED BY <1>6, <1>8, <3>1, <3>2 DEF RelistedAs, SweptFrom
  <2> QED BY <1>5, <2>1 DEF Active, Stored
<1> QED BY <1>7, <1>8

(* The documents of a step and those before it *)
LEMMA DocsFitNow ==
  ASSUME RankShapes
  PROVE  DocsFit(document)
BY DEF RankShapes, DocsFit

(* A step that changes neither the columns nor the documents of a section nor its course
   leaves what would be computed *)
LEMMA FitStays ==
  ASSUME RankShapes, document' = document, CachedFits,
         NEW c \in Crns \ trailing, c \in Active' <=> c \in Active,
         cached'[c] = cached[c],
         c \in Active =>
           /\ section'[c].course = section[c].course /\ section'[c].note = section[c].note
           /\ section'[c].names = section[c].names /\ section'[c].delivery = section[c].delivery
           /\ catalog'[section[c].course] = catalog[section[c].course]
  PROVE  /\ c \in Active' => cached'[c] =
              PayloadIn(document', catalog'[section'[c].course], section'[c], c)
         /\ c \notin Active' => cached'[c] = NoRanking
<1>1. CASE c \in Active
  <2>1. cached[c] = PayloadIn(document, catalog[section[c].course], section[c], c)
    BY <1>1 DEF CachedFits
  <2>2. PayloadIn(document, catalog[section[c].course], section'[c], c)
          = PayloadIn(document, catalog[section[c].course], section[c], c)
    BY <1>1, DocsFitNow, PayloadSame
  <2> QED BY <1>1, <2>1, <2>2
<1>2. CASE c \notin Active
  BY <1>2 DEF CachedFits
<1> QED BY <1>1, <1>2

LEMMA FitsStay ==
  ASSUME RankShapes, CachedFits, section' = section, catalog' = catalog, document' = document,
         cached' = cached, trailing' = trailing
  PROVE  CachedFits'
<1> SUFFICES ASSUME NEW c \in Crns \ trailing
             PROVE  /\ c \in Active' => cached'[c] =
                         PayloadIn(document', catalog'[section'[c].course], section'[c], c)
                    /\ c \notin Active' => cached'[c] = NoRanking
  BY DEF CachedFits
<1>1. c \in Active' <=> c \in Active
  BY DEF Active, Stored
<1> QED BY <1>1, FitStays

(* The syllabus of another section, and of no course it is of *)
LEMMA ImportFits ==
  ASSUME RankShapes, RankShapes', CachedFits,
         NEW d \in Documents, NEW import \in Imports, ImportSyllabus(d, import)
  PROVE  CachedFits'
<1> SUFFICES ASSUME NEW c \in Crns, c \notin trailing'
             PROVE  /\ c \in Active' => cached'[c] =
                         PayloadIn(document', catalog'[section'[c].course], section'[c], c)
                    /\ c \notin Active' => cached'[c] = NoRanking
  BY DEF CachedFits
<1>1. /\ section' = section /\ catalog' = catalog /\ cached' = cached
      /\ trailing \subseteq trailing'
      /\ \A e \in Documents \ {d} : document'[e] = document[e]
  BY DEF ImportSyllabus, RankShapes
<1>2. c \in Active' <=> c \in Active
  BY <1>1 DEF Active, Stored
<1>3. CASE c \notin Active
  BY <1>1, <1>2, <1>3 DEF CachedFits
<1>4. CASE c \in Active
  <2>1. c \in Stored
    BY <1>4 DEF Active
  <2>2. \A v \in {document[d], document'[d]} \ {NoDocument} :
          c # v.crn /\ section[c].course # v.course
    BY <2>1 DEF ImportSyllabus
  <2>3. /\ d \notin OfSectionIn(document, c) /\ d \notin OfSectionIn(document', c)
        /\ d \notin HistoryIn(document, section[c].course)
        /\ d \notin HistoryIn(document', section[c].course)
    BY <2>2 DEF OfSectionIn, HistoryIn, KeptIn
  <2>4. /\ OfSectionIn(document', c) = OfSectionIn(document, c)
        /\ HistoryIn(document', section[c].course) = HistoryIn(document, section[c].course)
        /\ \A e \in OfSectionIn(document, c) \cup HistoryIn(document, section[c].course) :
             document'[e] = document[e]
    BY <1>1, <2>3 DEF OfSectionIn, HistoryIn, KeptIn
  <2>5. DocsFit(document) /\ DocsFit(document')
    BY DEF RankShapes, DocsFit
  <2>6. PayloadIn(document', catalog[section[c].course], section[c], c)
          = PayloadIn(document, catalog[section[c].course], section[c], c)
    BY <2>4, <2>5, PayloadSame
  <2>7. cached[c] = PayloadIn(document, catalog[section[c].course], section[c], c)
    BY <1>1, <1>4 DEF CachedFits
  <2> QED BY <1>1, <1>2, <1>4, <2>6, <2>7
<1> QED BY <1>3, <1>4

LEMMA InitFits == Init => CachedFits
<1> SUFFICES ASSUME Init PROVE CachedFits
  OBVIOUS
<1>1. Active = {} /\ \A c \in Crns : cached[c] = NoRanking
  BY DEF Init, Active, Stored
<1> QED BY <1>1 DEF CachedFits

LEMMA StepFits == RankShapes /\ RankShapes' /\ CachedFits /\ [Next]_rankingVars => CachedFits'
<1> SUFFICES ASSUME RankShapes, RankShapes', CachedFits, [Next]_rankingVars PROVE CachedFits'
  OBVIOUS
<1> USE DEF tableVars, sweepVars
<1>1. CASE FetchSweep
  BY <1>1, FitsStay DEF FetchSweep
<1>2. CASE WriteSweep
  <2> DEFINE courses == {section'[c].course : c \in Changed(sweep)}
  <2>1. /\ section' = AfterSweep(sweep) /\ sweep.stage = "write" /\ catalog' = catalog
        /\ document' = document /\ RankCourses(courses)
        /\ trailing' = trailing \ InCourses(courses, section')
    BY <1>2 DEF WriteSweep
  <2>2. ASSUME NEW c \in Crns, c \in Changed(sweep)
        PROVE  c \in InCourses(courses, section') \/ section'[c] = Absent
    BY <2>2 DEF InCourses
  <2>3. ASSUME NEW c \in Crns, c \in Changed(sweep)
        PROVE  section'[c] # Absent
    <3>1. c \in Relisted(sweep) \cup Inserted(sweep) \cup Removed(sweep)
      BY <2>3 DEF Changed
    <3> QED BY <2>1, <3>1, AfterSweepShape
  <2> HIDE DEF courses
  <2>4. ASSUME NEW c \in Crns, c \notin trailing'
        PROVE  /\ c \in Active' => cached'[c] =
                    PayloadIn(document', catalog'[section'[c].course], section'[c], c)
               /\ c \notin Active' => cached'[c] = NoRanking
    <3>1. CASE c \in InCourses(courses, section')
      BY <2>1, <2>4, <3>1, RankCoursesFit
    <3>2. CASE c \notin InCourses(courses, section')
      <4>1. c \notin Changed(sweep) /\ c \notin trailing
        BY <2>1, <2>2, <2>3, <2>4, <3>2
      <4>2. cached'[c] = cached[c]
        BY <2>1, <3>2, RankCoursesFit
      <4>3. /\ c \in Active' <=> c \in Active
            /\ c \in Active =>
                 /\ section'[c].course = section[c].course
                 /\ section'[c].note = section[c].note
                 /\ section'[c].names = section[c].names
                 /\ section'[c].delivery = section[c].delivery
        BY <2>1, <4>1, UnchangedBySweep
      <4> QED BY <2>1, <4>1, <4>2, <4>3, FitStays
    <3> QED BY <3>1, <3>2
  <2> QED BY <2>4 DEF CachedFits
<1>12. CASE ReuseKept \/ LoadSections \/ LoadNames \/ LoadSeats
  BY <1>12, FitsStay DEF ReuseKept, LoadSections, LoadNames, LoadSeats, Loaded
<1>13. CASE FailSweep
  BY <1>13, FitsStay DEF FailSweep
<1>3. ASSUME NEW c \in Crns, NEW row \in Rows \cup {Unlisted}, ListingChanges(c, row)
      PROVE  CachedFits'
  BY <1>3, FitsStay DEF ListingChanges
<1>4. ASSUME NEW course \in Courses, BeginIngest(course) PROVE CachedFits'
  BY <1>4, FitsStay DEF BeginIngest
<1>5. CASE FetchIngest
  BY <1>5, FitsStay DEF FetchIngest
<1>6. CASE WriteIngest
  <2>1. /\ catalog' = catalog /\ document' = document /\ cached' = cached
        /\ trailing' = trailing \cup DOMAIN ingest.rows
        /\ \A c \in Crns : c \notin DOMAIN ingest.rows => section'[c] = section[c]
    BY <1>6, IngestWrites DEF WriteIngest
  <2>2. ASSUME NEW c \in Crns, c \notin trailing'
        PROVE  /\ c \in Active' => cached'[c] =
                    PayloadIn(document', catalog'[section'[c].course], section'[c], c)
               /\ c \notin Active' => cached'[c] = NoRanking
    <3>1. c \notin trailing /\ section'[c] = section[c]
      BY <2>1, <2>2
    <3>2. c \in Active' <=> c \in Active
      BY <3>1 DEF Active, Stored
    <3> QED BY <2>1, <3>1, <3>2, FitStays
  <2> QED BY <2>2 DEF CachedFits
<1>7. ASSUME NEW d \in Documents, NEW import \in Imports, ImportSyllabus(d, import)
      PROVE  CachedFits'
  BY <1>7, ImportFits
<1>8. ASSUME NEW course \in Courses, NEW entry \in Entries, ImportCatalog(course, entry)
      PROVE  CachedFits'
  <2>1. /\ section' = section /\ document' = document /\ cached' = cached
        /\ trailing' = trailing \cup InCourse(course)
        /\ \A k \in Courses \ {course} : catalog'[k] = catalog[k]
    BY <1>8 DEF ImportCatalog, RankShapes
  <2>2. ASSUME NEW c \in Crns, c \notin trailing'
        PROVE  /\ c \in Active' => cached'[c] =
                    PayloadIn(document', catalog'[section'[c].course], section'[c], c)
               /\ c \notin Active' => cached'[c] = NoRanking
    <3>1. c \notin trailing /\ (c \in Active' <=> c \in Active)
      BY <2>1, <2>2 DEF Active, Stored
    <3>2. c \in Active => catalog'[section[c].course] = catalog[section[c].course]
      <4> HAVE c \in Active
      <4>1. c \in Stored /\ section[c] \in SectionRecs
        BY DEF Active, Stored, RankShapes, Sections
      <4>2. section[c].course \in Courses \ {course}
        BY <2>1, <2>2, <4>1 DEF InCourse, SectionRecs
      <4> QED BY <2>1, <4>2
    <3> QED BY <2>1, <3>1, <3>2, FitStays
  <2> QED BY <2>2 DEF CachedFits
<1>9. ASSUME NEW courses, Rank(courses) PROVE CachedFits'
  <2>1. /\ section' = section /\ catalog' = catalog /\ document' = document
        /\ RankCourses(courses) /\ trailing' = trailing \ InCourses(courses, section')
    BY <1>9 DEF Rank, InCourses
  <2>2. ASSUME NEW c \in Crns, c \notin trailing'
        PROVE  /\ c \in Active' => cached'[c] =
                    PayloadIn(document', catalog'[section'[c].course], section'[c], c)
               /\ c \notin Active' => cached'[c] = NoRanking
    <3>1. CASE c \in InCourses(courses, section')
      BY <2>1, <3>1, RankCoursesFit
    <3>2. CASE c \notin InCourses(courses, section')
      <4>1. c \notin trailing /\ cached'[c] = cached[c]
        BY <2>1, <2>2, <3>2, RankCoursesFit
      <4>2. c \in Active' <=> c \in Active
        BY <2>1 DEF Active, Stored
      <4> QED BY <2>1, <4>1, <4>2, FitStays
    <3> QED BY <3>1, <3>2
  <2> QED BY <2>2 DEF CachedFits
<1>10. CASE Tick
  BY <1>10, FitsStay DEF Tick
<1>11. CASE UNCHANGED rankingVars
  BY <1>11, FitsStay DEF rankingVars
<1> QED BY <1>1, <1>2, <1>3, <1>4, <1>5, <1>6, <1>7, <1>8, <1>9, <1>10, <1>11, <1>12,
          <1>13 DEF Next

LEMMA HydratedFollows == RankShapes /\ CachedFits => HydratedIsRanked
<1> SUFFICES ASSUME RankShapes, CachedFits, NEW course \in Courses, NEW c \in Crns \ trailing
             PROVE  LET page == RankCourseSections(course)
                        found == cached[c] # NoRanking /\ cached[c].course = course
                    IN /\ found = (c \in DOMAIN page)
                       /\ found => Hydrated(c) = page[c]
  BY DEF HydratedIsRanked
<1> DEFINE page == RankCourseSections(course)
           found == cached[c] # NoRanking /\ cached[c].course = course
<1>1. DOMAIN page = Active \cap InCourse(course)
  BY DEF RankCourseSections
<1>2. CASE c \in Active
  <2>1. /\ cached[c] = PayloadIn(document, catalog[section[c].course], section[c], c)
        /\ c \in Stored
    BY <1>2 DEF CachedFits, Active
  <2>2. cached[c] # NoRanking /\ cached[c].course = section[c].course
    BY <2>1 DEF PayloadIn, NoRanking
  <2>3. found = (c \in DOMAIN page)
    BY <1>1, <1>2, <2>1, <2>2 DEF InCourse
  <2>4. ASSUME found PROVE Hydrated(c) = page[c]
    <3>1. page[c] = RankSection(c)
      BY <1>1, <2>3, <2>4 DEF RankCourseSections
    <3>2. Hydrated(c) = RankSection(c)
      BY <2>1, SignalsAre DEF Hydrated, RankSection, PayloadIn, GenEd
    <3> QED BY <3>1, <3>2
  <2> QED BY <2>3, <2>4
<1>3. CASE c \notin Active
  BY <1>1, <1>3 DEF CachedFits
<1> QED BY <1>2, <1>3

(* Search and the page of a course show the same of every section no writer has left
   behind, for any sections, syllabi and names and any order of sweeps, narrow ingests,
   imports and rebuilds. *)
THEOREM HydratedAreRanked == Spec => []HydratedIsRanked
BY ShapesAlways, InitFits, StepFits, HydratedFollows, PTL DEF Spec

---------------------------------------------------------------------------
(* Signals *)

(* The instructor of earlier syllabi is resolved to the section's own name, or to the
   only other it abbreviates *)
LEMMA ResolvedIs ==
  ASSUME NEW name, NEW candidates, IsFiniteSet(candidates),
         NEW w \in ResolveInstructor(name, candidates)
  PROVE  /\ IsFullName(Words[name])
         /\ \/ w = Words[name]
            \/ /\ IsFullName(w) /\ Abbreviates(Words[name], w)
               /\ \A n \in candidates :
                    /\ Words[n] # Words[name] \/ ~IsFullName(Words[n])
                    /\ IsFullName(Words[n]) /\ Abbreviates(Words[name], Words[n]) => Words[n] = w
<1> DEFINE known == {Words[n] : n \in candidates} \ {<<>>, <<"staff">>}
           alike == {v \in known : IsFullName(v) /\ Abbreviates(Words[name], v)}
<1>1. ResolveInstructor(name, candidates) =
        IF ~IsFullName(Words[name]) THEN {}
        ELSE IF Words[name] \in known THEN {Words[name]}
        ELSE IF Cardinality(alike) = 1 THEN alike ELSE {}
  BY DEF ResolveInstructor
<1>2. \A n \in candidates : IsFullName(Words[n]) => Words[n] \in known
  <2>1. ~IsFullName(<<>>) /\ ~IsFullName(<<"staff">>)
    BY DEF IsFullName
  <2> QED BY <2>1
<1>3. IsFiniteSet(alike)
  <2>1. IsFiniteSet({Words[n] : n \in candidates})
    <3> DEFINE f == [n \in candidates |-> Words[n]]
    <3>1. f \in Surjection(candidates, {Words[n] : n \in candidates})
      BY DEF Surjection
    <3> QED BY <3>1, FS_Surjection
  <2> QED BY <2>1, FS_Subset
<1> HIDE DEF known
<1>4. alike \subseteq known
  OBVIOUS
<1>5. Cardinality(alike) = 1 => \E x : alike = {x}
  BY <1>3, FS_Singleton
<1>6. IsFullName(Words[name])
  BY <1>1
<1>7. CASE Words[name] \in known
  BY <1>1, <1>6, <1>7
<1>8. CASE Words[name] \notin known
  <2>1. Cardinality(alike) = 1 /\ w \in alike
    BY <1>1, <1>6, <1>8
  <2>2. \A n \in candidates : Words[n] # Words[name] \/ ~IsFullName(Words[n])
    BY <1>2, <1>8
  <2>3. \A n \in candidates :
          IsFullName(Words[n]) /\ Abbreviates(Words[name], Words[n]) => Words[n] \in alike
    BY <1>2
  <2>4. \A v \in alike : v = w
    BY <1>5, <2>1
  <2> QED BY <1>6, <2>1, <2>2, <2>3, <2>4
<1> QED BY <1>7, <1>8

(* What the chosen signals are: of which source, and of which document *)
LEMMA SignalsSource ==
  ASSUME NEW docs, DocsFit(docs), NEW s, NEW c
  PROVE  LET shown == SignalsIn(docs, s, c)
         IN  \/ /\ OfSectionIn(docs, c) # {}
                /\ shown.source = "current" /\ shown.freshness = "current"
                /\ shown.document = LatestIn(docs, OfSectionIn(docs, c))
             \/ /\ OfSectionIn(docs, c) = {}
                /\ shown.source = "note" /\ shown.freshness = "current"
                /\ shown.document = -1
             \/ /\ OfSectionIn(docs, c) = {} /\ SameIn(docs, s) # {}
                /\ shown.source = "same_instructor" /\ shown.freshness = "historical"
                /\ shown.document = LatestIn(docs, SameIn(docs, s))
             \/ /\ OfSectionIn(docs, c) = {} /\ HistoryIn(docs, s.course) # {}
                /\ shown.source = "same_course" /\ shown.freshness = "historical"
                /\ shown.document = LatestIn(docs, HistoryIn(docs, s.course))
             \/ /\ OfSectionIn(docs, c) = {}
                /\ shown.source = "unavailable" /\ shown.freshness = "unavailable"
                /\ shown.document = -1
<1>1. CASE OfSectionIn(docs, c) # {}
  BY <1>1 DEF SignalsIn, FromIn, Resolved, FreshnessOf
<1>2. CASE OfSectionIn(docs, c) = {} /\ s.note # {}
  BY <1>2 DEF SignalsIn, Resolved, FreshnessOf
<1>3. CASE OfSectionIn(docs, c) = {} /\ s.note = {} /\ SameIn(docs, s) # {}
  BY <1>3 DEF SignalsIn, FromIn, Resolved, FreshnessOf
<1>4. CASE /\ OfSectionIn(docs, c) = {} /\ s.note = {} /\ SameIn(docs, s) = {}
           /\ HistoryIn(docs, s.course) # {}
  BY <1>4 DEF SignalsIn, FromIn, Resolved, FreshnessOf
<1>5. CASE /\ OfSectionIn(docs, c) = {} /\ s.note = {} /\ SameIn(docs, s) = {}
           /\ HistoryIn(docs, s.course) = {}
  BY <1>5 DEF SignalsIn, Resolved, FreshnessOf
<1> QED BY <1>1, <1>2, <1>3, <1>4, <1>5

LEMMA SignalsFollow == RankShapes /\ CachedFits => SignalsUseBestEvidence
<1> SUFFICES ASSUME RankShapes, CachedFits, NEW c \in Active \ trailing
             PROVE  LET shown == Hydrated(c).signals
                        earlier == {d \in Kept : document[d].course = section[c].course
                                                /\ document[d].term < LiveTerm}
                        name == Hydrated(c).instructor.name
                    IN /\ shown.document \in Documents =>
                            shown.document \in OfSection(c) \cup earlier
                       /\ (shown.freshness = "historical") = (shown.document \in earlier)
                       /\ (shown.source = "current") = (shown.document \in OfSection(c))
                       /\ \A d \in OfSection(c) :
                            shown.source = "current"
                            /\ document[d].at <= document[shown.document].at
                       /\ shown.source = "same_instructor" =>
                            LET his == document[shown.document].name
                            IN /\ Could(name, his)
                               /\ Words[name] = Words[his] \/
                                  \A d \in earlier : Could(name, document[d].name) =>
                                                       Words[document[d].name] = Words[his]
  BY DEF SignalsUseBestEvidence
<1> DEFINE s == section[c]
           shown == SignalsIn(document, s, c)
           earlier == HistoryIn(document, s.course)
           own == OfSectionIn(document, c)
           name == Instructor(s).name
<1>1. /\ Hydrated(c).signals = shown /\ Hydrated(c).instructor.name = name
      /\ DocsFit(document) /\ s \in SectionRecs
  <2>1. c \in Crns \ trailing /\ c \in Stored
    BY DEF Active, Stored
  <2>2. cached[c] = PayloadIn(document, catalog[s.course], s, c)
    BY <2>1 DEF CachedFits
  <2> QED BY <2>1, <2>2 DEF Hydrated, PayloadIn, RankShapes, Sections, Stored, DocsFit
<1>2. /\ OfSection(c) = own
      /\ {d \in Kept : document[d].course = section[c].course /\ document[d].term < LiveTerm}
           = earlier
  BY DEF OfSection, OfSectionIn, Kept, KeptIn, HistoryIn
<1>3. /\ own \in SUBSET KeptIn(document) /\ earlier \in SUBSET KeptIn(document)
      /\ SameIn(document, s) \in SUBSET KeptIn(document)
      /\ SameIn(document, s) \subseteq earlier
      /\ KeptIn(document) \subseteq Nat
      /\ \A d \in own : document[d].term = LiveTerm
      /\ \A d \in earlier : document[d].term < LiveTerm
      /\ \A d \in KeptIn(document) : document[d].term \in Nat /\ document[d].at \in Nat
  BY <1>1, RankingAssumption DEF OfSectionIn, HistoryIn, SameIn, KeptIn, DocsFit
<1>4. own \cap earlier = {} /\ -1 \notin earlier /\ -1 \notin own /\ -1 \notin Documents
  BY <1>3, RankingAssumption
<1>5. \/ /\ own # {} /\ shown.source = "current" /\ shown.freshness = "current"
         /\ shown.document = LatestIn(document, own)
      \/ /\ own = {} /\ shown.source = "note" /\ shown.freshness = "current"
         /\ shown.document = -1
      \/ /\ own = {} /\ SameIn(document, s) # {}
         /\ shown.source = "same_instructor" /\ shown.freshness = "historical"
         /\ shown.document = LatestIn(document, SameIn(document, s))
      \/ /\ own = {} /\ earlier # {}
         /\ shown.source = "same_course" /\ shown.freshness = "historical"
         /\ shown.document = LatestIn(document, earlier)
      \/ /\ own = {} /\ shown.source = "unavailable" /\ shown.freshness = "unavailable"
         /\ shown.document = -1
  BY <1>1, SignalsSource
<1> HIDE DEF shown, earlier, own
<1>6. /\ (shown.freshness = "historical") = (shown.document \in earlier)
      /\ (shown.source = "current") = (shown.document \in own)
      /\ shown.document \in Documents => shown.document \in own \cup earlier
  <2>1. own # {} => LatestIn(document, own) \in own
    BY <1>1, <1>3, LatestIs
  <2>2. earlier # {} => LatestIn(document, earlier) \in earlier
    BY <1>1, <1>3, LatestIs
  <2>3. SameIn(document, s) # {} => LatestIn(document, SameIn(document, s)) \in SameIn(document, s)
    BY <1>1, <1>3, LatestIs
  <2> QED BY <1>3, <1>4, <1>5, <2>1, <2>2, <2>3
<1>7. ASSUME NEW d \in own
      PROVE  shown.source = "current" /\ document[d].at <= document[shown.document].at
  <2>1. shown.source = "current" /\ shown.document = LatestIn(document, own)
    BY <1>5, <1>7
  <2>2. PICK b \in own : b = LatestIn(document, own) /\ \A e \in own \ {b} : Ahead(document, b, e)
    BY <1>1, <1>3, <1>7, LatestIs
  <2>3. document[b].term = document[d].term /\ document[b].at \in Nat /\ document[d].at \in Nat
        /\ LiveTerm \in Nat /\ document[d].term = LiveTerm
    BY <1>3, <1>7, RankingAssumption
  <2>4. CASE d = b
    BY <2>1, <2>2, <2>3, <2>4
  <2>5. CASE d # b
    <3>1. Ahead(document, b, d)
      BY <1>7, <2>2, <2>5
    <3>2. document[d].at <= document[b].at
      BY <2>3, <3>1 DEF Ahead
    <3> QED BY <2>1, <2>2, <3>2
  <2> QED BY <2>4, <2>5
<1>8. ASSUME shown.source = "same_instructor", NEW his, his = document[shown.document].name
      PROVE  /\ Could(name, his)
             /\ Words[name] = Words[his] \/
                \A d \in earlier : Could(name, document[d].name) =>
                                     Words[document[d].name] = Words[his]
  <2> DEFINE same == SameIn(document, s)
             names == {document[d].name : d \in earlier}
  <2>1. same # {} /\ shown.document = LatestIn(document, same)
    BY <1>5, <1>8
  <2>2. shown.document \in same
    BY <1>1, <1>3, <2>1, LatestIs
  <2>3. Words[his] \in ResolveInstructor(Current(s).name, names)
    BY <1>8, <2>2 DEF SameIn, HisIn, earlier
  <2>4. IsFiniteSet(names)
    <3> DEFINE f == [d \in earlier |-> document[d].name]
    <3>1. f \in Surjection(earlier, names)
      BY DEF Surjection
    <3>2. IsFiniteSet(earlier)
      BY <1>3, RankingAssumption, FS_Subset DEF KeptIn
    <3> QED BY <3>1, <3>2, FS_Surjection
  <2> HIDE DEF names
  <2>5. /\ IsFullName(Words[Current(s).name])
        /\ \/ Words[his] = Words[Current(s).name]
           \/ /\ IsFullName(Words[his]) /\ Abbreviates(Words[Current(s).name], Words[his])
              /\ \A n \in names :
                   /\ Words[n] # Words[Current(s).name] \/ ~IsFullName(Words[n])
                   /\ IsFullName(Words[n]) /\ Abbreviates(Words[Current(s).name], Words[n])
                        => Words[n] = Words[his]
    BY <2>3, <2>4, ResolvedIs
  <2>6. name = Current(s).name
    <3>1. Current(s).name # Blank
      BY <2>5, RankingAssumption DEF IsFullName
    <3>2. Current(s).status = "resolved"
      BY <3>1 DEF Current
    <3> QED BY <3>2 DEF Instructor
  <2>7. \A d \in earlier : document[d].name \in names
    BY DEF names
  <2> QED BY <2>5, <2>6, <2>7 DEF Could
<1> HIDE DEF s, name
<1> QED BY <1>1, <1>2, <1>6, <1>7, <1>8 DEF s

(* The signals search shows of a section are of the best text there is, for any syllabi,
   names and abbreviations of them. *)
THEOREM SignalsAreBest == Spec => []SignalsUseBestEvidence
BY ShapesAlways, InitFits, StepFits, SignalsFollow, PTL DEF Spec
=============================================================================
