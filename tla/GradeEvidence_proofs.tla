------------------------ MODULE GradeEvidence_proofs ------------------------
(***************************************************************************)
(* Theorems about GradeEvidence: what the worker's kept evidence and the   *)
(* scores computed from it are, for any slots, courses, names, grades and  *)
(* any number of imports, ingests, backfills, rollbacks, cleanups and      *)
(* restarts.                                                               *)
(***************************************************************************)
EXTENDS GradeEvidence, FieldSums_proofs

---------------------------------------------------------------------------
(* The inductive invariant *)

(* Tables: a row has an id below the next one *)
TablesFit ==
  /\ nextId \in Nat \ {0}
  /\ grades = [s \in DOMAIN grades |-> grades[s]] /\ DOMAIN grades \subseteq Slots
  /\ DOMAIN sections \subseteq Slots /\ cleanup \subseteq DOMAIN sections
  /\ \A s \in DOMAIN sections :
       /\ sections[s].id \in 1..(nextId - 1)
       /\ sections[s].backfilled \in BOOLEAN
       /\ \A o \in sections[s].names : o.id \in 1..(nextId - 1)

Places == {"idle", "grade_key", "section_key", "name_key", "rows", "names", "rebuild"}

(* Sections that were there when a key with this maximal id was read *)
Old(max) == {s \in DOMAIN sections : sections[s].id <= max}

(* A key counts grade rows and sections that were there when its statements ran *)
GradeKeyFits(key) ==
  key.grade.count \in Nat /\ key.grade.count <= Cardinality(DOMAIN grades)

SectionKeyFits(key) ==
  /\ GradeKeyFits(key)
  /\ key.section.max \in 0..(nextId - 1) /\ key.section.count \in Nat

KeyFits(key) == SectionKeyFits(key) /\ key.name.max \in 0..(nextId - 1)

(* No grade row has come since the key was read; the count never returns, as grade rows
   are not removed *)
StillCounted(key) == key.grade.count = Cardinality(DOMAIN grades)

(* Sections that came since have larger ids.  While the sweep holds the lock they were
   observed by an ingest, and a cleanup that holds one with a grade row has found none:
   the row came after the key *)
SectionKeyHolds(key) ==
  /\ Cardinality(Old(key.section.max)) <= key.section.count
  /\ \A s \in DOMAIN sections \ Old(key.section.max) : ~sections[s].backfilled
  /\ StillCounted(key) =>
       \A s \in DOMAIN grades \cap DOMAIN sections :
         s \notin Old(key.section.max) => s \notin cleanup

(* Rows that were loaded after the key was read: grade rows stay, a section with an
   old id is still the one they were joined to, and a later one stays as well, unless
   a grade row has come *)
RowsFit(key, rows) ==
  LET max == key.section.max
  IN /\ DOMAIN rows \subseteq DOMAIN grades
     /\ key.grade.count <= Cardinality(DOMAIN rows)
     /\ \A s \in DOMAIN rows :
          /\ rows[s].grade.id = grades[s].id
          /\ rows[s].section.id \in 0..(nextId - 1)
          /\ s \in Old(max) => rows[s].section.id = sections[s].id
          /\ StillCounted(key) /\ rows[s].section.id > max =>
               /\ s \in DOMAIN sections \ cleanup
               /\ sections[s].id = rows[s].section.id /\ ~sections[s].backfilled
     /\ Cardinality(Old(max) \cup {s \in DOMAIN rows : rows[s].section.id \in 1..max})
          <= key.section.count

(* ... and their names: of the section they are joined to, all that were there *)
NamesFit(key, evidence) ==
  \A s \in DOMAIN evidence :
    /\ evidence[s].section.id = 0 => evidence[s].names = {}
    /\ s \in DOMAIN sections /\ sections[s].id = evidence[s].section.id =>
         /\ evidence[s].names \subseteq {o.name : o \in sections[s].names}
         /\ \A o \in sections[s].names :
              o.id <= key.name.max => o.name \in evidence[s].names

SweepFits ==
  /\ pc \in Places
  /\ pc = "section_key" => GradeKeyFits(sweep.key)
  /\ pc = "name_key" => SectionKeyFits(sweep.key) /\ SectionKeyHolds(sweep.key)
  /\ pc \in {"rows", "names"} => KeyFits(sweep.key) /\ SectionKeyHolds(sweep.key)
  /\ pc = "names" => RowsFit(sweep.key, sweep.rows)

KeptFits ==
  kept = NoEvidence \/
    /\ KeyFits(kept.key)
    /\ RowsFit(kept.key, kept.evidence)
    /\ NamesFit(kept.key, kept.evidence)

EvidenceInv == TablesFit /\ SweepFits /\ KeptFits

---------------------------------------------------------------------------
(* Numbers and ids *)

LEMMA MaxIdBounds ==
  ASSUME NEW S \in SUBSET Nat, NEW n \in Nat, \A x \in S : x <= n
  PROVE  MaxId(S) \in 0..n /\ \A x \in S : x <= MaxId(S)
<1>1. CASE S = {}
  BY <1>1 DEF MaxId
<1>2. CASE S # {}
  <2> DEFINE gaps == {n - x : x \in S}
  <2>1. gaps \in SUBSET Nat /\ gaps # {}
    <3>1. \A x \in S : n - x \in Nat
      OBVIOUS
    <3>2. PICK y \in S : TRUE
      BY <1>2
    <3>3. n - y \in gaps
      OBVIOUS
    <3> QED BY <3>1, <3>3
  <2>2. PICK gap \in gaps : \A other \in gaps : gap <= other
    BY <2>1, NatHasLeast
  <2>3. PICK x \in S : gap = n - x
    BY <2>2
  <2>4. \A y \in S : x >= y
    BY <2>2, <2>3
  <2>5. Max(S) \in S /\ \A y \in S : Max(S) >= y
    BY <2>4 DEF Max
  <2>6. Max(S) \in 0..n /\ \A y \in S : y <= Max(S)
    <3> DEFINE max == Max(S)
    <3>1. max \in S /\ \A y \in S : max >= y
      BY <2>5
    <3> HIDE DEF max
    <3>2. max \in Nat /\ max <= n /\ \A y \in S : y \in Nat
      BY <3>1
    <3>3. max \in 0..n /\ \A y \in S : y <= max
      BY <3>1, <3>2
    <3> QED BY <3>3 DEF max
  <2> QED BY <1>2, <2>6 DEF MaxId
<1> QED BY <1>1, <1>2

LEMMA SlotSets ==
  ASSUME NEW S \in SUBSET Slots
  PROVE  IsFiniteSet(S) /\ Cardinality(S) \in Nat
BY ScoresAssumption, FS_Subset, FS_CardinalityType

LEMMA SlotSubsets ==
  ASSUME NEW S \in SUBSET Slots, NEW T \in SUBSET S
  PROVE  Cardinality(T) <= Cardinality(S) /\ (Cardinality(S) <= Cardinality(T) => S = T)
<1>1. IsFiniteSet(S) /\ Cardinality(S) \in Nat /\ Cardinality(T) \in Nat
  BY SlotSets
<1>2. Cardinality(T) <= Cardinality(S) /\ (Cardinality(S) = Cardinality(T) => S = T)
  BY <1>1, FS_Subset
<1> QED BY <1>1, <1>2

---------------------------------------------------------------------------
(* How the other writers move the tables *)

TablesMove ==
  /\ nextId' \in Nat /\ nextId' >= nextId
  /\ DOMAIN grades \subseteq DOMAIN grades' /\ DOMAIN grades' \subseteq Slots
  /\ \A s \in DOMAIN grades : grades'[s].id = grades[s].id
  /\ DOMAIN sections' \subseteq Slots
  /\ \A s \in DOMAIN sections \ cleanup :
       ~sections[s].backfilled => s \in DOMAIN sections'
  /\ cleanup' \cap DOMAIN grades \subseteq cleanup
  /\ \A s \in DOMAIN sections' \cap DOMAIN sections :
       /\ sections'[s].id = sections[s].id
       /\ ~sections[s].backfilled => ~sections'[s].backfilled
       /\ sections[s].names \subseteq sections'[s].names
       /\ \A o \in sections'[s].names \ sections[s].names : o.id \in Nat /\ o.id >= nextId
  /\ \A s \in DOMAIN sections' \ DOMAIN sections :
       /\ sections'[s].id \in Nat /\ sections'[s].id >= nextId
       /\ pc # "idle" => ~sections'[s].backfilled

Imports == \E t \in {TermOf[s] : s \in Slots} : ImportGrades(t)

Ingests == \E s \in Slots, course \in CourseIds, lab \in Kinds, name \in Names :
             IngestEarlier(s, course, lab, name)

Backfills == \E s \in Slots, course \in CourseIds, lab \in Kinds, name \in Names :
               Backfill(s, course, lab, name)

Rollbacks == \E S \in SUBSET Slots : RollbackBackfill(S)

Cleanups == (\E S \in SUBSET Slots : LockCandidates(S)) \/ DeleteCandidates \/ FailCleanup

LEMMA ImportsMove ==
  ASSUME TablesFit, Imports
  PROVE  TablesFit' /\ TablesMove
<1>1. PICK t : ImportGrades(t)
  BY DEF Imports
<1>2. PICK S \in SUBSET InTerm(t) \ {{}} :
        \E book \in [S -> [course : CourseIds, counts : Counts]] :
          LET new == S \ DOMAIN grades
              Id(s) == IF s \in new THEN nextId + Cardinality(Inserted(book, s)) ELSE grades[s].id
              Row(s) == [id |-> Id(s), course |-> book[s].course, a |-> book[s].counts.a,
                         f |-> book[s].counts.f, w |-> book[s].counts.w, o |-> book[s].counts.o]
          IN /\ grades' = [s \in DOMAIN grades \cup S |-> IF s \in S THEN Row(s) ELSE grades[s]]
             /\ nextId' = nextId + Cardinality(new)
  BY <1>1 DEF ImportGrades
<1>3. PICK book \in [S -> [course : CourseIds, counts : Counts]] :
        LET new == S \ DOMAIN grades
            Id(s) == IF s \in new THEN nextId + Cardinality(Inserted(book, s)) ELSE grades[s].id
            Row(s) == [id |-> Id(s), course |-> book[s].course, a |-> book[s].counts.a,
                       f |-> book[s].counts.f, w |-> book[s].counts.w, o |-> book[s].counts.o]
        IN /\ grades' = [s \in DOMAIN grades \cup S |-> IF s \in S THEN Row(s) ELSE grades[s]]
           /\ nextId' = nextId + Cardinality(new)
  BY <1>2
<1> DEFINE new == S \ DOMAIN grades
           Id(s) == IF s \in new THEN nextId + Cardinality(Inserted(book, s)) ELSE grades[s].id
           Row(s) == [id |-> Id(s), course |-> book[s].course, a |-> book[s].counts.a,
                      f |-> book[s].counts.f, w |-> book[s].counts.w, o |-> book[s].counts.o]
<1>4. /\ grades' = [s \in DOMAIN grades \cup S |-> IF s \in S THEN Row(s) ELSE grades[s]]
      /\ nextId' = nextId + Cardinality(new)
  BY <1>3
<1>5. UNCHANGED <<sections, cleanup>>
  BY <1>1 DEF ImportGrades
<1>6. S \subseteq Slots /\ Cardinality(new) \in Nat
  BY SlotSets DEF InTerm
<1>7. \A s \in DOMAIN grades \cap S : Row(s).id = grades[s].id
  OBVIOUS
<1> HIDE DEF Row
<1>8. DOMAIN grades' = DOMAIN grades \cup S /\ grades' = [s \in DOMAIN grades' |-> grades'[s]]
  BY <1>4
<1>9. \A s \in DOMAIN grades : grades'[s].id = grades[s].id
  BY <1>4, <1>7
<1>10. nextId' \in Nat \ {0} /\ nextId' >= nextId
  BY <1>4, <1>6 DEF TablesFit
<1>11. TablesFit'
  BY <1>5, <1>6, <1>8, <1>10 DEF TablesFit
<1>12. TablesMove
  BY <1>5, <1>6, <1>8, <1>9, <1>10 DEF TablesFit, TablesMove
<1> QED BY <1>11, <1>12

LEMMA IngestsMove ==
  ASSUME TablesFit, Ingests
  PROVE  TablesFit' /\ TablesMove
<1>1. PICK s \in Slots, course \in CourseIds, lab \in Kinds, name \in Names :
        IngestEarlier(s, course, lab, name)
  BY DEF Ingests
<1> DEFINE known == s \in DOMAIN sections
           id == IF known THEN sections[s].id ELSE nextId
           nameId == IF known THEN nextId ELSE nextId + 1
           old == IF known THEN sections[s].names ELSE {}
           row == [id |-> id, course |-> course, lab |-> lab,
                   names |-> old \cup {[id |-> nameId, name |-> name]}, backfilled |-> FALSE]
<1>2. /\ sections' = [t \in DOMAIN sections \cup {s} |-> IF t = s THEN row ELSE sections[t]]
      /\ nextId' = nameId + 1 /\ UNCHANGED <<grades, cleanup>>
  BY <1>1 DEF IngestEarlier
<1>3. /\ nameId \in Nat /\ nameId >= nextId /\ nameId \in 1..(nextId' - 1)
      /\ nextId' \in Nat \ {0} /\ nextId' >= nextId
  BY <1>2 DEF TablesFit
<1>4. row.id = id /\ row.names = old \cup {[id |-> nameId, name |-> name]} /\ row.backfilled = FALSE
  OBVIOUS
<1>5. id \in 1..(nextId' - 1) /\ \A o \in old : o.id \in 1..(nextId' - 1)
  BY <1>2, <1>3 DEF TablesFit
<1> HIDE DEF row, nameId
<1>6. /\ DOMAIN sections' = DOMAIN sections \cup {s}
      /\ \A t \in DOMAIN sections' : sections'[t] = IF t = s THEN row ELSE sections[t]
  BY <1>2
<1>7. \A o \in row.names : o.id \in 1..(nextId' - 1)
  BY <1>3, <1>4, <1>5
<1>8. TablesFit'
  <2>1. \A t \in DOMAIN sections :
          /\ sections[t].id \in 1..(nextId' - 1) /\ sections[t].backfilled \in BOOLEAN
          /\ \A o \in sections[t].names : o.id \in 1..(nextId' - 1)
    BY <1>3 DEF TablesFit
  <2>2. \A t \in DOMAIN sections' :
          /\ sections'[t].id \in 1..(nextId' - 1) /\ sections'[t].backfilled \in BOOLEAN
          /\ \A o \in sections'[t].names : o.id \in 1..(nextId' - 1)
    <3> SUFFICES ASSUME NEW t \in DOMAIN sections'
                 PROVE  /\ sections'[t].id \in 1..(nextId' - 1) /\ sections'[t].backfilled \in BOOLEAN
                        /\ \A o \in sections'[t].names : o.id \in 1..(nextId' - 1)
      OBVIOUS
    <3>1. CASE t = s
      BY <1>4, <1>5, <1>6, <1>7, <3>1
    <3>2. CASE t # s
      BY <1>6, <2>1, <3>2
    <3> QED BY <3>1, <3>2
  <2> QED BY <1>2, <1>3, <1>6, <2>2 DEF TablesFit
<1>9. TablesMove
  BY <1>2, <1>3, <1>4, <1>6 DEF TablesFit, TablesMove
<1> QED BY <1>8, <1>9

LEMMA BackfillsMove ==
  ASSUME TablesFit, Backfills
  PROVE  TablesFit' /\ TablesMove
<1>1. PICK s \in Slots, course \in CourseIds, lab \in Kinds, name \in Names :
        Backfill(s, course, lab, name)
  BY DEF Backfills
<1> DEFINE row == [id |-> nextId, course |-> course, lab |-> lab, backfilled |-> TRUE,
                   names |-> {[id |-> nextId + 1, name |-> name]}]
<1>2. /\ sections' = [t \in DOMAIN sections \cup {s} |-> IF t = s THEN row ELSE sections[t]]
      /\ nextId' = nextId + 2 /\ UNCHANGED <<grades, cleanup>> /\ s \notin DOMAIN sections /\ pc = "idle"
  BY <1>1 DEF Backfill
<1>3. nextId' \in Nat \ {0} /\ nextId' >= nextId /\ nextId \in 1..(nextId' - 1)
  BY <1>2 DEF TablesFit
<1>4. row.id = nextId /\ row.backfilled = TRUE /\ \A o \in row.names : o.id \in 1..(nextId' - 1)
  BY <1>2 DEF TablesFit
<1> HIDE DEF row
<1>5. /\ DOMAIN sections' = DOMAIN sections \cup {s}
      /\ \A t \in DOMAIN sections' : sections'[t] = IF t = s THEN row ELSE sections[t]
  BY <1>2
<1>6. TablesFit'
  <2>1. \A t \in DOMAIN sections :
          /\ sections[t].id \in 1..(nextId' - 1) /\ sections[t].backfilled \in BOOLEAN
          /\ \A o \in sections[t].names : o.id \in 1..(nextId' - 1)
    BY <1>3 DEF TablesFit
  <2>2. \A t \in DOMAIN sections' :
          /\ sections'[t].id \in 1..(nextId' - 1) /\ sections'[t].backfilled \in BOOLEAN
          /\ \A o \in sections'[t].names : o.id \in 1..(nextId' - 1)
    BY <1>3, <1>4, <1>5, <2>1
  <2> QED BY <1>2, <1>3, <1>5, <2>2 DEF TablesFit
<1>7. TablesMove
  BY <1>2, <1>3, <1>4, <1>5 DEF TablesFit, TablesMove
<1> QED BY <1>6, <1>7

LEMMA RollbacksMove ==
  ASSUME TablesFit, Rollbacks
  PROVE  TablesFit' /\ TablesMove
<1>1. PICK S \in SUBSET Slots : RollbackBackfill(S)
  BY DEF Rollbacks
<1>2. /\ sections' = [t \in DOMAIN sections \ S |-> sections[t]]
      /\ UNCHANGED <<grades, nextId, cleanup>>
      /\ \A s \in S : s \in DOMAIN sections \ cleanup /\ sections[s].backfilled
  BY <1>1 DEF RollbackBackfill, Eligible
<1>3. DOMAIN sections' = DOMAIN sections \ S /\ \A t \in DOMAIN sections' : sections'[t] = sections[t]
  BY <1>2
<1> QED BY <1>2, <1>3 DEF TablesFit, TablesMove

(* A cleanup locks sections without grade rows only, and deletes what it locked *)
LEMMA CleanupsMove ==
  ASSUME TablesFit, Cleanups
  PROVE  TablesFit' /\ TablesMove
<1>1. CASE \E S \in SUBSET Slots : LockCandidates(S)
  <2>1. PICK S \in SUBSET Slots : LockCandidates(S)
    BY <1>1
  <2>2. /\ UNCHANGED <<grades, sections, nextId>> /\ cleanup' = S
        /\ S \subseteq DOMAIN sections /\ S \cap DOMAIN grades = {}
    BY <2>1 DEF LockCandidates, Refused
  <2> QED BY <2>2 DEF TablesFit, TablesMove
<1>2. CASE DeleteCandidates
  <2>1. /\ sections' = [t \in DOMAIN sections \ cleanup |-> sections[t]]
        /\ UNCHANGED <<grades, nextId>> /\ cleanup' = {}
    BY <1>2 DEF DeleteCandidates
  <2>2. /\ DOMAIN sections' = DOMAIN sections \ cleanup
        /\ \A t \in DOMAIN sections' : sections'[t] = sections[t]
    BY <2>1
  <2> QED BY <2>1, <2>2 DEF TablesFit, TablesMove
<1>3. CASE FailCleanup
  <2>1. UNCHANGED <<grades, sections, nextId>> /\ cleanup' = {}
    BY <1>3 DEF FailCleanup
  <2> QED BY <2>1 DEF TablesFit, TablesMove
<1> QED BY <1>1, <1>2, <1>3 DEF Cleanups

---------------------------------------------------------------------------
(* What is known of the tables stays true as they move *)

LEMMA OldShrinks ==
  ASSUME TablesFit, TablesMove, NEW max \in 0..(nextId - 1)
  PROVE  Old(max)' \subseteq Old(max) /\ \A s \in Old(max)' : sections'[s].id = sections[s].id
<1>1. ASSUME NEW s \in DOMAIN sections', sections'[s].id <= max
      PROVE  s \in DOMAIN sections /\ sections'[s].id = sections[s].id
  <2>1. max < nextId /\ nextId \in Nat
    BY DEF TablesFit
  <2>2. CASE s \notin DOMAIN sections
    <3>1. sections'[s].id \in Nat /\ sections'[s].id >= nextId
      BY <1>1, <2>2 DEF TablesMove
    <3> QED BY <1>1, <2>1, <3>1
  <2> QED BY <2>2 DEF TablesMove
<1> QED BY <1>1 DEF Old

LEMMA GradeKeyStays ==
  ASSUME TablesFit, TablesMove, NEW key, GradeKeyFits(key)
  PROVE  /\ GradeKeyFits(key)'
         /\ StillCounted(key)' => StillCounted(key) /\ DOMAIN grades' = DOMAIN grades
<1>1. /\ DOMAIN grades \subseteq DOMAIN grades' /\ DOMAIN grades' \subseteq Slots
      /\ DOMAIN grades \subseteq Slots
  BY DEF TablesFit, TablesMove
<1>2. /\ Cardinality(DOMAIN grades) \in Nat /\ Cardinality(DOMAIN grades') \in Nat
      /\ Cardinality(DOMAIN grades) <= Cardinality(DOMAIN grades')
      /\ Cardinality(DOMAIN grades') <= Cardinality(DOMAIN grades) =>
           DOMAIN grades' = DOMAIN grades
  BY <1>1, SlotSubsets, SlotSets
<1> QED BY <1>2 DEF GradeKeyFits, StillCounted

LEMMA KeyStays ==
  ASSUME TablesFit, TablesMove, NEW key
  PROVE  /\ SectionKeyFits(key) => SectionKeyFits(key)'
         /\ KeyFits(key) => KeyFits(key)'
<1>1. ASSUME SectionKeyFits(key)
      PROVE  SectionKeyFits(key)'
  <2>1. GradeKeyFits(key)'
    BY <1>1, GradeKeyStays DEF SectionKeyFits
  <2> QED BY <1>1, <2>1 DEF SectionKeyFits, TablesFit, TablesMove
<1>2. ASSUME KeyFits(key)
      PROVE  KeyFits(key)'
  BY <1>1, <1>2 DEF KeyFits, TablesFit, TablesMove
<1> QED BY <1>1, <1>2

LEMMA SectionKeyStays ==
  ASSUME TablesFit, TablesMove, pc # "idle", NEW key, SectionKeyFits(key), SectionKeyHolds(key)
  PROVE  SectionKeyHolds(key)'
<1> DEFINE max == key.section.max
<1>1. Old(max)' \subseteq Old(max) /\ Old(max) \subseteq Slots
  BY OldShrinks DEF SectionKeyFits, Old, TablesFit
<1>2. Cardinality(Old(max)') <= Cardinality(Old(max))
      /\ Cardinality(Old(max)') \in Nat /\ Cardinality(Old(max)) \in Nat
  BY <1>1, SlotSubsets, SlotSets
<1>3. Cardinality(Old(max)') <= key.section.count
  BY <1>2 DEF SectionKeyFits, SectionKeyHolds
<1>4. ASSUME NEW s \in DOMAIN sections', s \notin Old(max)', s \in DOMAIN sections
      PROVE  s \notin Old(max)
  BY <1>4 DEF Old, TablesMove
<1>5. ASSUME NEW s \in DOMAIN sections', s \notin Old(max)'
      PROVE  ~sections'[s].backfilled
  <2>1. CASE s \notin DOMAIN sections
    BY <2>1 DEF TablesMove
  <2>2. CASE s \in DOMAIN sections
    BY <1>4, <1>5, <2>2 DEF SectionKeyHolds, TablesMove
  <2> QED BY <2>1, <2>2
<1>6. ASSUME StillCounted(key)',
             NEW s \in DOMAIN grades' \cap DOMAIN sections', s \notin Old(max)'
      PROVE  s \notin cleanup'
  <2>1. StillCounted(key) /\ s \in DOMAIN grades
    BY <1>6, GradeKeyStays DEF SectionKeyFits
  <2>2. s \in DOMAIN sections => s \notin cleanup
    BY <1>4, <1>6, <2>1 DEF SectionKeyHolds
  <2> QED BY <2>1, <2>2 DEF TablesMove, TablesFit
<1> QED BY <1>3, <1>5, <1>6 DEF SectionKeyHolds

LEMMA RowsStay ==
  ASSUME TablesFit, TablesMove, NEW key, NEW rows, KeyFits(key), RowsFit(key, rows)
  PROVE  RowsFit(key, rows)'
<1> DEFINE max == key.section.max
           joined == {s \in DOMAIN rows : rows[s].section.id \in 1..max}
<1>1. Old(max)' \subseteq Old(max) /\ \A s \in Old(max)' : sections'[s].id = sections[s].id
  BY OldShrinks DEF KeyFits, SectionKeyFits
<1>2. DOMAIN rows \subseteq DOMAIN grades' /\ key.grade.count <= Cardinality(DOMAIN rows)
  BY DEF RowsFit, TablesMove
<1>3. ASSUME NEW s \in DOMAIN rows
      PROVE  /\ rows[s].grade.id = grades'[s].id
             /\ rows[s].section.id \in 0..(nextId' - 1)
             /\ s \in Old(max)' => rows[s].section.id = sections'[s].id
             /\ StillCounted(key)' /\ rows[s].section.id > max =>
                  /\ s \in DOMAIN sections' \ cleanup'
                  /\ sections'[s].id = rows[s].section.id /\ ~sections'[s].backfilled
  <2>1. rows[s].grade.id = grades'[s].id
    BY DEF RowsFit, TablesMove
  <2>2. rows[s].section.id \in 0..(nextId' - 1)
    BY DEF RowsFit, TablesMove, TablesFit
  <2>3. s \in Old(max)' => rows[s].section.id = sections'[s].id
    BY <1>1 DEF RowsFit
  <2>4. ASSUME StillCounted(key)', rows[s].section.id > max
        PROVE  /\ s \in DOMAIN sections' \ cleanup'
               /\ sections'[s].id = rows[s].section.id /\ ~sections'[s].backfilled
    <3>1. StillCounted(key)
      BY <2>4, GradeKeyStays DEF KeyFits, SectionKeyFits
    <3>2. /\ s \in DOMAIN sections \ cleanup /\ s \in DOMAIN grades
          /\ sections[s].id = rows[s].section.id /\ ~sections[s].backfilled
      BY <2>4, <3>1 DEF RowsFit
    <3> QED BY <3>2 DEF TablesMove
  <2> QED BY <2>1, <2>2, <2>3, <2>4
<1>4. Cardinality(Old(max)' \cup joined) <= key.section.count
  <2>1. Old(max) \cup joined \subseteq Slots /\ Old(max)' \cup joined \subseteq Old(max) \cup joined
    BY <1>1 DEF Old, TablesFit, RowsFit
  <2>2. Cardinality(Old(max)' \cup joined) <= Cardinality(Old(max) \cup joined)
        /\ Cardinality(Old(max)' \cup joined) \in Nat /\ Cardinality(Old(max) \cup joined) \in Nat
    BY <2>1, SlotSubsets, SlotSets
  <2>3. Cardinality(Old(max) \cup joined) <= key.section.count
    BY DEF RowsFit
  <2> HIDE DEF joined
  <2> QED BY <2>2, <2>3 DEF KeyFits, SectionKeyFits
<1> QED BY <1>2, <1>3, <1>4 DEF RowsFit

LEMMA NamesStay ==
  ASSUME TablesFit, TablesMove, NEW key, NEW evidence, KeyFits(key),
         RowsFit(key, evidence), NamesFit(key, evidence)
  PROVE  NamesFit(key, evidence)'
<1> SUFFICES ASSUME NEW s \in DOMAIN evidence
             PROVE  /\ evidence[s].section.id = 0 => evidence[s].names = {}
                    /\ s \in DOMAIN sections' /\ sections'[s].id = evidence[s].section.id =>
                         /\ evidence[s].names \subseteq {o.name : o \in sections'[s].names}
                         /\ \A o \in sections'[s].names :
                              o.id <= key.name.max => o.name \in evidence[s].names
  BY DEF NamesFit
<1>1. evidence[s].section.id = 0 => evidence[s].names = {}
  BY DEF NamesFit
<1>2. ASSUME s \in DOMAIN sections', sections'[s].id = evidence[s].section.id
      PROVE  /\ evidence[s].names \subseteq {o.name : o \in sections'[s].names}
             /\ \A o \in sections'[s].names :
                  o.id <= key.name.max => o.name \in evidence[s].names
  <2>1. evidence[s].section.id < nextId
    BY DEF RowsFit, TablesFit
  <2>2. s \in DOMAIN sections
    <3> SUFFICES ASSUME s \notin DOMAIN sections PROVE FALSE
      OBVIOUS
    <3>1. sections'[s].id \in Nat /\ sections'[s].id >= nextId
      BY <1>2 DEF TablesMove
    <3>2. evidence[s].section.id \in Nat /\ nextId \in Nat
      BY DEF RowsFit, TablesFit
    <3> QED BY <1>2, <2>1, <3>1, <3>2
  <2>3. /\ sections[s].id = evidence[s].section.id
        /\ sections[s].names \subseteq sections'[s].names
        /\ \A o \in sections'[s].names \ sections[s].names : o.id \in Nat /\ o.id >= nextId
    BY <1>2, <2>2 DEF TablesMove
  <2>4. evidence[s].names \subseteq {o.name : o \in sections'[s].names}
    BY <2>2, <2>3 DEF NamesFit
  <2>5. ASSUME NEW o \in sections'[s].names, o.id <= key.name.max
        PROVE  o.name \in evidence[s].names
    <3>1. o \in sections[s].names
      <4> SUFFICES ASSUME o \notin sections[s].names PROVE FALSE
        OBVIOUS
      <4>1. o.id \in Nat /\ o.id >= nextId
        BY <2>3
      <4>2. key.name.max < nextId /\ key.name.max \in Nat /\ nextId \in Nat
        BY DEF KeyFits, TablesFit
      <4> QED BY <2>5, <4>1, <4>2
    <3> QED BY <2>2, <2>3, <2>5, <3>1 DEF NamesFit
  <2> QED BY <2>4, <2>5
<1> QED BY <1>1, <1>2

---------------------------------------------------------------------------
(* The statements of a sweep *)

LEMMA GradeKeyIs ==
  ASSUME TablesFit
  PROVE  GradeKey.count = Cardinality(DOMAIN grades) /\ GradeKey.count \in Nat
<1>1. GradeKey.count = Cardinality(DOMAIN grades)
  BY DEF GradeKey
<1>2. Cardinality(DOMAIN grades) \in Nat
  BY SlotSets DEF TablesFit
<1> QED BY <1>1, <1>2

LEMMA SectionKeyIs ==
  ASSUME TablesFit
  PROVE  /\ SectionKey.count = Cardinality(DOMAIN sections) /\ SectionKey.count \in Nat
         /\ SectionKey.max \in 0..(nextId - 1)
         /\ \A s \in DOMAIN sections : sections[s].id <= SectionKey.max
<1> DEFINE ids == {sections[s].id : s \in DOMAIN sections}
<1>1. SectionKey.count = Cardinality(DOMAIN sections) /\ SectionKey.max = MaxId(ids)
  BY DEF SectionKey
<1>2. Cardinality(DOMAIN sections) \in Nat
  BY SlotSets DEF TablesFit
<1>3. nextId - 1 \in Nat
  BY DEF TablesFit
<1>4. ids \in SUBSET Nat /\ \A x \in ids : x <= nextId - 1
  BY <1>3 DEF TablesFit
<1>5. \A s \in DOMAIN sections : sections[s].id \in ids
  OBVIOUS
<1> HIDE DEF ids
<1>6. MaxId(ids) \in 0..(nextId - 1) /\ \A x \in ids : x <= MaxId(ids)
  BY <1>3, <1>4, MaxIdBounds
<1> QED BY <1>1, <1>2, <1>5, <1>6

LEMMA NameKeyIs ==
  ASSUME TablesFit
  PROVE  /\ NameKey.max \in 0..(nextId - 1)
         /\ \A s \in DOMAIN sections : \A o \in sections[s].names : o.id <= NameKey.max
<1> DEFINE names == UNION {sections[s].names : s \in DOMAIN sections}
           ids == {o.id : o \in names}
<1>1. NameKey.max = MaxId(ids)
  BY DEF NameKey
<1>2. nextId - 1 \in Nat
  BY DEF TablesFit
<1>3. ids \in SUBSET Nat /\ \A x \in ids : x <= nextId - 1
  BY <1>2 DEF TablesFit
<1>4. \A s \in DOMAIN sections : \A o \in sections[s].names : o.id \in ids
  OBVIOUS
<1> HIDE DEF ids
<1>5. MaxId(ids) \in 0..(nextId - 1) /\ \A x \in ids : x <= MaxId(ids)
  BY <1>2, <1>3, MaxIdBounds
<1> QED BY <1>1, <1>4, <1>5

(* With the largest id read now, every section is old *)
LEMMA AllOldAtRead ==
  ASSUME TablesFit
  PROVE  Old(SectionKey.max) = DOMAIN sections
BY SectionKeyIs DEF Old

LEMMA KeyIsRead ==
  ASSUME TablesFit, NEW g, GradeKeyFits([grade |-> g])
  PROVE  /\ SectionKeyFits([grade |-> g, section |-> SectionKey])
         /\ SectionKeyHolds([grade |-> g, section |-> SectionKey])
<1> DEFINE key == [grade |-> g, section |-> SectionKey]
<1>1. key.grade = g /\ key.section = SectionKey
  OBVIOUS
<1> HIDE DEF key
<1>2. SectionKeyFits(key)
  BY <1>1, SectionKeyIs DEF SectionKeyFits, GradeKeyFits
<1>3. Cardinality(Old(key.section.max)) = key.section.count /\ key.section.count \in Nat
  BY <1>1, SectionKeyIs, AllOldAtRead
<1>4. SectionKeyHolds(key)
  BY <1>1, <1>3, AllOldAtRead DEF SectionKeyHolds
<1> QED BY <1>2, <1>4 DEF key

(* Only the grade and section parts of a key bear on the rows *)
LEMMA NameIsRead ==
  ASSUME TablesFit, NEW key, SectionKeyFits(key), SectionKeyHolds(key)
  PROVE  LET full == [grade |-> key.grade, section |-> key.section, name |-> NameKey]
         IN KeyFits(full) /\ SectionKeyHolds(full)
<1> DEFINE full == [grade |-> key.grade, section |-> key.section, name |-> NameKey]
<1>1. full.grade = key.grade /\ full.section = key.section /\ full.name = NameKey
  OBVIOUS
<1> HIDE DEF full
<1>2. KeyFits(full)
  BY <1>1, NameKeyIs DEF KeyFits, SectionKeyFits, GradeKeyFits
<1>3. SectionKeyHolds(full)
  BY <1>1 DEF SectionKeyHolds, StillCounted
<1> QED BY <1>2, <1>3 DEF full

LEMMA RowsAreRead ==
  ASSUME TablesFit, NEW key, KeyFits(key), SectionKeyHolds(key)
  PROVE  RowsFit(key, EvidenceRows(grades, sections, Before))
<1> DEFINE rows == EvidenceRows(grades, sections, Before)
           max == key.section.max
           joined == {s \in DOMAIN rows : rows[s].section.id \in 1..max}
<1>1. AllSlots(grades, Before) = DOMAIN grades
  BY EvidenceAssumption DEF TablesFit, AllSlots
<1>2. /\ DOMAIN rows = DOMAIN grades
      /\ \A s \in DOMAIN grades :
           /\ rows[s].grade = grades[s]
           /\ rows[s].section.id = IF s \in DOMAIN sections THEN sections[s].id ELSE 0
  BY <1>1 DEF EvidenceRows, NoSection
<1> HIDE DEF rows
<1>3. \A s \in DOMAIN rows :
        /\ rows[s].grade.id = grades[s].id
        /\ rows[s].section.id \in 0..(nextId - 1)
        /\ s \in Old(max) => rows[s].section.id = sections[s].id
  BY <1>2 DEF TablesFit, Old
<1>4. ASSUME NEW s \in DOMAIN rows, StillCounted(key), rows[s].section.id > max
      PROVE  /\ s \in DOMAIN sections \ cleanup
             /\ sections[s].id = rows[s].section.id /\ ~sections[s].backfilled
  <2>1. s \in DOMAIN sections /\ sections[s].id = rows[s].section.id
    BY <1>2, <1>4 DEF KeyFits, SectionKeyFits, TablesFit
  <2>2. s \notin Old(max)
    BY <1>4, <2>1 DEF Old, KeyFits, SectionKeyFits, TablesFit
  <2> QED BY <1>2, <1>4, <2>1, <2>2 DEF SectionKeyHolds
<1>5. joined \subseteq Old(max)
  BY <1>2 DEF Old, KeyFits, SectionKeyFits
<1>6. Old(max) \cup joined = Old(max)
  BY <1>5
<1>7. Cardinality(Old(max) \cup joined) <= key.section.count
  BY <1>6 DEF SectionKeyHolds
<1>8. DOMAIN rows \subseteq DOMAIN grades /\ key.grade.count <= Cardinality(DOMAIN rows)
  BY <1>2 DEF KeyFits, SectionKeyFits, GradeKeyFits
<1>9. RowsFit(key, rows)
  BY <1>3, <1>4, <1>7, <1>8 DEF RowsFit
<1> QED BY <1>9 DEF rows

LEMMA NamesAreRead ==
  ASSUME TablesFit, NEW key, NEW rows, RowsFit(key, rows)
  PROVE  /\ RowsFit(key, WithNames(rows, sections))
         /\ NamesFit(key, WithNames(rows, sections))
<1> DEFINE evidence == WithNames(rows, sections)
           max == key.section.max
<1>1. /\ DOMAIN evidence = DOMAIN rows
      /\ \A s \in DOMAIN rows :
           /\ evidence[s].grade = rows[s].grade /\ evidence[s].section = rows[s].section
           /\ evidence[s].names = IF s \in DOMAIN sections /\ sections[s].id = rows[s].section.id
                                  THEN {o.name : o \in sections[s].names} ELSE {}
  BY DEF WithNames
<1> HIDE DEF evidence
<1>2. {s \in DOMAIN evidence : evidence[s].section.id \in 1..max}
        = {s \in DOMAIN rows : rows[s].section.id \in 1..max}
  BY <1>1
<1>3. RowsFit(key, evidence)
  BY <1>1, <1>2 DEF RowsFit
<1>4. NamesFit(key, evidence)
  <2> SUFFICES ASSUME NEW s \in DOMAIN evidence
               PROVE  /\ evidence[s].section.id = 0 => evidence[s].names = {}
                      /\ s \in DOMAIN sections /\ sections[s].id = evidence[s].section.id =>
                           /\ evidence[s].names \subseteq {o.name : o \in sections[s].names}
                           /\ \A o \in sections[s].names :
                                o.id <= key.name.max => o.name \in evidence[s].names
    BY DEF NamesFit
  <2>1. ASSUME evidence[s].section.id = 0
        PROVE  evidence[s].names = {}
    <3>1. s \in DOMAIN sections => sections[s].id # 0
      BY DEF TablesFit
    <3>2. s \in DOMAIN rows /\ rows[s].section.id = 0
      BY <1>1, <2>1
    <3> QED BY <1>1, <3>1, <3>2
  <2>2. s \in DOMAIN sections /\ sections[s].id = evidence[s].section.id =>
          evidence[s].names = {o.name : o \in sections[s].names}
    BY <1>1
  <2> QED BY <2>1, <2>2
<1> QED BY <1>3, <1>4 DEF evidence

---------------------------------------------------------------------------
(* The invariant *)

LEMMA InitFits == Init => EvidenceInv
<1> SUFFICES ASSUME Init PROVE EvidenceInv
  OBVIOUS
<1>1. DOMAIN grades = {} /\ DOMAIN sections = {} /\ grades = [s \in DOMAIN grades |-> grades[s]]
  BY DEF Init
<1>2. TablesFit
  BY <1>1 DEF Init, TablesFit
<1>3. SweepFits
  BY DEF Init, SweepFits, Places
<1>4. KeptFits
  BY DEF Init, KeptFits
<1> QED BY <1>2, <1>3, <1>4 DEF EvidenceInv

(* A step of another writer *)
LEMMA WritersKeep ==
  ASSUME EvidenceInv, TablesFit', TablesMove, UNCHANGED worker
  PROVE  EvidenceInv'
<1>0. TablesFit /\ SweepFits /\ KeptFits
  BY DEF EvidenceInv
<1>1. kept' = kept /\ pc' = pc /\ sweep' = sweep
  BY DEF worker
<1>2. Cardinality(DOMAIN grades) <= Cardinality(DOMAIN grades')
      /\ Cardinality(DOMAIN grades) \in Nat /\ Cardinality(DOMAIN grades') \in Nat
  BY <1>0, SlotSubsets, SlotSets DEF TablesMove
<1>3. \A n \in Nat : n <= Cardinality(DOMAIN grades) => n <= Cardinality(DOMAIN grades')
  BY <1>2
<1>4. SweepFits'
  <2>1. pc' \in Places
    BY <1>0, <1>1 DEF SweepFits
  <2>2. ASSUME pc = "section_key"
        PROVE  GradeKeyFits(sweep.key)'
    <3>1. \A k : k = sweep.key => GradeKeyFits(k)'
      BY <1>0, <2>2, GradeKeyStays DEF SweepFits
    <3> QED BY <1>1, <3>1 DEF GradeKeyFits
  <2>3. ASSUME pc \in {"name_key", "rows", "names"}
        PROVE  SectionKeyFits(sweep.key)' /\ SectionKeyHolds(sweep.key)'
    <3>1. SectionKeyFits(sweep.key) /\ SectionKeyHolds(sweep.key) /\ pc # "idle"
      BY <1>0, <2>3 DEF SweepFits, KeyFits
    <3>2. \A k : k = sweep.key => SectionKeyFits(k)' /\ SectionKeyHolds(k)'
      BY <1>0, <3>1, KeyStays, SectionKeyStays
    <3>3. sweep.key' = sweep.key
      BY <1>1
    <3> QED BY <3>2, <3>3 DEF SectionKeyFits, GradeKeyFits, SectionKeyHolds, StillCounted, Old
  <2>4. ASSUME pc \in {"rows", "names"}
        PROVE  KeyFits(sweep.key)'
    <3>1. \A k : k = sweep.key => KeyFits(k)'
      BY <1>0, <2>4, KeyStays DEF SweepFits
    <3> QED BY <1>1, <3>1 DEF KeyFits, SectionKeyFits, GradeKeyFits
  <2>5. ASSUME pc = "names"
        PROVE  RowsFit(sweep.key, sweep.rows)'
    <3>1. KeyFits(sweep.key) /\ RowsFit(sweep.key, sweep.rows)
      BY <1>0, <2>5 DEF SweepFits
    <3>2. \A k, r : k = sweep.key /\ r = sweep.rows => RowsFit(k, r)'
      BY <1>0, <3>1, RowsStay
    <3> QED BY <1>1, <3>2 DEF RowsFit, StillCounted, Old
  <2> QED BY <1>1, <2>1, <2>2, <2>3, <2>4, <2>5 DEF SweepFits
<1>5. KeptFits'
  <2>1. CASE kept = NoEvidence
    <3>1. kept' = NoEvidence
      BY <1>1, <2>1
    <3> QED BY <3>1 DEF KeptFits
  <2>2. CASE kept # NoEvidence
    <3>1. KeyFits(kept.key) /\ RowsFit(kept.key, kept.evidence) /\ NamesFit(kept.key, kept.evidence)
      BY <1>0, <2>2 DEF KeptFits
    <3>2. \A k, e : k = kept.key /\ e = kept.evidence =>
            KeyFits(k)' /\ RowsFit(k, e)' /\ NamesFit(k, e)'
      BY <1>0, <3>1, KeyStays, RowsStay, NamesStay
    <3>3. KeyFits(kept.key)' /\ RowsFit(kept.key, kept.evidence)' /\ NamesFit(kept.key, kept.evidence)'
      <4>1. kept'.key = kept.key /\ kept'.evidence = kept.evidence
        BY <1>1
      <4>2. KeyFits(kept.key)'
        BY <3>2, <4>1 DEF KeyFits, SectionKeyFits, GradeKeyFits
      <4>3. RowsFit(kept.key, kept.evidence)'
        BY <3>2, <4>1 DEF RowsFit, StillCounted, Old
      <4>4. NamesFit(kept.key, kept.evidence)'
        BY <3>2, <4>1 DEF NamesFit
      <4> QED BY <4>2, <4>3, <4>4
    <3> QED BY <3>3 DEF KeptFits
  <2> QED BY <2>1, <2>2
<1> QED BY <1>4, <1>5 DEF EvidenceInv

(* Steps of the worker leave the tables alone *)
LEMMA TablesStill ==
  ASSUME TablesFit, UNCHANGED tables
  PROVE  /\ TablesFit' /\ TablesMove
         /\ \A key : /\ KeyFits(key) => KeyFits(key)'
                     /\ SectionKeyFits(key) => SectionKeyFits(key)'
                     /\ SectionKeyHolds(key) => SectionKeyHolds(key)'
         /\ \A key, rows : /\ RowsFit(key, rows) => RowsFit(key, rows)'
                           /\ NamesFit(key, rows) => NamesFit(key, rows)'
<1>1. grades' = grades /\ sections' = sections /\ nextId' = nextId /\ cleanup' = cleanup
  BY DEF tables
<1>2. TablesFit' /\ TablesMove
  BY <1>1 DEF TablesFit, TablesMove
<1>3. \A key : /\ KeyFits(key) => KeyFits(key)'
               /\ SectionKeyFits(key) => SectionKeyFits(key)'
               /\ SectionKeyHolds(key) => SectionKeyHolds(key)'
  BY <1>1 DEF KeyFits, SectionKeyFits, GradeKeyFits, SectionKeyHolds, StillCounted, Old
<1>4. \A key, rows : /\ RowsFit(key, rows) => RowsFit(key, rows)'
                     /\ NamesFit(key, rows) => NamesFit(key, rows)'
  BY <1>1 DEF RowsFit, NamesFit, StillCounted, Old
<1> QED BY <1>2, <1>3, <1>4

(* The kept evidence is not touched *)
LEMMA KeptStays ==
  ASSUME EvidenceInv, UNCHANGED tables, UNCHANGED kept
  PROVE  TablesFit' /\ KeptFits'
<1>0. TablesFit /\ KeptFits
  BY DEF EvidenceInv
<1>1. TablesFit'
  BY <1>0, TablesStill
<1>2. CASE kept = NoEvidence
  <2>1. kept' = NoEvidence
    BY <1>2
  <2> QED BY <1>1, <2>1 DEF KeptFits
<1>3. CASE kept # NoEvidence
  <2>1. KeyFits(kept.key) /\ RowsFit(kept.key, kept.evidence) /\ NamesFit(kept.key, kept.evidence)
    BY <1>0, <1>3 DEF KeptFits
  <2>2. \A k, e : k = kept.key /\ e = kept.evidence =>
          KeyFits(k)' /\ RowsFit(k, e)' /\ NamesFit(k, e)'
    BY <1>0, <2>1, TablesStill
  <2>3. KeyFits(kept.key)' /\ RowsFit(kept.key, kept.evidence)' /\ NamesFit(kept.key, kept.evidence)'
    <3>1. kept'.key = kept.key /\ kept'.evidence = kept.evidence
      OBVIOUS
    <3>2. KeyFits(kept.key)'
      BY <2>2, <3>1 DEF KeyFits, SectionKeyFits, GradeKeyFits
    <3>3. RowsFit(kept.key, kept.evidence)'
      <4>1. grades' = grades /\ sections' = sections /\ nextId' = nextId /\ cleanup' = cleanup
        BY DEF tables
      <4> QED BY <2>1, <3>1, <4>1 DEF RowsFit, StillCounted, Old
    <3>4. NamesFit(kept.key, kept.evidence)'
      BY <2>2, <3>1 DEF NamesFit
    <3> QED BY <3>2, <3>3, <3>4
  <2> QED BY <1>1, <2>3 DEF KeptFits
<1> QED BY <1>2, <1>3

LEMMA WorkerKeeps ==
  ASSUME EvidenceInv,
         BeginSweep \/ ReadGradeKey \/ ReadSectionKey \/ ReadNameKey \/ LoadRows \/ LoadNames
         \/ EndSweep \/ RestartWorker
  PROVE  EvidenceInv'
<1>0. TablesFit /\ SweepFits /\ KeptFits
  BY DEF EvidenceInv
<1>1. UNCHANGED tables
  BY DEF BeginSweep, ReadGradeKey, ReadSectionKey, ReadNameKey, LoadRows, LoadNames, EndSweep,
         RestartWorker
<1>2. grades' = grades /\ sections' = sections /\ nextId' = nextId /\ cleanup' = cleanup
  BY <1>1 DEF tables
<1>3. CASE BeginSweep
  <2>1. pc' = "grade_key" /\ UNCHANGED kept
    BY <1>3 DEF BeginSweep
  <2>2. TablesFit' /\ KeptFits'
    BY <1>1, <2>1, KeptStays
  <2>3. SweepFits'
    BY <2>1 DEF SweepFits, Places
  <2> QED BY <2>2, <2>3 DEF EvidenceInv
<1>4. CASE ReadGradeKey
  <2>1. pc' = "section_key" /\ UNCHANGED kept /\ sweep' = [sweep EXCEPT !.key = [grade |-> GradeKey]]
    BY <1>4 DEF ReadGradeKey
  <2>2. TablesFit' /\ KeptFits'
    BY <1>1, <2>1, KeptStays
  <2>3. sweep'.key.grade = GradeKey
    BY <2>1
  <2>4. SweepFits'
    BY <1>0, <1>2, <2>1, <2>3, GradeKeyIs DEF SweepFits, GradeKeyFits, Places
  <2> QED BY <2>2, <2>4 DEF EvidenceInv
<1>5. CASE ReadSectionKey
  <2> DEFINE key == [grade |-> sweep.key.grade, section |-> SectionKey]
  <2>1. /\ pc = "section_key" /\ pc' = "name_key" /\ UNCHANGED kept
        /\ sweep' = [sweep EXCEPT !.key = key]
    BY <1>5 DEF ReadSectionKey
  <2>2. TablesFit' /\ KeptFits'
    BY <1>1, <2>1, KeptStays
  <2>3. GradeKeyFits([grade |-> sweep.key.grade])
    BY <1>0, <2>1 DEF SweepFits, GradeKeyFits
  <2>4. SectionKeyFits(key) /\ SectionKeyHolds(key)
    BY <1>0, <2>3, KeyIsRead
  <2>5. sweep'.key = key
    BY <2>1
  <2> HIDE DEF key
  <2>6. SectionKeyFits(sweep.key)' /\ SectionKeyHolds(sweep.key)'
    BY <1>2, <2>4, <2>5 DEF SectionKeyFits, GradeKeyFits, SectionKeyHolds, StillCounted, Old
  <2>7. SweepFits'
    BY <2>1, <2>6 DEF SweepFits, Places
  <2> QED BY <2>2, <2>7 DEF EvidenceInv
<1>10. CASE ReadNameKey
  <2> DEFINE key == [grade |-> sweep.key.grade, section |-> sweep.key.section, name |-> NameKey]
  <2>1. /\ pc = "name_key" /\ UNCHANGED kept
        /\ \/ pc' = "rebuild"
           \/ pc' = "rows" /\ sweep' = [sweep EXCEPT !.key = key]
    BY <1>10 DEF ReadNameKey
  <2>2. TablesFit' /\ KeptFits'
    BY <1>1, <2>1, KeptStays
  <2>3. SectionKeyFits(sweep.key) /\ SectionKeyHolds(sweep.key)
    BY <1>0, <2>1 DEF SweepFits
  <2>4. KeyFits(key) /\ SectionKeyHolds(key)
    BY <1>0, <2>3, NameIsRead
  <2>5. ASSUME pc' = "rows" PROVE sweep'.key = key
    <3>1. sweep' = [sweep EXCEPT !.key = key]
      BY <2>1, <2>5
    <3> QED BY <3>1
  <2> HIDE DEF key
  <2>6. pc' = "rows" => KeyFits(sweep.key)' /\ SectionKeyHolds(sweep.key)'
    BY <1>2, <2>4, <2>5
    DEF KeyFits, SectionKeyFits, GradeKeyFits, SectionKeyHolds, StillCounted, Old
  <2>7. SweepFits'
    BY <2>1, <2>6 DEF SweepFits, Places
  <2> QED BY <2>2, <2>7 DEF EvidenceInv
<1>6. CASE LoadRows
  <2> DEFINE rows == EvidenceRows(grades, sections, Before)
  <2>1. /\ pc = "rows" /\ pc' = "names" /\ UNCHANGED kept
        /\ sweep' = [sweep EXCEPT !.rows = rows]
    BY <1>6 DEF LoadRows
  <2>2. TablesFit' /\ KeptFits'
    BY <1>1, <2>1, KeptStays
  <2>3. KeyFits(sweep.key) /\ SectionKeyHolds(sweep.key)
    BY <1>0, <2>1 DEF SweepFits
  <2>4. RowsFit(sweep.key, rows)
    BY <1>0, <2>3, RowsAreRead
  <2>5. sweep'.key = sweep.key /\ sweep'.rows = rows
    BY <2>1
  <2> HIDE DEF rows
  <2>6. KeyFits(sweep.key)' /\ SectionKeyHolds(sweep.key)' /\ RowsFit(sweep.key, sweep.rows)'
    BY <1>2, <2>3, <2>4, <2>5
    DEF KeyFits, SectionKeyFits, GradeKeyFits, SectionKeyHolds, RowsFit, StillCounted, Old
  <2>7. SweepFits'
    BY <2>1, <2>6 DEF SweepFits, Places
  <2> QED BY <2>2, <2>7 DEF EvidenceInv
<1>7. CASE LoadNames
  <2> DEFINE evidence == WithNames(sweep.rows, sections)
  <2>1. pc = "names" /\ pc' = "rebuild" /\ kept' = [key |-> sweep.key, evidence |-> evidence]
    BY <1>7 DEF LoadNames
  <2>2. KeyFits(sweep.key) /\ RowsFit(sweep.key, sweep.rows)
    BY <1>0, <2>1 DEF SweepFits
  <2>3. RowsFit(sweep.key, evidence) /\ NamesFit(sweep.key, evidence)
    BY <1>0, <2>2, NamesAreRead
  <2>4. kept'.key = sweep.key /\ kept'.evidence = evidence
    BY <2>1
  <2> HIDE DEF evidence
  <2>5. KeyFits(kept.key)' /\ RowsFit(kept.key, kept.evidence)' /\ NamesFit(kept.key, kept.evidence)'
    BY <1>2, <2>2, <2>3, <2>4
    DEF KeyFits, SectionKeyFits, GradeKeyFits, RowsFit, NamesFit, StillCounted, Old
  <2>6. KeptFits' /\ SweepFits' /\ TablesFit'
    BY <1>0, <1>1, <2>1, <2>5, TablesStill DEF KeptFits, SweepFits, Places
  <2> QED BY <2>6 DEF EvidenceInv
<1>8. CASE EndSweep
  <2>1. pc' = "idle" /\ UNCHANGED kept
    BY <1>8 DEF EndSweep
  <2>2. TablesFit' /\ KeptFits'
    BY <1>1, <2>1, KeptStays
  <2>3. SweepFits'
    BY <2>1 DEF SweepFits, Places
  <2> QED BY <2>2, <2>3 DEF EvidenceInv
<1>9. CASE RestartWorker
  <2>1. pc' = "idle" /\ kept' = NoEvidence
    BY <1>9 DEF RestartWorker
  <2>2. KeptFits' /\ SweepFits' /\ TablesFit'
    BY <1>0, <1>1, <2>1, TablesStill DEF KeptFits, SweepFits, Places
  <2> QED BY <2>2 DEF EvidenceInv
<1> QED BY <1>3, <1>4, <1>5, <1>6, <1>7, <1>8, <1>9, <1>10

LEMMA StepKeeps == EvidenceInv /\ [Next]_vars => EvidenceInv'
<1> SUFFICES ASSUME EvidenceInv, [Next]_vars PROVE EvidenceInv'
  OBVIOUS
<1>0. TablesFit
  BY DEF EvidenceInv
<1>1. CASE Imports
  <2>1. UNCHANGED worker
    BY <1>1 DEF Imports, ImportGrades
  <2> QED BY <1>0, <1>1, <2>1, ImportsMove, WritersKeep
<1>2. CASE Ingests
  <2>1. UNCHANGED worker
    BY <1>2 DEF Ingests, IngestEarlier
  <2> QED BY <1>0, <1>2, <2>1, IngestsMove, WritersKeep
<1>3. CASE Backfills
  <2>1. UNCHANGED worker
    BY <1>3 DEF Backfills, Backfill
  <2> QED BY <1>0, <1>3, <2>1, BackfillsMove, WritersKeep
<1>4. CASE Rollbacks
  <2>1. UNCHANGED worker
    BY <1>4 DEF Rollbacks, RollbackBackfill
  <2> QED BY <1>0, <1>4, <2>1, RollbacksMove, WritersKeep
<1>5. CASE UNCHANGED vars
  <2>1. UNCHANGED worker /\ UNCHANGED tables
    BY <1>5 DEF vars
  <2> QED BY <1>0, <2>1, TablesStill, WritersKeep
<1>6. CASE BeginSweep \/ ReadGradeKey \/ ReadSectionKey \/ ReadNameKey \/ LoadRows \/ LoadNames
           \/ EndSweep \/ RestartWorker
  BY <1>6, WorkerKeeps
<1>7. CASE Cleanups
  <2>1. UNCHANGED worker
    BY <1>7 DEF Cleanups, LockCandidates, DeleteCandidates, FailCleanup
  <2> QED BY <1>0, <1>7, <2>1, CleanupsMove, WritersKeep
<1> QED BY <1>1, <1>2, <1>3, <1>4, <1>5, <1>6, <1>7
        DEF Next, Imports, Ingests, Backfills, Rollbacks, Cleanups

LEMMA EvidenceInvariant == Spec => []EvidenceInv
<1> QED BY InitFits, StepKeeps, PTL DEF Spec

(* Under a matching key the kept evidence has the rows, joins and names of the tables:
   the count of the grade rows leaves room for none that came since, the largest section
   id and the count leave room for no section that came or went, and the largest name id
   for no name that came. *)
LEMMA CurrentFollows == EvidenceInv => KeptRowsAreCurrent
<1> SUFFICES ASSUME EvidenceInv, kept.key = Fingerprint
             PROVE  /\ DOMAIN kept.evidence = DOMAIN grades
                    /\ \A s \in DOMAIN grades :
                         /\ [grade |-> kept.evidence[s].grade.id,
                             section |-> kept.evidence[s].section.id] = RowIds(s)
                         /\ kept.evidence[s].names = NamesAt(s)
  BY DEF KeptRowsAreCurrent
<1> DEFINE key == kept.key
           evidence == kept.evidence
           max == key.section.max
           joined == {s \in DOMAIN evidence : evidence[s].section.id \in 1..max}
<1>0. TablesFit /\ KeptFits
  BY DEF EvidenceInv
<1>1. key.grade = GradeKey /\ key.section = SectionKey /\ key.name = NameKey
  BY DEF Fingerprint
<1>2. kept # NoEvidence
  <2> SUFFICES ASSUME kept = NoEvidence PROVE FALSE
    OBVIOUS
  <2>1. key.grade.count = -1
    BY DEF NoEvidence, NoKey
  <2>2. key.grade.count \in Nat
    BY <1>0, <1>1, GradeKeyIs
  <2> QED BY <2>1, <2>2
<1>3. KeyFits(key) /\ RowsFit(key, evidence) /\ NamesFit(key, evidence)
  BY <1>0, <1>2 DEF KeptFits
<1>4. DOMAIN evidence = DOMAIN grades
  <2>1. DOMAIN evidence \subseteq DOMAIN grades /\ DOMAIN grades \subseteq Slots
    BY <1>0, <1>3 DEF RowsFit, TablesFit
  <2>2. Cardinality(DOMAIN grades) <= Cardinality(DOMAIN evidence)
    BY <1>0, <1>1, <1>3, GradeKeyIs DEF RowsFit
  <2> QED BY <2>1, <2>2, SlotSubsets
<1>5. Old(max) = DOMAIN sections
  BY <1>0, <1>1, AllOldAtRead
<1>6. joined \subseteq DOMAIN sections
  <2> DEFINE all == DOMAIN sections \cup joined
  <2>1. all \subseteq Slots
    BY <1>0, <1>4 DEF TablesFit
  <2>2. Cardinality(all) <= Cardinality(DOMAIN sections)
    BY <1>0, <1>1, <1>3, <1>5, SectionKeyIs DEF RowsFit
  <2>3. DOMAIN sections \subseteq all
    OBVIOUS
  <2> HIDE DEF all
  <2>4. all = DOMAIN sections
    BY <2>1, <2>2, <2>3, SlotSubsets
  <2> QED BY <2>4 DEF all
<1> SUFFICES ASSUME NEW s \in DOMAIN grades
             PROVE  /\ [grade |-> evidence[s].grade.id,
                        section |-> evidence[s].section.id] = RowIds(s)
                    /\ evidence[s].names = NamesAt(s)
  BY <1>4
<1>7. evidence[s].grade.id = grades[s].id
  BY <1>3, <1>4 DEF RowsFit
<1>8. CASE s \in DOMAIN sections
  <2>1. evidence[s].section.id = sections[s].id
    BY <1>3, <1>4, <1>5, <1>8 DEF RowsFit
  <2>2. evidence[s].names = {o.name : o \in sections[s].names}
    <3>1. \A o \in sections[s].names : o.id <= key.name.max
      BY <1>0, <1>1, <1>8, NameKeyIs
    <3>2. evidence[s].names \subseteq {o.name : o \in sections[s].names}
      BY <1>3, <1>4, <1>8, <2>1 DEF NamesFit
    <3>3. \A o \in sections[s].names : o.name \in evidence[s].names
      BY <1>3, <1>4, <1>8, <2>1, <3>1 DEF NamesFit
    <3> HIDE DEF evidence
    <3> QED BY <3>2, <3>3
  <2> QED BY <1>7, <1>8, <2>1, <2>2 DEF RowIds, NamesAt
<1>9. CASE s \notin DOMAIN sections
  <2>1. evidence[s].section.id \in 0..(nextId - 1)
    BY <1>3, <1>4 DEF RowsFit
  <2>2. ~(evidence[s].section.id > max)
    BY <1>0, <1>1, <1>3, <1>4, <1>9, GradeKeyIs DEF RowsFit, StillCounted
  <2>3. evidence[s].section.id \notin 1..max
    BY <1>4, <1>6, <1>9
  <2>4. max \in Nat
    BY <1>3 DEF KeyFits, SectionKeyFits
  <2>5. evidence[s].section.id = 0
    <3> DEFINE id == evidence[s].section.id
    <3>1. id \in Nat /\ ~(id > max) /\ id \notin 1..max
      BY <1>0, <2>1, <2>2, <2>3 DEF TablesFit
    <3> HIDE DEF id, max
    <3>2. id = 0
      BY <2>4, <3>1
    <3> QED BY <3>2 DEF id
  <2>6. evidence[s].names = {}
    BY <1>3, <1>4, <2>5 DEF NamesFit
  <2> QED BY <1>7, <1>9, <2>5, <2>6 DEF RowIds, NamesAt
<1> QED BY <1>8, <1>9

(* The worker's cache never misses a row that an import, an ingest, a backfill, a rollback
   or a cleanup added or removed, whichever of the key's three statements and the load's two
   it came between, since a cleanup refuses a section that has a grade row: whenever its key is that of the tables, the evidence it
   keeps has their rows, joined to the same sections and names. *)
THEOREM KeptRowsCurrent == Spec => []KeptRowsAreCurrent
<1> QED BY EvidenceInvariant, CurrentFollows, PTL

---------------------------------------------------------------------------
(* One read of the term and the reads course by course *)

(* The grade rows are those of the tables; a row has a course and the names of a
   section if and only if its slot has one *)
LEMMA EvidenceIs ==
  ASSUME TablesFit
  PROVE  LET evidence == Evidence(grades, sections, Before)
         IN  /\ DOMAIN evidence = DOMAIN grades
             /\ AllSlots(grades, Before) = DOMAIN grades
             /\ \A s \in DOMAIN grades :
                  /\ TermOf[s] < Before
                  /\ evidence[s].grade = grades[s]
                  /\ s \in DOMAIN sections =>
                       /\ evidence[s].section.course = sections[s].course
                       /\ evidence[s].section.lab = sections[s].lab
                       /\ evidence[s].names = {o.name : o \in sections[s].names}
                  /\ s \notin DOMAIN sections =>
                       evidence[s].section.course = NoCourse /\ evidence[s].names = {}
<1> DEFINE rows == EvidenceRows(grades, sections, Before)
           evidence == WithNames(rows, sections)
<1>1. AllSlots(grades, Before) = DOMAIN grades /\ \A s \in DOMAIN grades : TermOf[s] < Before
  BY EvidenceAssumption DEF TablesFit, AllSlots
<1>2. DOMAIN rows = DOMAIN grades
      /\ \A s \in DOMAIN grades :
           /\ rows[s].grade = grades[s]
           /\ s \in DOMAIN sections =>
                rows[s].section = [id |-> sections[s].id, course |-> sections[s].course,
                                   lab |-> sections[s].lab]
           /\ s \notin DOMAIN sections => rows[s].section = NoSection
  BY <1>1 DEF EvidenceRows
<1> HIDE DEF rows
<1>3. DOMAIN evidence = DOMAIN grades
      /\ \A s \in DOMAIN grades :
           /\ evidence[s].grade = rows[s].grade /\ evidence[s].section = rows[s].section
           /\ evidence[s].names = IF s \in DOMAIN sections /\ sections[s].id = rows[s].section.id
                                  THEN {o.name : o \in sections[s].names} ELSE {}
  BY <1>2 DEF WithNames
<1> HIDE DEF evidence
<1>4. ASSUME NEW s \in DOMAIN grades
      PROVE  /\ evidence[s].grade = grades[s]
             /\ s \in DOMAIN sections =>
                  /\ evidence[s].section.course = sections[s].course
                  /\ evidence[s].section.lab = sections[s].lab
                  /\ evidence[s].names = {o.name : o \in sections[s].names}
             /\ s \notin DOMAIN sections =>
                  evidence[s].section.course = NoCourse /\ evidence[s].names = {}
  <2>1. CASE s \in DOMAIN sections
    <3>1. rows[s].section = [id |-> sections[s].id, course |-> sections[s].course,
                             lab |-> sections[s].lab]
      BY <1>2, <2>1
    <3>2. rows[s].section.id = sections[s].id /\ rows[s].section.course = sections[s].course
          /\ rows[s].section.lab = sections[s].lab
      BY <3>1
    <3>3. evidence[s].grade = grades[s] /\ evidence[s].section = rows[s].section
      BY <1>2, <1>3
    <3>4. evidence[s].names = {o.name : o \in sections[s].names}
      BY <1>3, <2>1, <3>2
    <3> QED BY <2>1, <3>2, <3>3, <3>4
  <2>2. CASE s \notin DOMAIN sections
    <3>1. evidence[s].grade = grades[s] /\ evidence[s].section = NoSection
      BY <1>2, <1>3, <2>2
    <3>2. evidence[s].names = {}
      BY <1>3, <2>2
    <3>3. evidence[s].section.course = NoCourse
      BY <3>1 DEF NoSection
    <3> QED BY <2>2, <3>1, <3>2, <3>3
  <2> QED BY <2>1, <2>2
<1>5. Evidence(grades, sections, Before) = evidence
  BY DEF Evidence, evidence, rows
<1> QED BY <1>1, <1>3, <1>4, <1>5

(* An aggregate reads no more of the mapped slots than those it adds up *)
LEMMA AggregateOfMapped ==
  ASSUME NEW rows, NEW S, NEW some, NEW other, S \cap some = S \cap other
  PROVE  Aggregate(rows, S, some) = Aggregate(rows, S, other)
BY DEF Aggregate

(* The slots of a set of courses *)
LEMMA SameCourseSlots ==
  ASSUME TablesFit, NEW ids \in SUBSET CourseIds
  PROVE  EvidenceFor(Evidence(grades, sections, Before), ids)
           = CourseSlots(grades, sections, ids, Before)
<1> DEFINE evidence == Evidence(grades, sections, Before)
<1>1. NoCourse \notin ids
  BY ScoresAssumption DEF NoCourse
<1>2. DOMAIN evidence = DOMAIN grades
  BY EvidenceIs
<1>3. ASSUME NEW s \in DOMAIN grades
      PROVE  {evidence[s].grade.course, evidence[s].section.course} \cap ids # {}
               <=> /\ TermOf[s] < Before
                   /\ \/ grades[s].course \in ids
                      \/ s \in DOMAIN sections /\ sections[s].course \in ids
  <2>1. /\ TermOf[s] < Before /\ evidence[s].grade = grades[s]
        /\ s \in DOMAIN sections => evidence[s].section.course = sections[s].course
        /\ s \notin DOMAIN sections => evidence[s].section.course = NoCourse
    BY EvidenceIs
  <2> HIDE DEF evidence
  <2> QED BY <1>1, <2>1
<1> HIDE DEF evidence
<1>4. EvidenceFor(evidence, ids) = CourseSlots(grades, sections, ids, Before)
  BY <1>2, <1>3 DEF EvidenceFor, CourseSlots
<1> QED BY <1>4 DEF evidence

(* The slots of an instructor in a set of courses *)
LEMMA SameInstructorSlots ==
  ASSUME TablesFit, NEW ids \in SUBSET CourseIds, NEW name
  PROVE  EvidenceOfInstructor(Evidence(grades, sections, Before), ids, name)
           = InstructorSlots(grades, sections, ids, name, Before)
<1> DEFINE evidence == Evidence(grades, sections, Before)
<1>1. NoCourse \notin ids
  BY ScoresAssumption DEF NoCourse
<1>2. EvidenceFor(evidence, ids) = CourseSlots(grades, sections, ids, Before)
  BY SameCourseSlots
<1>3. ASSUME NEW s \in DOMAIN grades
      PROVE  /\ TermOf[s] < Before
             /\ s \in DOMAIN sections =>
                  /\ evidence[s].section.course = sections[s].course
                  /\ evidence[s].section.lab = sections[s].lab
                  /\ evidence[s].names = {o.name : o \in sections[s].names}
             /\ s \notin DOMAIN sections => evidence[s].section.course = NoCourse
  BY EvidenceIs
<1> HIDE DEF evidence
<1>4. CourseSlots(grades, sections, ids, Before) \subseteq DOMAIN grades
  BY DEF CourseSlots
<1>5. EvidenceOfInstructor(evidence, ids, name)
        = {s \in CourseSlots(grades, sections, ids, Before) :
             /\ evidence[s].section.course \in ids /\ ~evidence[s].section.lab
             /\ name \in evidence[s].names}
  BY <1>2 DEF EvidenceOfInstructor
<1>6. ASSUME NEW s \in DOMAIN grades
      PROVE  (/\ s \in CourseSlots(grades, sections, ids, Before)
              /\ evidence[s].section.course \in ids /\ ~evidence[s].section.lab
              /\ name \in evidence[s].names)
             <=> s \in InstructorSlots(grades, sections, ids, name, Before)
  <2>1. CASE s \notin DOMAIN sections
    BY <1>1, <1>3, <2>1 DEF InstructorSlots
  <2>2. CASE s \in DOMAIN sections
    <3>1. name \in evidence[s].names <=> \E o \in sections[s].names : o.name = name
      BY <1>3, <2>2
    <3>2. evidence[s].section.course = sections[s].course
          /\ evidence[s].section.lab = sections[s].lab /\ TermOf[s] < Before
      BY <1>3, <2>2
    <3> QED BY <2>2, <3>1, <3>2 DEF InstructorSlots, CourseSlots
  <2> QED BY <2>1, <2>2
<1>7. InstructorSlots(grades, sections, ids, name, Before) \subseteq DOMAIN grades
  BY DEF InstructorSlots
<1>8. EvidenceOfInstructor(evidence, ids, name) = InstructorSlots(grades, sections, ids, name, Before)
  BY <1>4, <1>5, <1>6, <1>7
<1> QED BY <1>8 DEF evidence

(* The slots whose section has a usable name, among those that have grades *)
LEMMA SameMapped ==
  ASSUME TablesFit, NEW S \in SUBSET DOMAIN grades
  PROVE  S \cap EvidenceMapped(Evidence(grades, sections, Before))
           = S \cap {s \in Slots : HasUsableName(sections, s)}
<1> DEFINE evidence == Evidence(grades, sections, Before)
<1>1. DOMAIN evidence = DOMAIN grades
  BY EvidenceIs
<1>2. \A s \in DOMAIN grades :
        /\ s \in DOMAIN sections => evidence[s].names = {o.name : o \in sections[s].names}
        /\ s \notin DOMAIN sections => evidence[s].names = {}
  BY EvidenceIs
<1> HIDE DEF evidence
<1>3. \A s \in DOMAIN grades :
        evidence[s].names \cap UsableNames # {} <=> HasUsableName(sections, s)
  BY <1>2 DEF HasUsableName
<1>4. S \subseteq Slots
  BY DEF TablesFit
<1>5. S \cap EvidenceMapped(evidence) = S \cap {s \in Slots : HasUsableName(sections, s)}
  BY <1>1, <1>3, <1>4 DEF EvidenceMapped
<1> QED BY <1>5 DEF evidence

LEMMA SameAnalytics ==
  ASSUME TablesFit, NEW section
  PROVE  TermAnalytics(Evidence(grades, sections, Before), section)
           = CourseAnalytics(grades, sections, section, Before)
<1> DEFINE evidence == Evidence(grades, sections, Before)
           ids == IdsOf(section.key)
           others == SubjectIds(section.key) \ ids
           counts == [s \in DOMAIN evidence |-> evidence[s].grade]
           mapped == {s \in Slots : HasUsableName(sections, s)}
           TermAgg(S) == Aggregate(counts, S, EvidenceMapped(evidence))
           Agg(S) == Aggregate(grades, S, mapped)
           termStats == FallbackStats(TermAgg(EvidenceFor(evidence, ids)),
                                      TermAgg(EvidenceFor(evidence, others)),
                                      TermAgg(DOMAIN evidence))
           termNames == [name \in Names \cup {NoName} |->
                           LET S == EvidenceOfInstructor(evidence, ids, name)
                           IN Aggregate(counts, S, S)]
           names == [name \in Names \cup {NoName} |->
                       LET S == InstructorSlots(grades, sections, ids, name, Before)
                       IN Aggregate(grades, S, S)]
<1>1. counts = grades /\ DOMAIN evidence = DOMAIN grades /\ AllSlots(grades, Before) = DOMAIN grades
  <2>1. DOMAIN evidence = DOMAIN grades /\ AllSlots(grades, Before) = DOMAIN grades
        /\ \A s \in DOMAIN grades : evidence[s].grade = grades[s]
    BY EvidenceIs
  <2>2. grades = [s \in DOMAIN grades |-> grades[s]]
    BY DEF TablesFit
  <2> HIDE DEF evidence
  <2> QED BY <2>1, <2>2
<1>2. ids \subseteq CourseIds /\ others \subseteq CourseIds
  BY DEF IdsOf, SubjectIds
<1>3. \A S \in SUBSET DOMAIN grades : TermAgg(S) = Agg(S)
  <2> TAKE S \in SUBSET DOMAIN grades
  <2>1. S \cap EvidenceMapped(evidence) = S \cap mapped
    BY SameMapped
  <2> HIDE DEF evidence, mapped, counts
  <2> QED BY <1>1, <2>1, AggregateOfMapped
<1>4. EvidenceFor(evidence, ids) = CourseSlots(grades, sections, ids, Before)
      /\ EvidenceFor(evidence, others) = CourseSlots(grades, sections, others, Before)
  BY <1>2, SameCourseSlots
<1>5. CourseSlots(grades, sections, ids, Before) \subseteq DOMAIN grades
      /\ CourseSlots(grades, sections, others, Before) \subseteq DOMAIN grades
  BY DEF CourseSlots
<1>6. termStats = CourseStats(grades, sections, section.key, Before)
  <2>1. CourseStats(grades, sections, section.key, Before)
          = FallbackStats(Agg(CourseSlots(grades, sections, ids, Before)),
                          Agg(CourseSlots(grades, sections, others, Before)),
                          Agg(AllSlots(grades, Before)))
    BY DEF CourseStats
  <2>2. TermAgg(EvidenceFor(evidence, ids)) = Agg(CourseSlots(grades, sections, ids, Before))
    BY <1>3, <1>4, <1>5
  <2>3. TermAgg(EvidenceFor(evidence, others)) = Agg(CourseSlots(grades, sections, others, Before))
    BY <1>3, <1>4, <1>5
  <2>4. TermAgg(DOMAIN evidence) = Agg(AllSlots(grades, Before))
    BY <1>1, <1>3
  <2> HIDE DEF TermAgg, Agg, evidence, ids, others
  <2> QED BY <2>1, <2>2, <2>3, <2>4
<1>7. termNames = names
  <2>1. \A name : EvidenceOfInstructor(evidence, ids, name)
                    = InstructorSlots(grades, sections, ids, name, Before)
    BY <1>2, SameInstructorSlots
  <2> HIDE DEF evidence, ids, counts
  <2> QED BY <1>1, <2>1
<1>8. TermAnalytics(evidence, section) = Analytics(termStats, termNames, section)
  BY DEF TermAnalytics
<1>9. CourseAnalytics(grades, sections, section, Before)
        = Analytics(CourseStats(grades, sections, section.key, Before), names, section)
  BY DEF CourseAnalytics
<1> HIDE DEF termStats, termNames, names
<1> QED BY <1>6, <1>7, <1>8, <1>9

(* The analytics of a term, from one read of all its evidence, are those computed course
   by course from the tables, in every reachable state and for every section: the worker's
   bulk path scores a section exactly as the command line does. *)
THEOREM TermScoresAgree == Spec => []TermEqualsPerCourse
<1>1. EvidenceInv => TermEqualsPerCourse
  BY SameAnalytics DEF EvidenceInv, TermEqualsPerCourse
<1> QED BY <1>1, EvidenceInvariant, PTL

---------------------------------------------------------------------------
(* The score of a section's own instructor *)

(* Rows count grades, and no two sections share an id *)
RowsCount ==
  /\ \A s \in DOMAIN grades :
       {grades[s].a, grades[s].f, grades[s].w, grades[s].o} \subseteq Nat
  /\ \A s, t \in DOMAIN sections : sections[s].id = sections[t].id => s = t

LEMMA ImportsCount ==
  ASSUME RowsCount, Imports
  PROVE  RowsCount'
<1>1. PICK t : ImportGrades(t)
  BY DEF Imports
<1>2. PICK S \in SUBSET InTerm(t) \ {{}} :
        \E book \in [S -> [course : CourseIds, counts : Counts]] :
          LET new == S \ DOMAIN grades
              Id(s) == IF s \in new THEN nextId + Cardinality(Inserted(book, s)) ELSE grades[s].id
              Row(s) == [id |-> Id(s), course |-> book[s].course, a |-> book[s].counts.a,
                         f |-> book[s].counts.f, w |-> book[s].counts.w, o |-> book[s].counts.o]
          IN grades' = [s \in DOMAIN grades \cup S |-> IF s \in S THEN Row(s) ELSE grades[s]]
  BY <1>1 DEF ImportGrades
<1>3. PICK book \in [S -> [course : CourseIds, counts : Counts]] :
        LET new == S \ DOMAIN grades
            Id(s) == IF s \in new THEN nextId + Cardinality(Inserted(book, s)) ELSE grades[s].id
            Row(s) == [id |-> Id(s), course |-> book[s].course, a |-> book[s].counts.a,
                       f |-> book[s].counts.f, w |-> book[s].counts.w, o |-> book[s].counts.o]
        IN grades' = [s \in DOMAIN grades \cup S |-> IF s \in S THEN Row(s) ELSE grades[s]]
  BY <1>2
<1> DEFINE new == S \ DOMAIN grades
           Id(s) == IF s \in new THEN nextId + Cardinality(Inserted(book, s)) ELSE grades[s].id
           Row(s) == [id |-> Id(s), course |-> book[s].course, a |-> book[s].counts.a,
                      f |-> book[s].counts.f, w |-> book[s].counts.w, o |-> book[s].counts.o]
<1>4. grades' = [s \in DOMAIN grades \cup S |-> IF s \in S THEN Row(s) ELSE grades[s]]
  BY <1>3
<1>5. \A s \in S : {Row(s).a, Row(s).f, Row(s).w, Row(s).o} \subseteq Nat
  <2> SUFFICES ASSUME NEW s \in S
               PROVE  {Row(s).a, Row(s).f, Row(s).w, Row(s).o} \subseteq Nat
    OBVIOUS
  <2>1. book[s].counts \in [a : Nat, f : Nat, w : Nat, o : Nat]
    BY EvidenceAssumption
  <2>2. /\ Row(s).a = book[s].counts.a /\ Row(s).f = book[s].counts.f
        /\ Row(s).w = book[s].counts.w /\ Row(s).o = book[s].counts.o
    OBVIOUS
  <2> HIDE DEF Row
  <2> QED BY <2>1, <2>2
<1> HIDE DEF Row
<1>6. \A s \in DOMAIN grades' : grades'[s] = IF s \in S THEN Row(s) ELSE grades[s]
  BY <1>4
<1>7. \A s \in DOMAIN grades' : s \notin S => s \in DOMAIN grades
  BY <1>4
<1>8. UNCHANGED sections
  BY <1>1 DEF ImportGrades
<1> QED BY <1>5, <1>6, <1>7, <1>8 DEF RowsCount

LEMMA NewSectionCounts ==
  ASSUME TablesFit, RowsCount, UNCHANGED grades, NEW s, NEW row,
         sections' = [t \in DOMAIN sections \cup {s} |-> IF t = s THEN row ELSE sections[t]],
         row.id = IF s \in DOMAIN sections THEN sections[s].id ELSE nextId
  PROVE  RowsCount'
<1>1. \A t \in DOMAIN sections : sections[t].id # nextId
  BY DEF TablesFit
<1>2. \A t, u \in DOMAIN sections' : sections'[t].id = sections'[u].id => t = u
  BY <1>1 DEF RowsCount
<1> QED BY <1>2 DEF RowsCount

LEMMA StepCounts == EvidenceInv /\ RowsCount /\ [Next]_vars => RowsCount'
<1> SUFFICES ASSUME EvidenceInv, RowsCount, [Next]_vars PROVE RowsCount'
  OBVIOUS
<1>0. TablesFit
  BY DEF EvidenceInv
<1>1. CASE Imports
  BY <1>1, ImportsCount
<1>2. CASE Ingests
  <2>1. PICK s \in Slots, course \in CourseIds, lab \in Kinds, name \in Names :
          IngestEarlier(s, course, lab, name)
    BY <1>2 DEF Ingests
  <2> DEFINE known == s \in DOMAIN sections
             id == IF known THEN sections[s].id ELSE nextId
             nameId == IF known THEN nextId ELSE nextId + 1
             old == IF known THEN sections[s].names ELSE {}
             row == [id |-> id, course |-> course, lab |-> lab,
                     names |-> old \cup {[id |-> nameId, name |-> name]}, backfilled |-> FALSE]
  <2>2. UNCHANGED grades
        /\ sections' = [t \in DOMAIN sections \cup {s} |-> IF t = s THEN row ELSE sections[t]]
    BY <2>1 DEF IngestEarlier
  <2>3. row.id = IF s \in DOMAIN sections THEN sections[s].id ELSE nextId
    OBVIOUS
  <2> HIDE DEF row
  <2> QED BY <1>0, <2>2, <2>3, NewSectionCounts
<1>3. CASE Backfills
  <2>1. PICK s \in Slots, course \in CourseIds, lab \in Kinds, name \in Names :
          Backfill(s, course, lab, name)
    BY <1>3 DEF Backfills
  <2> DEFINE row == [id |-> nextId, course |-> course, lab |-> lab, backfilled |-> TRUE,
                     names |-> {[id |-> nextId + 1, name |-> name]}]
  <2>2. UNCHANGED grades /\ s \notin DOMAIN sections
        /\ sections' = [t \in DOMAIN sections \cup {s} |-> IF t = s THEN row ELSE sections[t]]
    BY <2>1 DEF Backfill
  <2>3. row.id = nextId
    OBVIOUS
  <2> HIDE DEF row
  <2> QED BY <1>0, <2>2, <2>3, NewSectionCounts
<1>4. CASE Rollbacks
  BY <1>4 DEF Rollbacks, RollbackBackfill, RowsCount
<1>5. CASE UNCHANGED <<grades, sections>>
  BY <1>5 DEF RowsCount
<1>7. CASE Cleanups
  <2>1. DeleteCandidates \/ UNCHANGED <<grades, sections>>
    BY <1>7 DEF Cleanups, LockCandidates, FailCleanup
  <2> QED BY <1>5, <2>1 DEF DeleteCandidates, RowsCount
<1>6. CASE BeginSweep \/ ReadGradeKey \/ ReadSectionKey \/ ReadNameKey \/ LoadRows \/ LoadNames
           \/ EndSweep \/ RestartWorker \/ UNCHANGED vars
  <2>1. UNCHANGED <<grades, sections>>
    BY <1>6 DEF BeginSweep, ReadGradeKey, ReadSectionKey, ReadNameKey, LoadRows, LoadNames,
                EndSweep, RestartWorker, vars, tables
  <2> QED BY <1>5, <2>1
<1> QED BY <1>1, <1>2, <1>3, <1>4, <1>6, <1>7
        DEF Next, Imports, Ingests, Backfills, Rollbacks, Cleanups

LEMMA RowsAlwaysCount == Spec => []RowsCount
<1>1. Init => RowsCount
  BY DEF Init, RowsCount
<1> QED BY <1>1, EvidenceInvariant, StepCounts, PTL DEF Spec

(* An aggregate of more slots has as many grades, and mapped slots, or more *)
LEMMA AggregateFields ==
  ASSUME NEW rows, NEW S, NEW mapped
  PROVE  LET agg == Aggregate(rows, S, mapped)
             a == Sum(rows, S, "a")
             f == Sum(rows, S, "f")
             w == Sum(rows, S, "w")
             o == Sum(rows, S, "o")
         IN  /\ agg.completed = a + f /\ agg.total = a + f + w + o
             /\ agg.n = Lesser(a + f, a + f + w + o)
             /\ agg.mapped = Cardinality(S \cap mapped)
BY DEF Aggregate, Completed, AllGrades

LEMMA AggregateGrows ==
  ASSUME TablesFit, RowsCount, NEW S \in SUBSET DOMAIN grades, NEW T \in SUBSET S,
         NEW some, NEW more, T \cap some \subseteq S \cap more
  PROVE  LET part == Aggregate(grades, T, some)
             all == Aggregate(grades, S, more)
         IN  /\ {part.completed, part.total, part.n, part.mapped,
                 all.completed, all.total, all.n, all.mapped} \subseteq Nat
             /\ part.completed <= all.completed /\ part.total <= all.total
             /\ part.n <= all.n /\ part.mapped <= all.mapped
             /\ all.n <= all.completed /\ all.n <= all.total
<1>1. S \subseteq Slots /\ IsFiniteSet(S)
  BY SlotSets DEF TablesFit
<1>2. ASSUME NEW field \in {"a", "f", "w", "o"}
      PROVE  /\ Sum(grades, T, field) \in Nat /\ Sum(grades, S, field) \in Nat
             /\ Sum(grades, T, field) <= Sum(grades, S, field)
  <2>1. \A x \in S : grades[x][field] \in Nat
    <3> SUFFICES ASSUME NEW x \in S PROVE grades[x][field] \in Nat
      OBVIOUS
    <3>1. {grades[x].a, grades[x].f, grades[x].w, grades[x].o} \subseteq Nat
      BY DEF RowsCount
    <3> QED BY <3>1
  <2> QED BY <1>1, <2>1, SumGrows DEF Sum
<1>3. /\ Cardinality(T \cap some) \in Nat /\ Cardinality(S \cap more) \in Nat
      /\ Cardinality(T \cap some) <= Cardinality(S \cap more)
  <2>1. S \cap more \in SUBSET Slots /\ T \cap some \in SUBSET (S \cap more)
    BY <1>1
  <2> QED BY <2>1, SlotSets, SlotSubsets
<1> DEFINE part == Aggregate(grades, T, some)
           all == Aggregate(grades, S, more)
<1>4. /\ part.completed = Sum(grades, T, "a") + Sum(grades, T, "f")
      /\ part.total = Sum(grades, T, "a") + Sum(grades, T, "f") + Sum(grades, T, "w")
                        + Sum(grades, T, "o")
      /\ part.n = Lesser(part.completed, part.total) /\ part.mapped = Cardinality(T \cap some)
  BY AggregateFields
<1>5. /\ all.completed = Sum(grades, S, "a") + Sum(grades, S, "f")
      /\ all.total = Sum(grades, S, "a") + Sum(grades, S, "f") + Sum(grades, S, "w")
                       + Sum(grades, S, "o")
      /\ all.n = Lesser(all.completed, all.total) /\ all.mapped = Cardinality(S \cap more)
  BY AggregateFields
<1> HIDE DEF part, all
<1>6. /\ {part.completed, part.total, all.completed, all.total} \subseteq Nat
      /\ part.completed <= all.completed /\ part.total <= all.total
  BY <1>2, <1>4, <1>5
<1>7. /\ {part.n, all.n} \subseteq Nat /\ part.n <= all.n
      /\ all.n <= all.completed /\ all.n <= all.total
  BY <1>4, <1>5, <1>6 DEF Lesser
<1>8. /\ {part.completed, part.total, part.n, part.mapped,
          all.completed, all.total, all.n, all.mapped} \subseteq Nat
      /\ part.mapped <= all.mapped
  BY <1>3, <1>4, <1>5, <1>6, <1>7
<1> QED BY <1>6, <1>7, <1>8 DEF part, all

(* The section ids that an instructor's lookup starts from lead back to the slots they
   were read at, since no two sections share one *)
LEMMA LookupSlots ==
  ASSUME RowsCount, NEW ids, NEW name
  PROVE  SlotsOfSections(grades, sections, InstructorSectionIds(sections, ids, name), Before)
           = InstructorSlots(grades, sections, ids, name, Before)
<1> DEFINE Own(s) == /\ sections[s].course \in ids /\ ~sections[s].lab
                     /\ \E o \in sections[s].names : o.name = name
           found == InstructorSectionIds(sections, ids, name)
<1>1. \A s \in DOMAIN sections : sections[s].id \in found <=> Own(s)
  <2> TAKE s \in DOMAIN sections
  <2>1. found = {sections[t].id : t \in {u \in DOMAIN sections : Own(u)}}
    BY DEF InstructorSectionIds
  <2>2. \A t \in DOMAIN sections : sections[t].id = sections[s].id => t = s
    BY DEF RowsCount
  <2> HIDE DEF found, Own
  <2> QED BY <2>1, <2>2
<1>2. SlotsOfSections(grades, sections, found, Before)
        = {s \in DOMAIN grades \cap DOMAIN sections :
             TermOf[s] < Before /\ sections[s].id \in found}
  BY DEF SlotsOfSections
<1>3. InstructorSlots(grades, sections, ids, name, Before)
        = {s \in DOMAIN grades \cap DOMAIN sections : TermOf[s] < Before /\ Own(s)}
  BY DEF InstructorSlots
<1> HIDE DEF found, Own
<1>4. SlotsOfSections(grades, sections, found, Before)
        = InstructorSlots(grades, sections, ids, name, Before)
  BY <1>1, <1>2, <1>3
<1> QED BY <1>4 DEF found

(* Where a course has grades of its own, its score comes from them *)
LEMMA StatsFields ==
  ASSUME NEW agg, NEW gradePrior, NEW withdrawalPrior, NEW level, NEW source
  PROVE  LET stats == Stats(agg, gradePrior, withdrawalPrior, level, source)
         IN  stats.n = agg.n /\ stats.mapped = agg.mapped /\ stats.source = source
BY DEF Stats

LEMMA FallbackFields ==
  ASSUME NEW course, NEW subject, NEW everything
  PROVE  LET stats == FallbackStats(course, subject, everything)
         IN  /\ stats.source \in {"course", "subject", "global"}
             /\ HasEvidence(course) =>
                  stats.source = "course" /\ stats.n = course.n /\ stats.mapped = course.mapped
<1>1. CASE HasEvidence(course)
  BY <1>1, StatsFields DEF FallbackStats
<1>2. CASE ~HasEvidence(course) /\ HasEvidence(subject)
  BY <1>2, StatsFields DEF FallbackStats
<1>3. CASE ~HasEvidence(course) /\ ~HasEvidence(subject)
  BY <1>3, StatsFields DEF FallbackStats
<1> QED BY <1>1, <1>2, <1>3

(* What an instructor taught is among what the course has, so the course of an instructor
   with enough grades has as many, some of them mapped: it is scored by its own grades *)
LEMMA OwnHistoryIsTheCourses ==
  ASSUME TablesFit, RowsCount, NEW key, NEW name \in UsableNames
  PROVE  LET S == InstructorSlots(grades, sections, IdsOf(key), name, Before)
             own == Aggregate(grades, S, S)
             course == CourseStats(grades, sections, key, Before)
         IN  HasEvidence(own) /\ own.n > 0 /\ own.mapped > 0 =>
               course.source = "course" /\ course.n # 0 /\ course.mapped # 0
<1> DEFINE ids == IdsOf(key)
           T == InstructorSlots(grades, sections, ids, name, Before)
           S == CourseSlots(grades, sections, ids, Before)
           mapped == {s \in Slots : HasUsableName(sections, s)}
           own == Aggregate(grades, T, T)
           all == Aggregate(grades, S, mapped)
           stats == CourseStats(grades, sections, key, Before)
<1>1. S \subseteq DOMAIN grades /\ T \subseteq S
  BY DEF CourseSlots, InstructorSlots
<1>2. T \subseteq mapped
  <2>1. DOMAIN grades \subseteq Slots
    BY DEF TablesFit
  <2>2. \A s \in T : s \in DOMAIN sections /\ \E o \in sections[s].names : o.name = name
    BY DEF InstructorSlots
  <2> HIDE DEF T
  <2> QED BY <1>1, <2>1, <2>2 DEF HasUsableName
<1>3. /\ {own.n, own.mapped, all.completed, all.total, all.n, all.mapped} \subseteq Nat
      /\ own.n <= all.n /\ own.mapped <= all.mapped
      /\ all.n <= all.completed /\ all.n <= all.total
  <2>1. T \cap T \subseteq S \cap mapped
    BY <1>1, <1>2
  <2> HIDE DEF S, T, mapped
  <2> QED BY <1>1, <2>1, AggregateGrows
<1>4. \E subject, everything : stats = FallbackStats(all, subject, everything)
  <2>1. stats = FallbackStats(all,
                  Aggregate(grades, CourseSlots(grades, sections, SubjectIds(key) \ ids, Before),
                            mapped),
                  Aggregate(grades, AllSlots(grades, Before), mapped))
    BY DEF CourseStats
  <2> HIDE DEF stats, all
  <2> QED BY <2>1
<1> HIDE DEF own, all, stats
<1>5. ASSUME own.n > 0, own.mapped > 0
      PROVE  stats.source = "course" /\ stats.n # 0 /\ stats.mapped # 0
  <2>1. all.n > 0 /\ all.mapped > 0 /\ all.completed > 0
    BY <1>3, <1>5
  <2>2. HasEvidence(all)
    BY <2>1 DEF HasEvidence
  <2>3. stats.source = "course" /\ stats.n = all.n /\ stats.mapped = all.mapped
    BY <1>4, <2>2, FallbackFields
  <2> QED BY <2>1, <2>3
<1> QED BY <1>5 DEF own, stats

LEMMA PinnedFollows ==
  ASSUME TablesFit, RowsCount, NEW section,
         CourseAnalytics(grades, sections, section, Before).stats.source = "instructor_course"
  PROVE  LET analytics == CourseAnalytics(grades, sections, section, Before)
         IN  /\ analytics.breakdown.status = "ready"
             /\ [name |-> section.name, scored |-> TRUE,
                 easiness |-> analytics.stats.easiness] \in analytics.breakdown.listed
             /\ InstructorLookup(grades, sections, section.key, section.name, Before)
                  = analytics.stats
<1> DEFINE ids == IdsOf(section.key)
           Slots_(name) == InstructorSlots(grades, sections, ids, name, Before)
           ofName == [name \in Names \cup {NoName} |->
                        Aggregate(grades, Slots_(name), Slots_(name))]
           stats == CourseStats(grades, sections, section.key, Before)
           own == InstructorStats(ofName[section.name], stats)
           analytics == CourseAnalytics(grades, sections, section, Before)
<1>1. analytics.stats = SectionStats(stats, ofName, section)
      /\ analytics.breakdown = Breakdown(stats, ofName, section)
  BY DEF CourseAnalytics, Analytics
<1>2. stats.source # "instructor_course"
  <2>1. \E course, subject, everything : stats = FallbackStats(course, subject, everything)
    BY DEF CourseStats
  <2> HIDE DEF stats
  <2> QED BY <2>1, FallbackFields
<1> HIDE DEF analytics, ofName, stats
<1>3. /\ section.name \in UsableNames /\ ~section.lab
      /\ EnoughForInstructor(ofName[section.name], own)
      /\ analytics.stats = own
  BY <1>1, <1>2 DEF SectionStats, analytics
<1>4. ofName[section.name] = Aggregate(grades, Slots_(section.name), Slots_(section.name))
  <2>1. section.name \in Names
    BY <1>3, ScoresAssumption
  <2> QED BY <2>1 DEF ofName
<1>5. own.n = ofName[section.name].n /\ own.mapped = ofName[section.name].mapped
  BY StatsFields DEF InstructorStats
<1>6. ofName[section.name].n \in Nat /\ ofName[section.name].mapped \in Nat
  <2>1. Slots_(section.name) \subseteq DOMAIN grades
    BY DEF InstructorSlots
  <2> HIDE DEF Slots_
  <2> QED BY <1>4, <2>1, AggregateGrows
<1>7. /\ HasEvidence(ofName[section.name])
      /\ ofName[section.name].n > 0 /\ ofName[section.name].mapped > 0
  <2>1. InstructorMinN \in Nat \ {0}
    BY ScoresAssumption
  <2> HIDE DEF own
  <2> QED BY <1>3, <1>5, <1>6, <2>1 DEF EnoughForInstructor
<1>8. stats.source = "course" /\ stats.n # 0 /\ stats.mapped # 0
  BY <1>3, <1>4, <1>7, OwnHistoryIsTheCourses DEF stats
<1>9. InstructorLookup(grades, sections, section.key, section.name, Before) = own
  BY <1>4, LookupSlots DEF InstructorLookup, stats
<1> DEFINE withHistory == {name \in UsableNames :
                             HasEvidence(ofName[name]) /\ ofName[name].n > 0}
           of(name) == InstructorStats(ofName[name], stats)
           listed == {name \in withHistory : ListedAlone(of(name), name, section)}
           Scored(name) == EnoughForInstructor(ofName[name], of(name))
           rows == {[name |-> name, scored |-> Scored(name),
                     easiness |-> IF Scored(name) THEN of(name).easiness ELSE 0]
                    : name \in listed}
<1>10. Breakdown(stats, ofName, section)
         = [status |-> IF withHistory = {} THEN "no_instructor_history" ELSE "ready",
            listed |-> rows,
            others |-> Cardinality(withHistory \ listed)]
  BY <1>3, <1>8 DEF Breakdown
<1>11. section.name \in withHistory /\ section.name \in listed
  BY <1>3, <1>7 DEF ListedAlone
<1>12. Scored(section.name) = TRUE /\ of(section.name) = own
  BY <1>3
<1>13. [name |-> section.name, scored |-> TRUE, easiness |-> own.easiness] \in rows
  <2> HIDE DEF listed, own, of, Scored
  <2> QED BY <1>11, <1>12
<1> HIDE DEF withHistory, listed, rows, own
<1>14. /\ Breakdown(stats, ofName, section).status = "ready"
       /\ Breakdown(stats, ofName, section).listed = rows
  BY <1>10, <1>11
<1>15. /\ analytics.breakdown.status = "ready"
       /\ [name |-> section.name, scored |-> TRUE,
           easiness |-> analytics.stats.easiness] \in analytics.breakdown.listed
       /\ InstructorLookup(grades, sections, section.key, section.name, Before)
            = analytics.stats
  BY <1>1, <1>3, <1>9, <1>13, <1>14
<1> QED BY <1>15 DEF analytics

(* The score of a section by its own instructor, the row of that instructor in the
   breakdown and the lookup by name are one score, for any tables, priors and thresholds:
   the instructor's slots are among the course's, so the breakdown is never withheld, and
   section ids lead back to the same slots. *)
THEOREM PinnedRowsAgree == Spec => []PinnedRowAgrees
<1>1. EvidenceInv /\ RowsCount => PinnedRowAgrees
  BY PinnedFollows DEF EvidenceInv, PinnedRowAgrees
<1> QED BY <1>1, EvidenceInvariant, RowsAlwaysCount, PTL
=============================================================================
