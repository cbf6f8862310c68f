------------------------- MODULE SectionSync_proofs -------------------------
(***************************************************************************)
(* Theorems about SectionSync: what the sweeps of one term leave behind,   *)
(* for every listing, catalog and gate, and any number of sweepers; about  *)
(* SweepGate, for every default, page and database; and about WholeTerm,   *)
(* for every page and every size of a chunk.                               *)
(***************************************************************************)
EXTENDS SectionSync, FieldSums_proofs, SequenceTheorems

---------------------------------------------------------------------------
(* What an operator's override can and cannot do to the gate *)

(* A GateInput: counts are natural numbers and subjects finite sets *)
WellFormed(in) ==
  /\ in.rows \in Nat /\ in.active \in Nat /\ in.missing \in Nat
  /\ in.missing <= in.active
  /\ in.lastSuccess \in Nat \cup {NoSuccess}
  /\ IsFiniteSet(in.dbSubjects)

LEMMA ProductMonotone ==
  ASSUME NEW n \in Nat, NEW a \in Int, NEW b \in Int, a <= b
  PROVE  a * n \in Int /\ b * n \in Int /\ a * n <= b * n
OBVIOUS

(* An override up to MaxMissing replaces that rule alone, a larger one all three *)
LEMMA ThresholdsAre ==
  ASSUME NEW override \in Overrides
  PROVE  LET t == GateThresholds(override)
         IN  /\ override = NoOverride \/ override \in 0..MaxMissing =>
                  /\ t.missing = IF override = NoOverride THEN MaxMissing ELSE override
                  /\ t.rows = MinRows /\ t.absent = MaxAbsent
             /\ override # NoOverride /\ override \notin 0..MaxMissing =>
                  t.missing = override /\ t.rows = 100 - override /\ t.absent = override
<1> DEFINE t == GateThresholds(override)
<1>0. NoOverride \notin 0..MaxMissing
  BY GateAssumption DEF NoOverride
<1>1. CASE override = NoOverride
  <2>1. t = DefaultThresholds
    BY <1>0, <1>1 DEF GateThresholds
  <2> QED BY <1>1, <2>1 DEF DefaultThresholds
<1>2. CASE override \in 0..MaxMissing
  <2>1. t = [DefaultThresholds EXCEPT !.missing = override]
    BY <1>0, <1>2 DEF GateThresholds
  <2> QED BY <1>0, <1>2, <2>1 DEF DefaultThresholds
<1>3. CASE override # NoOverride /\ override \notin 0..MaxMissing
  <2>1. t = [missing |-> override, rows |-> 100 - override, absent |-> override]
    BY <1>3 DEF GateThresholds
  <2> QED BY <1>3, <2>1
<1> QED BY <1>1, <1>2, <1>3

LEMMA ThresholdsType ==
  ASSUME NEW override \in Overrides
  PROVE  LET t == GateThresholds(override)
         IN  t.missing \in 0..100 /\ t.rows \in 0..100 /\ t.absent \in 0..100
<1>1. override = NoOverride \/ override \in 0..100
  BY DEF Overrides
<1> QED BY <1>1, ThresholdsAre, GateAssumption

(* Each threshold moves one way as the override grows *)
LEMMA ThresholdsMonotone ==
  ASSUME NEW a \in Overrides, NEW b \in 0..100, a <= b,
         a = NoOverride => b >= MaxMissing
  PROVE  LET s == GateThresholds(a)
             t == GateThresholds(b)
         IN  s.missing <= t.missing /\ s.rows >= t.rows /\ s.absent <= t.absent
<1> DEFINE s == GateThresholds(a)
           t == GateThresholds(b)
<1>0. /\ MaxMissing \in 0..100 /\ MinRows \in 0..100 /\ MaxAbsent \in 0..100
      /\ MinRows >= 100 - MaxMissing /\ MaxAbsent <= MaxMissing
      /\ b \in Overrides /\ b # NoOverride
  BY GateAssumption, OverrideAssumption DEF Overrides, NoOverride
<1>1. CASE b \in 0..MaxMissing
  <2>1. a = NoOverride \/ a \in 0..MaxMissing
    BY <1>0, <1>1 DEF Overrides
  <2>2. /\ t.missing = b /\ t.rows = MinRows /\ t.absent = MaxAbsent
        /\ s.rows = MinRows /\ s.absent = MaxAbsent
        /\ s.missing = IF a = NoOverride THEN MaxMissing ELSE a
    BY <1>0, <1>1, <2>1, ThresholdsAre
  <2> HIDE DEF s, t
  <2>3. s.missing <= t.missing
    BY <2>2
  <2> QED BY <1>0, <2>2, <2>3 DEF s, t
<1>2. CASE b \notin 0..MaxMissing
  <2>1. t.missing = b /\ t.rows = 100 - b /\ t.absent = b /\ b > MaxMissing
    BY <1>0, <1>2, ThresholdsAre
  <2>2. CASE a = NoOverride \/ a \in 0..MaxMissing
    <3>1. /\ s.missing = IF a = NoOverride THEN MaxMissing ELSE a
          /\ s.rows = MinRows /\ s.absent = MaxAbsent
      BY <2>2, ThresholdsAre
    <3> HIDE DEF s, t
    <3>2. s.missing <= t.missing /\ s.rows >= t.rows /\ s.absent <= t.absent
      BY <1>0, <2>1, <3>1
    <3> QED BY <3>2 DEF s, t
  <2>3. CASE a # NoOverride /\ a \notin 0..MaxMissing
    <3>0. a \in Nat
      BY <2>3 DEF Overrides
    <3>1. s.missing = a /\ s.rows = 100 - a /\ s.absent = a
      BY <2>3, ThresholdsAre
    <3> HIDE DEF s, t
    <3>2. s.missing <= t.missing /\ s.rows >= t.rows /\ s.absent <= t.absent
      BY <2>1, <3>0, <3>1
    <3> QED BY <3>2 DEF s, t
  <2> QED BY <2>2, <2>3
<1> QED BY <1>1, <1>2

(* The override only ever loosens the gate: whatever passes without one, or
   with a smaller one, passes with a larger one. *)
THEOREM GateLoosens ==
  ASSUME NEW in, WellFormed(in), NEW override \in Overrides
  PROVE  LooserGateAccepts(in, override)
<1> SUFFICES ASSUME NEW other \in 0..100, override <= other,
                    override = NoOverride => other >= MaxMissing,
                    GatePasses(in, override)
             PROVE  GatePasses(in, other)
  BY DEF LooserGateAccepts
<1> DEFINE s == GateThresholds(override)
           t == GateThresholds(other)
           known == Cardinality(in.dbSubjects)
<1>0. other \in Overrides
  BY DEF Overrides
<1>1. /\ s.missing \in 0..100 /\ s.rows \in 0..100 /\ s.absent \in 0..100
      /\ t.missing \in 0..100 /\ t.rows \in 0..100 /\ t.absent \in 0..100
  BY <1>0, ThresholdsType
<1>2. s.missing <= t.missing /\ s.rows >= t.rows /\ s.absent <= t.absent
  BY ThresholdsMonotone
<1>3. in.rows > 0 /\ MissingAllowed(in, s) /\ EnoughRows(in, s)
      /\ SubjectsPresent(in, s)
  BY DEF GatePasses
<1> HIDE DEF s, t
<1>a. /\ s.rows \in Int /\ t.rows \in Int /\ s.absent \in Int /\ t.absent \in Int
      /\ t.rows <= s.rows
  BY <1>1, <1>2
<1>4. MissingAllowed(in, t)
  <2>1. s.missing * in.active <= t.missing * in.active
    BY <1>1, <1>2, ProductMonotone DEF WellFormed
  <2>2. s.missing * in.active \in Int /\ t.missing * in.active \in Int
    BY <1>1, <1>2, ProductMonotone DEF WellFormed
  <2>3. 100 * in.missing \in Int
    BY DEF WellFormed
  <2> QED BY <1>3, <2>1, <2>2, <2>3 DEF MissingAllowed
<1>5. EnoughRows(in, t)
  <2>1. CASE in.lastSuccess = NoSuccess
    BY <2>1 DEF EnoughRows
  <2>2. CASE in.lastSuccess \in Nat
    <3>1. t.rows * in.lastSuccess <= s.rows * in.lastSuccess
      BY <1>a, <2>2, ProductMonotone
    <3>2. s.rows * in.lastSuccess \in Int /\ t.rows * in.lastSuccess \in Int
      BY <1>a, <2>2, ProductMonotone
    <3>3. 100 * in.rows \in Int
      BY DEF WellFormed
    <3> QED BY <1>3, <3>1, <3>2, <3>3 DEF EnoughRows
  <2> QED BY <2>1, <2>2 DEF WellFormed
<1>6. SubjectsPresent(in, t)
  <2>1. known \in Nat
    BY FS_CardinalityType DEF WellFormed
  <2>2. Cardinality(in.dbSubjects \ in.subjects) \in Nat
    BY FS_Difference, FS_CardinalityType DEF WellFormed
  <2> HIDE DEF known
  <2>3. s.absent * known <= t.absent * known
    BY <1>a, <1>2, <2>1, ProductMonotone
  <2>4. (s.absent * known) \div 100 <= (t.absent * known) \div 100
    <3> DEFINE m == s.absent * known
               n == t.absent * known
    <3>1. m \in Int /\ n \in Int /\ m <= n
      BY <1>1, <2>1, <2>3
    <3> HIDE DEF m, n
    <3>2. m \div 100 <= n \div 100
      BY <3>1
    <3> QED BY <3>2 DEF m, n
  <2>5. (s.absent * known) \div 100 \in Int /\ (t.absent * known) \div 100 \in Int
    BY <1>1, <2>1
  <2> QED BY <1>3, <2>2, <2>4, <2>5, GateAssumption
          DEF SubjectsPresent, Larger, known
<1> QED BY <1>3, <1>4, <1>5, <1>6 DEF GatePasses, t

(* The full override clears every rule but one: only an empty page is still
   refused. *)
THEOREM OnlyEmptyPagesAreFinal ==
  ASSUME MaxMissing < 100, NEW in, WellFormed(in)
  PROVE  GatePasses(in, 100) <=> in.rows > 0
<1> DEFINE t == GateThresholds(100)
           known == Cardinality(in.dbSubjects)
<1>1. t = [missing |-> 100, rows |-> 0, absent |-> 100]
  <2>1. 100 # NoOverride /\ 100 \notin 0..MaxMissing
    BY GateAssumption DEF NoOverride
  <2>2. t = [missing |-> 100, rows |-> 100 - 100, absent |-> 100]
    BY <2>1, Zenon DEF GateThresholds, t
  <2>3. 100 - 100 = 0
    OBVIOUS
  <2> QED BY <2>2, <2>3, Zenon
<1>2. t.missing = 100 /\ t.rows = 0 /\ t.absent = 100
  BY <1>1
<1> HIDE DEF t
<1>3. MissingAllowed(in, t)
  BY <1>2 DEF MissingAllowed, WellFormed
<1>4. EnoughRows(in, t)
  BY <1>2 DEF EnoughRows, WellFormed, NoSuccess
<1>5. SubjectsPresent(in, t)
  <2>1. known \in Nat
    BY FS_CardinalityType DEF WellFormed
  <2>2. /\ Cardinality(in.dbSubjects \ in.subjects) \in Nat
        /\ Cardinality(in.dbSubjects \ in.subjects) <= known
    BY FS_Difference, FS_CardinalityType, FS_Subset DEF WellFormed
  <2> HIDE DEF known
  <2>3. (100 * known) \div 100 = known
    BY <2>1
  <2> QED BY <1>2, <2>1, <2>2, <2>3, GateAssumption
          DEF SubjectsPresent, Larger, known
<1> QED BY <1>3, <1>4, <1>5 DEF GatePasses, t

---------------------------------------------------------------------------
(* What the gate refusal recipe of the runbook achieves *)

LEMMA PercentUpBounds ==
  ASSUME NEW part \in Nat, NEW whole \in Nat, part <= whole, 0 < whole
  PROVE  /\ PercentUp(part, whole) \in 0..100
         /\ 100 * part <= PercentUp(part, whole) * whole
<1> DEFINE dividend == 100 * part + whole - 1
<1> DEFINE p == dividend \div whole
<1>1. dividend \in Nat /\ dividend < 101 * whole
  OBVIOUS
<1> HIDE DEF dividend
<1>2. p \in Nat /\ p * whole <= dividend /\ dividend < p * whole + whole
  BY <1>1
<1> HIDE DEF p
<1>3. p < 101
  <2>1. ASSUME 101 <= p PROVE FALSE
    <3>1. 101 * whole <= p * whole
      BY <1>2, <2>1, ProductMonotone
    <3> QED BY <1>1, <1>2, <3>1
  <2> QED BY <1>2, <2>1
<1>4. 100 * part <= p * whole
  <2>1. p * whole \in Int
    BY <1>2
  <2> QED BY <1>2, <2>1 DEF dividend
<1> QED BY <1>2, <1>3, <1>4 DEF PercentUp, p, dividend

(* For every page and every database, the override the runbook tells the operator to
   choose clears both size rules of a page one of them refused, when the default rules
   are each other's complement as the code's are: an override moves the row floor only
   when it exceeds MaxMissing. *)
THEOREM RecipeClears ==
  ASSUME MinRows = 100 - MaxMissing, NEW in, WellFormed(in)
  PROVE  ChosenOverrideClears(in)
<1> DEFINE lost == IF in.active > 0 THEN PercentUp(in.missing, in.active) ELSE 0
<1> DEFINE short == IF in.lastSuccess > in.rows
                    THEN PercentUp(in.lastSuccess - in.rows, in.lastSuccess) ELSE 0
<1> DEFINE chosen == ChosenOverride(in)
<1> DEFINE t == GateThresholds(chosen)
<1>1. lost \in 0..100 /\ (in.active > 0 => 100 * in.missing <= lost * in.active)
  <2>1. CASE in.active > 0
    <3>1. PercentUp(in.missing, in.active) \in 0..100
          /\ 100 * in.missing <= PercentUp(in.missing, in.active) * in.active
      BY <2>1, PercentUpBounds DEF WellFormed
    <3> QED BY <2>1, <3>1
  <2> QED BY <2>1
<1>2. /\ short \in 0..100
      /\ in.lastSuccess > in.rows =>
           /\ in.lastSuccess \in Nat
           /\ 100 * (in.lastSuccess - in.rows) <= short * in.lastSuccess
  <2>1. CASE in.lastSuccess > in.rows
    <3>1. in.lastSuccess \in Nat /\ in.lastSuccess - in.rows \in Nat
          /\ in.lastSuccess - in.rows <= in.lastSuccess /\ 0 < in.lastSuccess
      BY <2>1 DEF WellFormed, NoSuccess
    <3> QED BY <2>1, <3>1, PercentUpBounds
  <2> QED BY <2>1
<1>3. chosen = Larger(lost, short)
  BY DEF ChosenOverride
<1> HIDE DEF lost, short
<1>4. chosen \in 0..100 /\ lost <= chosen /\ short <= chosen
  BY <1>1, <1>2, <1>3 DEF Larger
<1>5. chosen \in Overrides /\ chosen # NoOverride
  BY <1>4 DEF Overrides, NoOverride
<1> HIDE DEF chosen
<1>6. t.missing = chosen /\ (IF chosen <= MaxMissing THEN t.rows = MinRows ELSE t.rows = 100 - chosen)
  BY <1>4, <1>5, ThresholdsAre, GateAssumption
<1>7. MissingAllowed(in, t)
  <2> SUFFICES ASSUME in.active > 0 PROVE 100 * in.missing <= chosen * in.active
    BY <1>6 DEF MissingAllowed
  <2>1. lost * in.active <= chosen * in.active /\ lost * in.active \in Int /\ chosen * in.active \in Int
    BY <1>1, <1>4, ProductMonotone DEF WellFormed
  <2> QED BY <1>1, <2>1 DEF WellFormed
<1>8. EnoughRows(in, t)
  <2> SUFFICES ASSUME in.lastSuccess # NoSuccess PROVE 100 * in.rows >= t.rows * in.lastSuccess
    BY DEF EnoughRows
  <2>1. in.lastSuccess \in Nat /\ in.rows \in Nat
    BY DEF WellFormed
  <2>2. t.rows \in Int /\ t.rows <= 100 - chosen /\ t.rows <= 100
    BY <1>4, <1>6, GateAssumption
  <2>3. CASE in.lastSuccess > in.rows
    <3>1. short * in.lastSuccess <= chosen * in.lastSuccess
          /\ short * in.lastSuccess \in Int /\ chosen * in.lastSuccess \in Int
      BY <1>2, <1>4, <2>1, ProductMonotone
    <3>2. t.rows * in.lastSuccess <= (100 - chosen) * in.lastSuccess /\ t.rows * in.lastSuccess \in Int
      BY <1>4, <2>1, <2>2, ProductMonotone
    <3>3. (100 - chosen) * in.lastSuccess = 100 * in.lastSuccess - chosen * in.lastSuccess
      BY <1>4, <2>1
    <3> QED BY <1>2, <2>1, <2>3, <3>1, <3>2, <3>3
  <2>4. CASE ~(in.lastSuccess > in.rows)
    <3>1. t.rows * in.lastSuccess <= 100 * in.lastSuccess /\ t.rows * in.lastSuccess \in Int
      BY <2>1, <2>2, ProductMonotone
    <3> QED BY <2>1, <2>4, <3>1
  <2> QED BY <2>3, <2>4
<1> QED BY <1>7, <1>8 DEF ChosenOverrideClears, chosen

---------------------------------------------------------------------------
(* Types *)

SectionRecs == [course : Courses, removed : BOOLEAN, details : Nat, seats : Nat,
                name : Nat, nameAt : Nat, snapshot : Nat, snapshotAt : Nat]
SeenRecs == [course : Courses, removed : BOOLEAN, details : Nat, seats : Nat,
             name : Nat, snapshot : Nat]

Pages == [Crns -> Rows \cup {Unlisted}]
Tables == [Crns -> SectionRecs \cup {Absent}]
Knowns == [Crns -> SeenRecs \cup {Absent}]

TxnShape ==
  txn = NoTxn \/
    /\ DOMAIN txn = {"open", "by", "override", "phase", "page", "at", "known", "fingerprint"}
    /\ txn.open = TRUE
    /\ txn.by \in Sweepers /\ txn.override \in OperatorGates \cup {NoOverride}
    /\ txn.phase \in {"load", "fingerprint", "plan"}
    /\ txn.page \in Pages /\ txn.at \in Nat /\ txn.at <= clock
    /\ txn.phase # "load" => txn.known \in Knowns

CacheShape ==
  /\ DOMAIN cache = Workers
  /\ \A w \in Workers :
       cache[w] = NoState \/
         /\ DOMAIN cache[w] = {"kept", "known", "fingerprint"}
         /\ cache[w].kept = TRUE /\ cache[w].known \in Knowns

IngestShape ==
  /\ ingest.stage \in {"none", "fetch", "write", "rank"}
  /\ ingest.stage \in {"fetch", "write"} => ingest.at \in Nat /\ ingest.at <= clock
  /\ ingest.stage = "write" => /\ DOMAIN ingest.rows \subseteq Crns
                               /\ \A c \in DOMAIN ingest.rows : ingest.rows[c] \in Rows

SyncTypes ==
  /\ usf \in Pages /\ sections \in Tables /\ courses \subseteq Courses
  /\ observations \in [names : Nat, snapshots : Nat]
  /\ TxnShape /\ CacheShape /\ IngestShape
  /\ clock \in Nat /\ spent \in [{"change", "sweep", "restore", "ingest"} -> Nat]

(* What a sweep or a worker knows of, the database has *)
KnownIsPresent(known) == \A c \in Crns : known[c] # Absent => sections[c] # Absent

KnownsPresent ==
  /\ txn # NoTxn /\ txn.phase # "load" => KnownIsPresent(txn.known)
  /\ \A w \in Workers : cache[w] # NoState => KnownIsPresent(cache[w].known)

---------------------------------------------------------------------------
(* Records *)

LEMMA AbsentIsNoRecord == Absent \notin SectionRecs /\ Absent \notin SeenRecs
<1>1. \A r \in SectionRecs \cup SeenRecs : "course" \in DOMAIN r
  BY DEF SectionRecs, SeenRecs
<1>2. "course" \notin DOMAIN Absent
  BY DEF Absent
<1> QED BY <1>1, <1>2

LEMMA UnlistedIsNoRow ==
  /\ Unlisted \notin Rows
  /\ Rows \subseteq [course : Courses, details : Nat, name : Nat, seats : Nat]
<1>1. \A r \in Rows : "course" \in DOMAIN r
  BY SyncAssumption
<1>2. "course" \notin DOMAIN Unlisted
  BY DEF Unlisted
<1> QED BY <1>1, <1>2, SyncAssumption

LEMMA NoTxnIsNone ==
  /\ NoTxn.open = FALSE /\ "phase" \notin DOMAIN NoTxn
  /\ NoState.kept = FALSE /\ NoIngest.stage = "none"
BY DEF NoTxn, NoState, NoIngest

LEMMA SeenIsSeen ==
  ASSUME NEW s \in SectionRecs
  PROVE  /\ Seen(s) \in SeenRecs /\ Seen(s) # Absent
         /\ Seen(s).course = s.course /\ Seen(s).removed = s.removed
         /\ Seen(s).details = s.details /\ Seen(s).seats = s.seats
         /\ Seen(s).name = s.name /\ Seen(s).snapshot = s.snapshot
<1>1. Seen(s) \in SeenRecs
  BY DEF Seen, SectionRecs, SeenRecs
<1> QED BY <1>1, AbsentIsNoRecord DEF Seen

LEMMA TermKnowns ==
  ASSUME sections \in Tables
  PROVE  /\ TermSections \in Knowns
         /\ KnownIsPresent(TermSections)
         /\ \A c \in Crns : TermSections[c] = Absent <=> sections[c] = Absent
         /\ \A c \in Crns : sections[c] # Absent => TermSections[c] = Seen(sections[c])
<1>1. \A c \in Crns : sections[c] # Absent => sections[c] \in SectionRecs
  BY DEF Tables
<1>2. \A c \in Crns : TermSections[c] = IF sections[c] = Absent THEN Absent ELSE Seen(sections[c])
  BY DEF TermSections
<1>3. \A c \in Crns : TermSections[c] = Absent <=> sections[c] = Absent
  BY <1>1, <1>2, SeenIsSeen
<1>4. TermSections \in Knowns
  BY <1>1, SeenIsSeen DEF TermSections, Knowns
<1> QED BY <1>2, <1>3, <1>4 DEF KnownIsPresent

LEMMA NewSectionType ==
  ASSUME NEW row \in Rows, NEW at \in Nat
  PROVE  /\ NewSection(row, at) \in SectionRecs
         /\ NewSection(row, at).course = row.course /\ NewSection(row, at).removed = FALSE
         /\ NewSection(row, at).details = row.details /\ NewSection(row, at).name = row.name
         /\ NewSection(row, at).seats = row.seats /\ NewSection(row, at).snapshot = row.seats
BY UnlistedIsNoRow DEF NewSection, SectionRecs

---------------------------------------------------------------------------
(* What a plan writes *)

LEMMA NameObserved ==
  ASSUME NEW s \in SectionRecs, NEW row \in Rows, NEW at \in Nat
  PROVE  LET n == ObserveName(s, row, at)
         IN  /\ n \in SectionRecs
             /\ n.course = s.course /\ n.details = s.details /\ n.seats = s.seats
             /\ n.removed = s.removed /\ n.snapshot = s.snapshot /\ n.snapshotAt = s.snapshotAt
             /\ IF at >= s.nameAt THEN n.name = row.name /\ n.nameAt = at
                ELSE n.name = s.name /\ n.nameAt = s.nameAt
<1> DEFINE n == ObserveName(s, row, at)
<1>1. row.name \in Nat
  BY UnlistedIsNoRow
<1>2. CASE at >= s.nameAt
  <2>1. n = [s EXCEPT !.name = row.name, !.nameAt = at]
    BY <1>2 DEF ObserveName
  <2> HIDE DEF n
  <2>2. n \in SectionRecs
    BY <1>1, <2>1 DEF SectionRecs
  <2>3. n.name = row.name /\ n.nameAt = at
    BY <2>1 DEF SectionRecs
  <2>4. /\ n.course = s.course /\ n.details = s.details /\ n.seats = s.seats
        /\ n.removed = s.removed /\ n.snapshot = s.snapshot /\ n.snapshotAt = s.snapshotAt
    BY <2>1 DEF SectionRecs
  <2> QED BY <1>2, <2>2, <2>3, <2>4 DEF n
<1>3. CASE ~(at >= s.nameAt)
  BY <1>3 DEF ObserveName
<1> QED BY <1>2, <1>3

LEMMA SeatsObserved ==
  ASSUME NEW s \in SectionRecs, NEW row \in Rows, NEW at \in Nat
  PROVE  LET n == ObserveSeats(s, row, at)
         IN  /\ n \in SectionRecs
             /\ n.course = s.course /\ n.details = s.details /\ n.seats = s.seats
             /\ n.removed = s.removed /\ n.name = s.name /\ n.nameAt = s.nameAt
             /\ IF at >= s.snapshotAt THEN n.snapshot = row.seats /\ n.snapshotAt = at
                ELSE n.snapshot = s.snapshot /\ n.snapshotAt = s.snapshotAt
<1> DEFINE n == ObserveSeats(s, row, at)
<1>1. row.seats \in Nat
  BY UnlistedIsNoRow
<1>2. CASE at >= s.snapshotAt
  <2>1. n = [s EXCEPT !.snapshot = row.seats, !.snapshotAt = at]
    BY <1>2 DEF ObserveSeats
  <2> HIDE DEF n
  <2>2. n \in SectionRecs
    BY <1>1, <2>1 DEF SectionRecs
  <2>3. n.snapshot = row.seats /\ n.snapshotAt = at
    BY <2>1 DEF SectionRecs
  <2>4. /\ n.course = s.course /\ n.details = s.details /\ n.seats = s.seats
        /\ n.removed = s.removed /\ n.name = s.name /\ n.nameAt = s.nameAt
    BY <2>1 DEF SectionRecs
  <2> QED BY <1>2, <2>2, <2>3, <2>4 DEF n
<1>3. CASE ~(at >= s.snapshotAt)
  BY <1>3 DEF ObserveSeats
<1> QED BY <1>2, <1>3

(* A matched row *)
Written(s, t, c, page, known, at) ==
  /\ t \in SectionRecs /\ t.course = s.course
  /\ t.details = IF c \in DetailUpdates(page, known) THEN page[c].details ELSE s.details
  /\ t.seats = IF c \in SeatUpdates(page, known) THEN page[c].seats ELSE s.seats
  /\ IF c \in NameAppends(page, known) /\ at >= s.nameAt
     THEN t.name = page[c].name /\ t.nameAt = at
     ELSE t.name = s.name /\ t.nameAt = s.nameAt
  /\ IF c \in SnapshotAppends(page, known) /\ at >= s.snapshotAt
     THEN t.snapshot = page[c].seats /\ t.snapshotAt = at
     ELSE t.snapshot = s.snapshot /\ t.snapshotAt = s.snapshotAt

LEMMA UpdateWrites ==
  ASSUME NEW page \in Pages, NEW known, NEW at \in Nat, NEW c \in Matched(page, known),
         sections[c] \in SectionRecs
  PROVE  LET t == Update(c, page, known, at)
         IN  /\ Written(sections[c], t, c, page, known, at)
             /\ t.removed = IF c \in Restores(page, known) THEN FALSE ELSE sections[c].removed
<1> DEFINE row == page[c]
<1> DEFINE s == sections[c]
<1> DEFINE named == IF c \in NameAppends(page, known) THEN ObserveName(s, row, at) ELSE s
<1> DEFINE observed == IF c \in SnapshotAppends(page, known) THEN ObserveSeats(named, row, at) ELSE named
<1> DEFINE t == Update(c, page, known, at)
<1>1. row \in Rows
  BY DEF Matched, InScope, Pages
<1>2. row.details \in Nat /\ row.seats \in Nat
  BY <1>1, UnlistedIsNoRow
<1>3. named \in SectionRecs
  BY <1>1, NameObserved
<1>4. /\ named.course = s.course /\ named.details = s.details /\ named.seats = s.seats
      /\ named.removed = s.removed /\ named.snapshot = s.snapshot /\ named.snapshotAt = s.snapshotAt
      /\ IF c \in NameAppends(page, known) /\ at >= s.nameAt
         THEN named.name = row.name /\ named.nameAt = at
         ELSE named.name = s.name /\ named.nameAt = s.nameAt
  BY <1>1, NameObserved
<1> HIDE DEF named
<1>5. observed \in SectionRecs
  BY <1>1, <1>3, SeatsObserved
<1>6. /\ observed.course = s.course /\ observed.details = s.details /\ observed.seats = s.seats
      /\ observed.removed = s.removed /\ observed.name = named.name /\ observed.nameAt = named.nameAt
      /\ IF c \in SnapshotAppends(page, known) /\ at >= s.snapshotAt
         THEN observed.snapshot = row.seats /\ observed.snapshotAt = at
         ELSE observed.snapshot = s.snapshot /\ observed.snapshotAt = s.snapshotAt
  BY <1>1, <1>3, <1>4, SeatsObserved
<1>7. t = [observed EXCEPT
             !.details = IF c \in DetailUpdates(page, known) THEN row.details ELSE @,
             !.seats   = IF c \in SeatUpdates(page, known) THEN row.seats ELSE @,
             !.removed = IF c \in Restores(page, known) THEN FALSE ELSE @]
  BY DEF Update, named
<1> HIDE DEF observed, t
<1>8. t \in SectionRecs
  BY <1>2, <1>5, <1>7 DEF SectionRecs
<1>9. /\ t.course = observed.course /\ t.name = observed.name /\ t.nameAt = observed.nameAt
      /\ t.snapshot = observed.snapshot /\ t.snapshotAt = observed.snapshotAt
      /\ t.details = IF c \in DetailUpdates(page, known) THEN row.details ELSE observed.details
      /\ t.seats = IF c \in SeatUpdates(page, known) THEN row.seats ELSE observed.seats
      /\ t.removed = IF c \in Restores(page, known) THEN FALSE ELSE observed.removed
  BY <1>5, <1>7 DEF SectionRecs
<1> QED BY <1>4, <1>6, <1>8, <1>9 DEF Written, t

(* Where the parts of a plan lie *)
LEMMA PlanParts ==
  ASSUME NEW page \in Pages, NEW known \in Knowns, NEW catalog, KnownIsPresent(known)
  PROVE  /\ \A c \in Inserts(page, known, catalog) :
              c \in Crns /\ c \in InScope(page) /\ page[c] \in Rows /\ known[c] = Absent
         /\ \A c \in Matched(page, known) :
              c \in Crns /\ c \in InScope(page) /\ page[c] \in Rows /\ known[c] # Absent
         /\ \A c \in Removals(page, known) :
              c \in Crns /\ c \notin InScope(page) /\ known[c] # Absent
         /\ \A c \in Crns : known[c] # Absent => sections[c] # Absent
BY DEF Inserts, Matched, Removals, ActiveInScope, InScope, Pages, KnownIsPresent

LEMMA PlanSubsets ==
  ASSUME NEW page, NEW known
  PROVE  /\ DetailUpdates(page, known) \subseteq Matched(page, known)
         /\ SeatUpdates(page, known) \subseteq Matched(page, known)
         /\ Restores(page, known) \subseteq Matched(page, known)
         /\ NameAppends(page, known) \subseteq Matched(page, known)
         /\ SnapshotAppends(page, known) \subseteq Matched(page, known)
         /\ Matched(page, known) \subseteq Crns /\ Removals(page, known) \subseteq Crns
BY DEF DetailUpdates, SeatUpdates, Restores, NameAppends, SnapshotAppends, Matched, Removals,
       ActiveInScope, InScope

(* A plan leaves each section as its page row has it, removed or alone *)
PlanWrites(t, c, page, known, catalog, at) ==
  /\ c \in Inserts(page, known, catalog) => sections[c] = Absent /\ t = NewSection(page[c], at)
  /\ sections[c] = Absent /\ c \notin Inserts(page, known, catalog) => t = Absent
  /\ sections[c] # Absent =>
       /\ Written(sections[c], t, c, page, known, at)
       /\ t.removed = IF c \in Restores(page, known) THEN FALSE
                      ELSE IF c \in Removals(page, known) THEN TRUE ELSE sections[c].removed

LEMMA AppliedWrites ==
  ASSUME sections \in Tables, NEW page \in Pages, NEW known \in Knowns, KnownIsPresent(known),
         NEW catalog, NEW at \in Nat, Inserts(page, known, catalog) \cap Present = {}, NEW c \in Crns
  PROVE  PlanWrites(Applied(page, known, catalog, at)[c], c, page, known, catalog, at)
<1> DEFINE t == Applied(page, known, catalog, at)[c]
<1>1. t = IF c \in Inserts(page, known, catalog) THEN NewSection(page[c], at)
          ELSE IF c \in Matched(page, known) THEN Update(c, page, known, at)
          ELSE IF c \in Removals(page, known) THEN [sections[c] EXCEPT !.removed = TRUE]
          ELSE sections[c]
  BY PlanParts DEF Applied
<1> HIDE DEF t
<1>2. ASSUME c \in Inserts(page, known, catalog)
      PROVE  sections[c] = Absent /\ t = NewSection(page[c], at)
  BY <1>1, <1>2 DEF Present
<1>3. ASSUME sections[c] = Absent, c \notin Inserts(page, known, catalog) PROVE t = Absent
  <2>1. c \notin Matched(page, known) /\ c \notin Removals(page, known)
    BY <1>3, PlanParts
  <2> QED BY <1>1, <1>3, <2>1
<1>4. ASSUME sections[c] # Absent
      PROVE  /\ Written(sections[c], t, c, page, known, at)
             /\ t.removed = IF c \in Restores(page, known) THEN FALSE
                            ELSE IF c \in Removals(page, known) THEN TRUE ELSE sections[c].removed
  <2>1. sections[c] \in SectionRecs /\ c \notin Inserts(page, known, catalog)
    BY <1>2, <1>4 DEF Tables
  <2>2. CASE c \in Matched(page, known)
    <3>1. t = Update(c, page, known, at) /\ c \notin Removals(page, known)
      BY <1>1, <2>1, <2>2, PlanParts
    <3> QED BY <2>1, <2>2, <3>1, UpdateWrites
  <2>3. CASE c \in Removals(page, known)
    <3>1. c \notin Matched(page, known) /\ t = [sections[c] EXCEPT !.removed = TRUE]
      BY <1>1, <2>1, <2>3, PlanParts
    <3>2. t \in SectionRecs
      BY <2>1, <3>1 DEF SectionRecs
    <3> QED BY <2>1, <2>3, <3>1, <3>2, PlanSubsets DEF SectionRecs, Written
  <2>4. CASE c \notin Matched(page, known) /\ c \notin Removals(page, known)
    <3>1. t = sections[c]
      BY <1>1, <2>1, <2>4
    <3> QED BY <2>1, <2>4, <3>1, PlanSubsets DEF Written
  <2> QED BY <2>2, <2>3, <2>4
<1> QED BY <1>2, <1>3, <1>4 DEF t, PlanWrites

---------------------------------------------------------------------------
(* What a commit does *)

CommitTable(added) == Applied(txn.page, txn.known, courses \cup added, txn.at)

LEMMA CommitWrites ==
  ASSUME SyncTypes, KnownsPresent, NEW added, CommitSweep(added)
  PROVE  /\ txn.open = TRUE /\ txn # NoTxn /\ txn.phase = "plan" /\ GateOpen
         /\ txn.page \in Pages /\ txn.known \in Knowns /\ txn.at \in Nat /\ txn.by \in Sweepers
         /\ KnownIsPresent(txn.known)
         /\ Inserts(txn.page, txn.known, courses \cup added) \cap Present = {}
         /\ added \subseteq NewCourses(txn.page, txn.known, courses)
         /\ sections' = CommitTable(added) /\ courses' = courses \cup added
         /\ txn' = NoTxn /\ outcome' = "succeeded"
         /\ UNCHANGED <<usf, ingest, clock, spent>>
<1>1. /\ txn.open /\ txn.phase = "plan" /\ GateOpen
      /\ Inserts(txn.page, txn.known, courses \cup added) \cap Present = {}
      /\ added \subseteq NewCourses(txn.page, txn.known, courses)
      /\ sections' = CommitTable(added) /\ courses' = courses \cup added
      /\ txn' = NoTxn /\ outcome' = "succeeded"
      /\ UNCHANGED <<usf, ingest, clock, spent>>
  BY DEF CommitSweep, CommitTable
<1>2. txn # NoTxn
  BY <1>1, NoTxnIsNone
<1> QED BY <1>1, <1>2 DEF SyncTypes, TxnShape, KnownsPresent

(* Only CommitSweep commits *)
LEMMA CommitIsCommitSweep ==
  ASSUME SyncTypes, [Next]_syncVars, Commits
  PROVE  \E added \in SUBSET Courses : CommitSweep(added)
<1>1. txn.open = TRUE /\ txn # NoTxn /\ txn' = NoTxn /\ outcome' = "succeeded" /\ txn' # txn
  BY NoTxnIsNone DEF Commits, SyncTypes, TxnShape
<1>2. DOMAIN txn = {"open", "by", "override", "phase", "page", "at", "known", "fingerprint"}
  BY <1>1 DEF SyncTypes, TxnShape
<1>3. ~ReuseState /\ ~LoadSections /\ ~LoadFingerprint
  <2>1. ASSUME ReuseState \/ LoadSections \/ LoadFingerprint PROVE "phase" \in DOMAIN txn'
    BY <1>2, <2>1 DEF ReuseState, LoadSections, LoadFingerprint
  <2> QED BY <1>1, <2>1, NoTxnIsNone
<1>4. ~AbortSweep
  BY <1>1 DEF AbortSweep
<1>5. ~(\E p \in Sweepers, override \in OperatorGates \cup {NoOverride} : BeginSweep(p, override))
  BY <1>1 DEF BeginSweep
<1>6. ~(\E c \in Crns, row \in Rows \cup {Unlisted} : ListingChanges(c, row))
  BY <1>1 DEF ListingChanges
<1>7. ~(\E requested \in SUBSET Crns : RestoreCrns(requested))
  BY <1>1 DEF RestoreCrns
<1>8. ~BeginIngest /\ ~IngestProgress /\ ~Idle /\ ~UNCHANGED syncVars
  BY <1>1 DEF BeginIngest, IngestProgress, FetchIngest, WriteIngest, RankIngest, FailIngest, Idle, syncVars
<1> QED BY <1>3, <1>4, <1>5, <1>6, <1>7, <1>8 DEF Next, SweepProgress

(* A sweep that knows the term as it is leaves it as its page has it *)
LEMMA KnowingCommitMirrors ==
  ASSUME SyncTypes, KnownsPresent, NEW added, CommitSweep(added), txn.known = TermSections,
         \A c \in Present : sections[c].nameAt <= txn.at /\ sections[c].snapshotAt <= txn.at
  PROVE  Mirrors(sections', txn.page, courses')
<1> DEFINE page == txn.page
<1> DEFINE known == txn.known
<1> DEFINE catalog == courses \cup added
<1>1. /\ page \in Pages /\ known \in Knowns /\ KnownIsPresent(known) /\ txn.at \in Nat
      /\ Inserts(page, known, catalog) \cap Present = {}
      /\ sections' = Applied(page, known, catalog, txn.at) /\ courses' = catalog
  BY CommitWrites DEF CommitTable
<1>2. sections \in Tables
  BY DEF SyncTypes
<1> HIDE DEF page, known, catalog
<1> SUFFICES ASSUME NEW c \in Crns
             PROVE  IF c \in InScope(page)
                    THEN IF sections'[c] = Absent
                         THEN page[c].course \notin catalog
                         ELSE /\ ~sections'[c].removed
                              /\ sections'[c].details = page[c].details
                              /\ sections'[c].name = page[c].name
                              /\ sections'[c].seats = page[c].seats
                              /\ sections'[c].snapshot = page[c].seats
                    ELSE sections'[c] # Absent /\ sections'[c].course \in Undergraduate
                           => sections'[c].removed
  BY <1>1 DEF Mirrors, page
<1>3. PlanWrites(sections'[c], c, page, known, catalog, txn.at)
  BY <1>1, <1>2, AppliedWrites
(* A section left out is not listed, or of a course the catalog does not have *)
<1>6. CASE sections[c] = Absent /\ c \notin Inserts(page, known, catalog)
  <2>1. sections'[c] = Absent
    BY <1>3, <1>6 DEF PlanWrites
  <2>2. known[c] = Absent
    BY <1>1, <1>6 DEF KnownIsPresent
  <2> QED BY <1>6, <2>1, <2>2 DEF Inserts
<1>4. CASE sections[c] = Absent /\ c \in Inserts(page, known, catalog)
  <2>1. c \in Inserts(page, known, catalog) /\ sections'[c] = NewSection(page[c], txn.at)
    BY <1>3, <1>4 DEF PlanWrites
  <2>2. c \in InScope(page) /\ page[c] \in Rows
    BY <1>1, <2>1, PlanParts
  <2> DEFINE row == page[c]
  <2> DEFINE new == NewSection(row, txn.at)
  <2>a. sections'[c] = new /\ row \in Rows /\ txn.at \in Nat
    BY <1>1, <2>1, <2>2
  <2> HIDE DEF row
  <2>b. /\ new.removed = FALSE /\ new.details = row.details /\ new.name = row.name
        /\ new.seats = row.seats /\ new.snapshot = row.seats
    BY <2>a, NewSectionType
  <2> HIDE DEF new
  <2>3. /\ sections'[c].removed = FALSE
        /\ sections'[c].details = row.details /\ sections'[c].name = row.name
        /\ sections'[c].seats = row.seats /\ sections'[c].snapshot = row.seats
    BY <2>a, <2>b
  <2>4. sections'[c] # Absent
    BY <1>2, <2>1, <2>2, <1>1, NewSectionType, AbsentIsNoRecord
  <2> QED BY <2>2, <2>3, <2>4 DEF row
<1>5. CASE sections[c] # Absent
  <2> DEFINE s == sections[c]
  <2>1. s \in SectionRecs /\ s.nameAt <= txn.at /\ s.snapshotAt <= txn.at
    BY <1>2, <1>5 DEF Tables, Present
  <2>2. /\ known[c] # Absent /\ known[c].course = s.course /\ known[c].removed = s.removed
        /\ known[c].details = s.details /\ known[c].seats = s.seats
        /\ known[c].name = s.name /\ known[c].snapshot = s.snapshot
    BY <1>2, <1>5, <2>1, TermKnowns, SeenIsSeen DEF known
  <2>3. txn.at >= s.nameAt /\ txn.at >= s.snapshotAt
    BY <1>1, <2>1 DEF SectionRecs
  <2>4. CASE c \in InScope(page)
    <3>1. c \in Matched(page, known) /\ c \notin Removals(page, known)
      BY <2>2, <2>4 DEF Matched, Removals
    <3>2. /\ c \in DetailUpdates(page, known) <=> s.details # page[c].details
          /\ c \in SeatUpdates(page, known) <=> s.seats # page[c].seats
          /\ c \in NameAppends(page, known) <=> s.name # page[c].name
          /\ c \in SnapshotAppends(page, known) <=> s.snapshot # page[c].seats
          /\ c \in Restores(page, known) <=> s.removed
      BY <2>2, <3>1 DEF DetailUpdates, SeatUpdates, NameAppends, SnapshotAppends, Restores
    <3> HIDE DEF s
    <3>3. Written(s, sections'[c], c, page, known, txn.at) /\ ~sections'[c].removed
      BY <1>3, <1>5, <2>1, <3>1, <3>2 DEF SectionRecs, s, PlanWrites
    <3>4. sections'[c] # Absent
      BY <3>3, AbsentIsNoRecord DEF Written
    <3> QED BY <2>3, <2>4, <3>2, <3>3, <3>4 DEF Written
  <2>5. CASE c \notin InScope(page)
    <3>1. sections'[c].course = s.course
      BY <1>3, <1>5 DEF Written, PlanWrites
    <3>2. c \notin Restores(page, known)
      BY <2>5 DEF Restores, Matched
    <3>3. s.course \in Undergraduate /\ ~s.removed => c \in Removals(page, known)
      BY <2>2, <2>5 DEF Removals, ActiveInScope
    <3>4. s.removed \in BOOLEAN
      BY <2>1 DEF SectionRecs
    <3> QED BY <1>3, <1>5, <2>5, <3>1, <3>2, <3>3, <3>4 DEF PlanWrites
  <2> QED BY <2>4, <2>5
<1> QED BY <1>4, <1>5, <1>6

---------------------------------------------------------------------------
(* The types are kept *)

TypesInv == SyncTypes /\ KnownsPresent

LEMMA InitTypes == Init => TypesInv
<1> SUFFICES ASSUME Init PROVE TypesInv
  OBVIOUS
<1>1. TxnShape /\ CacheShape /\ KnownsPresent
  BY DEF Init, TxnShape, CacheShape, KnownsPresent
<1>2. IngestShape
  BY NoTxnIsNone DEF Init, IngestShape
<1>3. sections \in Tables /\ usf \in Pages
  BY DEF Init, Tables, Pages
<1>4. spent \in [{"change", "sweep", "restore", "ingest"} -> Nat]
  BY DEF Init, Bound
<1> QED BY <1>1, <1>2, <1>3, <1>4, SyncAssumption DEF Init, SyncTypes, TypesInv

LEMMA SpendType ==
  ASSUME SyncTypes, NEW kind \in {"change", "sweep", "restore", "ingest"}, Spend(kind)
  PROVE  spent' \in [{"change", "sweep", "restore", "ingest"} -> Nat]
BY DEF SyncTypes, Spend

(* Steps that write no section *)
LEMMA KeepsPresent ==
  ASSUME KnownsPresent, \A c \in Crns : sections[c] # Absent => sections'[c] # Absent,
         UNCHANGED <<txn, cache>>
  PROVE  KnownsPresent'
BY DEF KnownsPresent, KnownIsPresent

LEMMA KeepsTxn ==
  ASSUME SyncTypes, UNCHANGED txn, clock' \in {clock, clock + 1}
  PROVE  TxnShape'
BY DEF SyncTypes, TxnShape

LEMMA ReadTypes ==
  ASSUME TypesInv, ReuseState \/ LoadSections \/ LoadFingerprint
  PROVE  TypesInv'
<1> USE DEF TypesInv
<1>1. UNCHANGED <<usf, sections, observations, courses, ingest, clock, spent>>
  BY DEF ReuseState, LoadSections, LoadFingerprint
<1>2. /\ txn # NoTxn /\ txn.open = TRUE
      /\ DOMAIN txn = {"open", "by", "override", "phase", "page", "at", "known", "fingerprint"}
      /\ txn.by \in Sweepers /\ txn.override \in OperatorGates \cup {NoOverride}
      /\ txn.page \in Pages /\ txn.at \in Nat /\ txn.at <= clock
      /\ txn.phase # "load" => txn.known \in Knowns
  BY NoTxnIsNone DEF ReuseState, LoadSections, LoadFingerprint, SyncTypes, TxnShape
<1>3. IngestShape'
  BY <1>1 DEF SyncTypes, IngestShape
<1>4. TermSections \in Knowns /\ KnownIsPresent(TermSections)
  BY TermKnowns DEF SyncTypes
<1>5. CacheShape' /\ \A w \in Workers : cache'[w] # NoState => KnownIsPresent(cache'[w].known)
  <2>1. CASE cache' = cache
    BY <2>1 DEF SyncTypes, CacheShape, KnownsPresent
  <2>2. CASE cache' # cache
    <3>1. cache' = [cache EXCEPT ![txn.by] = NoState]
      BY <2>2 DEF ReuseState, LoadSections, LoadFingerprint
    <3>2. DOMAIN cache' = Workers /\ \A w \in Workers : cache'[w] = cache[w] \/ cache'[w] = NoState
      BY <3>1 DEF SyncTypes, CacheShape
    <3> QED BY <3>2 DEF SyncTypes, CacheShape, KnownsPresent
  <2> QED BY <2>1, <2>2
<1>6. ASSUME NEW phase \in {"fingerprint", "plan"}, NEW known \in Knowns, KnownIsPresent(known),
             DOMAIN txn' = DOMAIN txn, txn'.open = txn.open, txn'.by = txn.by,
             txn'.override = txn.override, txn'.page = txn.page, txn'.at = txn.at,
             txn'.phase = phase, txn'.known = known
      PROVE  TypesInv'
  <2>1. TxnShape'
    BY <1>1, <1>2, <1>6 DEF TxnShape
  <2>2. KnownsPresent'
    BY <1>1, <1>5, <1>6 DEF KnownsPresent, KnownIsPresent
  <2> QED BY <1>1, <1>3, <1>5, <2>1, <2>2 DEF SyncTypes
<1>7. CASE ReuseState
  <2> DEFINE known == cache[txn.by].known
  <2>1. txn.by \in Workers /\ cache[txn.by] # NoState
    BY <1>7 DEF ReuseState
  <2>2. known \in Knowns /\ KnownIsPresent(known)
    BY <2>1 DEF SyncTypes, CacheShape, KnownsPresent
  <2>3. txn' = [txn EXCEPT !.phase = "plan", !.known = known, !.fingerprint = cache[txn.by].fingerprint]
    BY <1>7 DEF ReuseState
  <2> HIDE DEF known
  <2> QED BY <1>2, <1>6, <2>2, <2>3
<1>8. CASE LoadSections
  <2>1. txn' = [txn EXCEPT !.phase = "fingerprint", !.known = TermSections]
    BY <1>8 DEF LoadSections
  <2> QED BY <1>2, <1>4, <1>6, <2>1
<1>9. CASE LoadFingerprint
  <2>1. txn' = [txn EXCEPT !.phase = "plan", !.fingerprint = TermFingerprint]
    BY <1>9 DEF LoadFingerprint
  <2>2. txn.known \in Knowns /\ KnownIsPresent(txn.known)
    BY <1>2, <1>9 DEF LoadFingerprint, KnownsPresent
  <2> QED BY <1>2, <1>6, <2>1, <2>2
<1> QED BY <1>7, <1>8, <1>9

LEMMA BeginTypes ==
  ASSUME TypesInv, NEW p \in Sweepers, NEW override \in OperatorGates \cup {NoOverride},
         BeginSweep(p, override)
  PROVE  TypesInv'
<1> USE DEF TypesInv
<1>1. UNCHANGED <<usf, sections, observations, courses, cache, ingest>> /\ clock' = clock + 1
  BY DEF BeginSweep
<1>2. txn' = [open |-> TRUE, by |-> p, override |-> override, phase |-> "load",
              page |-> usf, at |-> clock', known |-> <<>>, fingerprint |-> <<>>]
  BY DEF BeginSweep
<1>3. clock \in Nat /\ clock' \in Nat /\ clock <= clock'
  BY <1>1 DEF SyncTypes
<1>4. TxnShape' /\ txn'.phase = "load"
  BY <1>1, <1>2, <1>3 DEF TxnShape, SyncTypes
<1>5. IngestShape'
  BY <1>1 DEF SyncTypes, IngestShape
<1>6. spent' \in [{"change", "sweep", "restore", "ingest"} -> Nat]
  BY SpendType DEF BeginSweep
<1>7. KnownsPresent' /\ CacheShape'
  BY <1>1, <1>4 DEF KnownsPresent, KnownIsPresent, SyncTypes, CacheShape
<1> QED BY <1>1, <1>3, <1>4, <1>5, <1>6, <1>7 DEF SyncTypes

LEMMA CommitTypes ==
  ASSUME TypesInv, NEW added \in SUBSET Courses, CommitSweep(added)
  PROVE  /\ TypesInv'
         /\ \A c \in Crns : sections[c] # Absent => sections'[c] # Absent
<1> USE DEF TypesInv
<1> DEFINE page == txn.page
<1> DEFINE known == txn.known
<1> DEFINE catalog == courses \cup added
<1>1. /\ page \in Pages /\ known \in Knowns /\ KnownIsPresent(known) /\ txn.at \in Nat
      /\ Inserts(page, known, catalog) \cap Present = {}
      /\ sections' = Applied(page, known, catalog, txn.at) /\ courses' = catalog
      /\ txn' = NoTxn /\ UNCHANGED <<usf, ingest, clock, spent>>
  BY CommitWrites DEF CommitTable
<1>2. sections \in Tables /\ catalog \subseteq Courses
  BY DEF SyncTypes
<1> HIDE DEF page, known, catalog
<1>3. ASSUME NEW c \in Crns
      PROVE  /\ sections'[c] \in SectionRecs \cup {Absent}
             /\ sections[c] # Absent => sections'[c] # Absent
  <2>1. PlanWrites(sections'[c], c, page, known, catalog, txn.at)
    BY <1>1, <1>2, AppliedWrites
  <2>2. CASE sections[c] # Absent
    BY <2>1, <2>2, AbsentIsNoRecord DEF PlanWrites, Written
  <2>3. CASE sections[c] = Absent /\ c \in Inserts(page, known, catalog)
    <3>1. sections'[c] = NewSection(page[c], txn.at) /\ page[c] \in Rows
      BY <1>1, <2>1, <2>3, PlanParts DEF PlanWrites
    <3> QED BY <1>1, <2>3, <3>1, NewSectionType
  <2>4. CASE sections[c] = Absent /\ c \notin Inserts(page, known, catalog)
    BY <2>1, <2>4 DEF PlanWrites
  <2> QED BY <2>2, <2>3, <2>4
<1>4. DOMAIN sections' = Crns
  BY <1>1 DEF Applied
<1>5. sections' \in Tables
  <2>1. sections' = [c \in Crns |-> sections'[c]]
    BY <1>1 DEF Applied
  <2> QED BY <1>3, <2>1 DEF Tables
<1>6. observations' \in [names : Nat, snapshots : Nat]
  <2> DEFINE inserts == Inserts(page, known, catalog)
  <2>1. /\ inserts \subseteq Crns /\ NameAppends(page, known) \subseteq Crns
        /\ SnapshotAppends(page, known) \subseteq Crns
    BY <1>1, PlanParts, PlanSubsets
  <2>2. /\ Cardinality(inserts) \in Nat /\ Cardinality(NameAppends(page, known)) \in Nat
        /\ Cardinality(SnapshotAppends(page, known)) \in Nat
    BY <2>1, SyncAssumption, FS_Subset, FS_CardinalityType
  <2> HIDE DEF inserts
  <2>3. observations' = [names |-> observations.names + Cardinality(inserts)
                                     + Cardinality(NameAppends(page, known)),
                         snapshots |-> observations.snapshots + Cardinality(inserts)
                                     + Cardinality(SnapshotAppends(page, known))]
    BY DEF CommitSweep, inserts, page, known, catalog
  <2>4. observations.names \in Nat /\ observations.snapshots \in Nat
    BY DEF SyncTypes
  <2> QED BY <2>2, <2>3, <2>4
<1>7. /\ CacheShape'
      /\ \A w \in Workers : cache'[w] # NoState =>
           \A c \in Crns : cache'[w].known[c] # Absent => sections'[c] # Absent
  <2> DEFINE ids == Touched(page, known, catalog)
  <2> DEFINE kept == Reloaded(known, ids, sections', observations')
  <2>1. cache' = IF txn.by \in Workers THEN [cache EXCEPT ![txn.by] = kept] ELSE cache
    BY DEF CommitSweep, page, known, catalog
  <2>2. /\ DOMAIN kept = {"kept", "known", "fingerprint"} /\ kept.kept = TRUE
        /\ kept.known = [c \in Crns |-> IF c \in ids THEN Seen(sections'[c]) ELSE known[c]]
    BY DEF Reloaded
  <2> HIDE DEF kept
  <2>3. ASSUME NEW c \in Crns, c \in ids PROVE sections'[c] \in SectionRecs
    <3>1. CASE c \in Inserts(page, known, catalog)
      <4>1. PlanWrites(sections'[c], c, page, known, catalog, txn.at) /\ page[c] \in Rows
        BY <1>1, <1>2, <3>1, AppliedWrites, PlanParts
      <4>2. sections'[c] = NewSection(page[c], txn.at)
        BY <3>1, <4>1 DEF PlanWrites
      <4> QED BY <1>1, <4>1, <4>2, NewSectionType
    <3>2. CASE c \in Matched(page, known) \cup Removals(page, known)
      <4>1. sections[c] # Absent
        BY <1>1, <3>2, PlanParts
      <4>2. PlanWrites(sections'[c], c, page, known, catalog, txn.at)
        BY <1>1, <1>2, AppliedWrites
      <4> QED BY <4>1, <4>2 DEF PlanWrites, Written
    <3> QED BY <2>3, <3>1, <3>2, PlanSubsets DEF Touched, Structural
  <2>4. kept.known \in Knowns
    BY <1>1, <2>2, <2>3, SeenIsSeen DEF Knowns
  <2>5. \A c \in Crns : kept.known[c] # Absent => sections'[c] # Absent
    BY <1>1, <1>3, <2>2, <2>3, AbsentIsNoRecord DEF KnownIsPresent
  <2>6. DOMAIN cache' = Workers /\ \A w \in Workers : cache'[w] = cache[w] \/ cache'[w] = kept
    BY <2>1 DEF SyncTypes, CacheShape
  <2>7. CacheShape'
    BY <2>2, <2>4, <2>6 DEF CacheShape, SyncTypes
  <2>8. ASSUME NEW w \in Workers, cache'[w] # NoState, NEW c \in Crns, cache'[w].known[c] # Absent
        PROVE  sections'[c] # Absent
    BY <1>3, <2>5, <2>6, <2>8 DEF KnownsPresent, KnownIsPresent
  <2> QED BY <2>7, <2>8
<1>8. TxnShape' /\ KnownsPresent'
  BY <1>1, <1>7 DEF TxnShape, KnownsPresent, KnownIsPresent
<1>9. IngestShape'
  BY <1>1 DEF SyncTypes, IngestShape
<1> QED BY <1>1, <1>2, <1>3, <1>5, <1>6, <1>7, <1>8, <1>9 DEF SyncTypes

LEMMA AbortTypes ==
  ASSUME TypesInv, AbortSweep
  PROVE  TypesInv'
<1> USE DEF TypesInv
<1>1. /\ UNCHANGED <<usf, sections, observations, courses, ingest, clock, spent>> /\ txn' = NoTxn
      /\ cache' = IF txn.by \in Workers THEN [cache EXCEPT ![txn.by] = NoState] ELSE cache
  BY DEF AbortSweep
<1>2. DOMAIN cache' = Workers /\ \A w \in Workers : cache'[w] = cache[w] \/ cache'[w] = NoState
  BY <1>1 DEF SyncTypes, CacheShape
<1>3. CacheShape' /\ TxnShape' /\ IngestShape'
  BY <1>1, <1>2 DEF SyncTypes, CacheShape, TxnShape, IngestShape
<1>4. KnownsPresent'
  BY <1>1, <1>2 DEF KnownsPresent, KnownIsPresent
<1> QED BY <1>1, <1>3, <1>4 DEF SyncTypes

LEMMA RestoreTypes ==
  ASSUME TypesInv, NEW requested \in SUBSET Crns, RestoreCrns(requested)
  PROVE  /\ TypesInv'
         /\ \A c \in Crns : sections[c] # Absent => sections'[c] # Absent
<1> USE DEF TypesInv
<1> DEFINE restorable == {c \in requested \cap Present : sections[c].removed}
<1>1. /\ UNCHANGED <<usf, observations, courses, txn, cache, ingest, clock>> /\ Spend("restore")
      /\ sections' = [c \in Crns |-> IF c \in restorable THEN [sections[c] EXCEPT !.removed = FALSE]
                                     ELSE sections[c]]
  BY DEF RestoreCrns
<1>2. \A c \in restorable : sections[c] \in SectionRecs
  BY DEF Present, SyncTypes, Tables
<1> HIDE DEF restorable
<1>3. \A c \in restorable : [sections[c] EXCEPT !.removed = FALSE] \in SectionRecs
  BY <1>2 DEF SectionRecs
<1>4. sections' \in Tables
  BY <1>1, <1>3 DEF SyncTypes, Tables
<1>5. \A c \in Crns : sections[c] # Absent => sections'[c] # Absent
  BY <1>1, <1>3, AbsentIsNoRecord
<1>6. spent' \in [{"change", "sweep", "restore", "ingest"} -> Nat]
  BY <1>1, SpendType
<1>7. TxnShape' /\ CacheShape' /\ IngestShape'
  BY <1>1, KeepsTxn DEF SyncTypes, CacheShape, IngestShape
<1> QED BY <1>1, <1>4, <1>5, <1>6, <1>7, KeepsPresent DEF SyncTypes

LEMMA OverwrittenType ==
  ASSUME NEW s \in SectionRecs, NEW row \in Rows, NEW at \in Nat
  PROVE  Overwritten(s, row, at) \in SectionRecs
<1> DEFINE named == ObserveName(s, row, at)
<1> DEFINE observed == ObserveSeats(named, row, at)
<1>1. named \in SectionRecs
  BY NameObserved
<1> HIDE DEF named
<1>2. observed \in SectionRecs
  BY <1>1, SeatsObserved
<1> HIDE DEF observed
<1>3. row.course \in Courses /\ row.details \in Nat /\ row.seats \in Nat
  BY UnlistedIsNoRow
<1>4. Overwritten(s, row, at) = [observed EXCEPT !.course = row.course, !.details = row.details,
                                   !.seats = row.seats, !.removed = FALSE]
  BY DEF Overwritten, observed, named
<1> QED BY <1>2, <1>3, <1>4 DEF SectionRecs

LEMMA IngestTypes ==
  ASSUME TypesInv, BeginIngest \/ IngestProgress
  PROVE  /\ TypesInv'
         /\ \A c \in Crns : sections[c] # Absent => sections'[c] # Absent
<1> USE DEF TypesInv
<1>1. UNCHANGED <<usf, courses, txn, cache>> /\ clock' \in {clock, clock + 1}
  BY DEF BeginIngest, IngestProgress, FetchIngest, WriteIngest, RankIngest, FailIngest
<1>2. clock \in Nat /\ clock' \in Nat
  BY <1>1 DEF SyncTypes
<1>3. TxnShape' /\ CacheShape'
  BY <1>1, KeepsTxn DEF SyncTypes, CacheShape
<1>4. IngestShape'
  <2>1. CASE BeginIngest
    <3>1. ingest' = [stage |-> "fetch", at |-> clock']
      BY <2>1 DEF BeginIngest
    <3> QED BY <1>2, <3>1 DEF IngestShape
  <2>2. ASSUME NEW crns \in SUBSET Crns, FetchIngest(crns) PROVE IngestShape'
    <3>1. /\ ingest' = [stage |-> "write", at |-> ingest.at, rows |-> [c \in crns |-> usf[c]]]
          /\ ingest.stage = "fetch" /\ clock' = clock /\ \A c \in crns : usf[c] # Unlisted
      BY <2>2 DEF FetchIngest
    <3>2. \A c \in crns : usf[c] \in Rows
      BY <3>1 DEF SyncTypes, Pages
    <3>3. /\ ingest'.stage = "write" /\ ingest'.at = ingest.at
          /\ ingest'.rows = [c \in crns |-> usf[c]]
      BY <3>1
    <3>4. ingest.at \in Nat /\ ingest.at <= clock
      BY <3>1 DEF SyncTypes, IngestShape
    <3>5. DOMAIN ingest'.rows = crns /\ \A c \in crns : ingest'.rows[c] \in Rows
      BY <3>2, <3>3
    <3> QED BY <3>1, <3>3, <3>4, <3>5 DEF IngestShape
  <2>3. CASE WriteIngest \/ RankIngest \/ FailIngest
    <3>1. ingest'.stage \in {"rank", "none"}
      BY <2>3, NoTxnIsNone DEF WriteIngest, RankIngest, FailIngest
    <3> QED BY <3>1 DEF IngestShape
  <2> QED BY <2>1, <2>2, <2>3 DEF IngestProgress
<1>5. /\ sections' \in Tables /\ observations' \in [names : Nat, snapshots : Nat]
      /\ \A c \in Crns : sections[c] # Absent => sections'[c] # Absent
  <2>1. CASE WriteIngest
    <3> DEFINE rows == ingest.rows
    <3> DEFINE crns == DOMAIN rows
    <3>1. /\ sections' = [c \in Crns |->
                 IF c \notin crns THEN sections[c]
                 ELSE IF sections[c] = Absent THEN NewSection(rows[c], ingest.at)
                 ELSE Overwritten(sections[c], rows[c], ingest.at)]
          /\ observations' = [names     |-> observations.names + Cardinality(crns),
                              snapshots |-> observations.snapshots + Cardinality(crns)]
      BY <2>1 DEF WriteIngest
    <3>2. crns \subseteq Crns /\ ingest.at \in Nat /\ \A c \in crns : rows[c] \in Rows
      BY <2>1 DEF WriteIngest, SyncTypes, IngestShape
    <3> HIDE DEF rows
    <3>3. Cardinality(crns) \in Nat
      BY <3>2, SyncAssumption, FS_Subset, FS_CardinalityType
    <3> HIDE DEF crns
    <3>4. observations' \in [names : Nat, snapshots : Nat]
      BY <3>1, <3>3 DEF SyncTypes
    <3>5. ASSUME NEW c \in Crns
          PROVE  /\ sections'[c] \in SectionRecs \cup {Absent}
                 /\ sections[c] # Absent => sections'[c] # Absent
      <4>1. sections[c] \in SectionRecs \cup {Absent}
        BY DEF SyncTypes, Tables
      <4>2. CASE c \notin crns
        BY <3>1, <4>1, <4>2
      <4>3. CASE c \in crns /\ sections[c] = Absent
        BY <3>1, <3>2, <4>3, NewSectionType
      <4>4. CASE c \in crns /\ sections[c] # Absent
        BY <3>1, <3>2, <4>1, <4>4, OverwrittenType, AbsentIsNoRecord
      <4> QED BY <4>2, <4>3, <4>4
    <3>6. sections' = [c \in Crns |-> sections'[c]]
      BY <3>1
    <3> QED BY <3>4, <3>5, <3>6 DEF Tables
  <2>2. CASE ~WriteIngest
    BY <2>2 DEF BeginIngest, IngestProgress, FetchIngest, RankIngest, FailIngest, SyncTypes
  <2> QED BY <2>1, <2>2
<1>6. spent' \in [{"change", "sweep", "restore", "ingest"} -> Nat]
  BY SpendType DEF BeginIngest, IngestProgress, FetchIngest, WriteIngest, RankIngest, FailIngest, SyncTypes
<1> QED BY <1>1, <1>2, <1>3, <1>4, <1>5, <1>6, KeepsPresent DEF SyncTypes

LEMMA IdleTypes ==
  ASSUME TypesInv, UNCHANGED <<sections, observations, courses, txn, cache, ingest, clock>>,
         usf' \in Pages, spent' \in [{"change", "sweep", "restore", "ingest"} -> Nat]
  PROVE  TypesInv'
<1>1. TxnShape' /\ CacheShape' /\ IngestShape'
  BY KeepsTxn DEF TypesInv, SyncTypes, CacheShape, IngestShape
<1> QED BY <1>1, KeepsPresent DEF TypesInv, SyncTypes

LEMMA TypesStep == TypesInv /\ [Next]_syncVars => TypesInv'
<1> SUFFICES ASSUME TypesInv, [Next]_syncVars PROVE TypesInv'
  OBVIOUS
<1>1. ASSUME NEW c \in Crns, NEW row \in Rows \cup {Unlisted}, ListingChanges(c, row)
      PROVE  TypesInv'
  <2>1. usf' \in Pages
    BY <1>1 DEF ListingChanges, TypesInv, SyncTypes, Pages
  <2>2. spent' \in [{"change", "sweep", "restore", "ingest"} -> Nat]
    BY <1>1, SpendType DEF ListingChanges, TypesInv
  <2> QED BY <1>1, <2>1, <2>2, IdleTypes DEF ListingChanges
<1>2. CASE Idle \/ UNCHANGED syncVars
  BY <1>2, IdleTypes DEF Idle, syncVars, TypesInv, SyncTypes
<1> QED BY <1>1, <1>2, BeginTypes, ReadTypes, CommitTypes, AbortTypes, RestoreTypes, IngestTypes
        DEF Next, SweepProgress

(* No section row is ever deleted: every step leaves the sections that are there *)
LEMMA SectionsStay ==
  ASSUME TypesInv, [Next]_syncVars
  PROVE  \A c \in Crns : sections[c] # Absent => sections'[c] # Absent
<1>1. CASE UNCHANGED sections
  BY <1>1
<1>2. CASE ~UNCHANGED sections
  <2>1. \/ \E added \in SUBSET Courses : CommitSweep(added)
        \/ \E requested \in SUBSET Crns : RestoreCrns(requested)
        \/ BeginIngest \/ IngestProgress
    BY <1>2 DEF Next, SweepProgress, ListingChanges, BeginSweep, ReuseState, LoadSections,
         LoadFingerprint, AbortSweep, Idle, syncVars
  <2> QED BY <2>1, CommitTypes, RestoreTypes, IngestTypes
<1> QED BY <1>1, <1>2

(* Every variable keeps its type, and no sweep or kept state knows of a section that
   the database does not have, through ingests, restores and failed sweeps. *)
THEOREM SyncTypeCorrect == Spec => []TypesInv
BY InitTypes, TypesStep, PTL DEF Spec

(* A sweep that read the database afresh, and that nothing overtook, brings the term
   back to its page, whatever the writers before it left. *)
THEOREM FreshSweepsRepair == Spec => FreshSweepRepairs
<1>1. TypesInv /\ [Next]_syncVars =>
        [Commits /\ txn.known = TermSections
           /\ (\A c \in Present : /\ sections[c].nameAt <= txn.at
                                  /\ sections[c].snapshotAt <= txn.at)
           => Mirrors(sections', txn.page, courses')]_syncVars
  <2> SUFFICES ASSUME TypesInv, [Next]_syncVars, Commits, txn.known = TermSections,
                      \A c \in Present : /\ sections[c].nameAt <= txn.at
                                         /\ sections[c].snapshotAt <= txn.at
               PROVE  Mirrors(sections', txn.page, courses')
    OBVIOUS
  <2>1. PICK added \in SUBSET Courses : CommitSweep(added)
    BY CommitIsCommitSweep DEF TypesInv
  <2> QED BY <2>1, KnowingCommitMirrors DEF TypesInv
<1> QED BY <1>1, SyncTypeCorrect, PTL DEF Spec, FreshSweepRepairs

---------------------------------------------------------------------------
(* Sweeps that meet no narrow ingest *)

NoIngests == MaxIngests = 0

NothingIngested == ingest = NoIngest /\ spent.ingest \in Nat

LEMMA InitIngests == Init => NothingIngested
BY DEF Init, NothingIngested, Bound

LEMMA StepIngests ==
  ASSUME NoIngests, TypesInv, NothingIngested, [Next]_syncVars
  PROVE  NothingIngested' /\ ~BeginIngest /\ ~IngestProgress
<1>1. ~BeginIngest
  BY DEF BeginIngest, Spend, Bound, NoIngests, NothingIngested
<1>2. ~IngestProgress
  BY NoTxnIsNone DEF IngestProgress, FetchIngest, WriteIngest, RankIngest, FailIngest, NothingIngested
<1>3. ingest' = ingest
  BY <1>1, <1>2 DEF Next, SweepProgress, ListingChanges, BeginSweep, ReuseState, LoadSections,
       LoadFingerprint, CommitSweep, AbortSweep, RestoreCrns, Idle, syncVars
<1>4. TypesInv'
  BY TypesStep
<1> QED BY <1>1, <1>2, <1>3, <1>4 DEF NothingIngested, TypesInv, SyncTypes

(* The steps that write sections or rankings when nothing is ingested *)
LEMMA WritersOfSections ==
  ASSUME NoIngests, TypesInv, NothingIngested, [Next]_syncVars
  PROVE  \/ UNCHANGED <<sections, observations, ranked, courses, lastSuccess>>
         \/ \E added \in SUBSET Courses : CommitSweep(added)
         \/ \E requested \in SUBSET Crns : RestoreCrns(requested)
<1>1. ~BeginIngest /\ ~IngestProgress
  BY StepIngests
<1> QED BY <1>1 DEF Next, SweepProgress, ListingChanges, BeginSweep, ReuseState, LoadSections,
            LoadFingerprint, AbortSweep, Idle, syncVars

RankedAs(c) == IF sections[c] # Absent /\ ~sections[c].removed THEN RankingOf(sections[c]) ELSE Unranked

LEMMA CommitRanks ==
  ASSUME TypesInv, \A c \in Crns : ranked[c] = RankedAs(c), NEW added \in SUBSET Courses, CommitSweep(added)
  PROVE  \A c \in Crns : ranked'[c] = RankedAs(c)'
<1> DEFINE page == txn.page
<1> DEFINE known == txn.known
<1> DEFINE catalog == courses \cup added
<1> DEFINE scope == {sections'[c].course : c \in Structural(page, known, catalog)}
<1> DEFINE base == [c \in Crns |-> IF c \in Removals(page, known) THEN Unranked ELSE ranked[c]]
<1>1. /\ page \in Pages /\ known \in Knowns /\ KnownIsPresent(known) /\ txn.at \in Nat
      /\ Inserts(page, known, catalog) \cap Present = {}
      /\ sections' = Applied(page, known, catalog, txn.at)
  BY CommitWrites DEF CommitTable, TypesInv
<1>2. sections \in Tables /\ sections' \in Tables
  BY CommitTypes DEF TypesInv, SyncTypes
<1>3. ranked' = Reranked(sections', base, scope)
  BY DEF CommitSweep
<1> HIDE DEF page, known, catalog
<1> SUFFICES ASSUME NEW c \in Crns PROVE ranked'[c] = RankedAs(c)'
  OBVIOUS
<1>4. PlanWrites(sections'[c], c, page, known, catalog, txn.at)
  BY <1>1, <1>2, AppliedWrites
<1>5. CASE sections'[c] = Absent
  <2>1. sections[c] = Absent
    BY <1>4, <1>5, AbsentIsNoRecord DEF PlanWrites, Written
  <2>2. c \notin Removals(page, known) /\ ranked[c] = Unranked
    BY <1>1, <2>1, PlanParts DEF RankedAs
  <2>3. base[c] = Unranked
    BY <2>2
  <2> HIDE DEF base, scope
  <2>4. ranked'[c] = Unranked
    BY <1>3, <1>5, <2>3 DEF Reranked
  <2> QED BY <1>5, <2>4 DEF RankedAs
<1>6. CASE sections'[c] # Absent /\ sections'[c].course \notin scope
  <2>1. c \notin Structural(page, known, catalog)
    BY <1>6
  <2>2. /\ c \notin Inserts(page, known, catalog) /\ c \notin Removals(page, known)
        /\ c \notin Restores(page, known) /\ c \notin NameAppends(page, known)
        /\ c \notin DetailUpdates(page, known)
    BY <2>1 DEF Structural
  <2>3. sections[c] # Absent
    BY <1>4, <1>6, <2>2 DEF PlanWrites
  <2>4. /\ sections'[c].course = sections[c].course /\ sections'[c].details = sections[c].details
        /\ sections'[c].name = sections[c].name /\ sections'[c].removed = sections[c].removed
    BY <1>4, <2>2, <2>3 DEF PlanWrites, Written
  <2>5. RankedAs(c)' = RankedAs(c)
    BY <1>6, <2>3, <2>4 DEF RankedAs, RankingOf
  <2>6. base[c] = ranked[c]
    BY <2>2
  <2> HIDE DEF base, scope
  <2>7. ranked'[c] = base[c]
    BY <1>3, <1>6 DEF Reranked
  <2> QED BY <2>5, <2>6, <2>7
<1>7. CASE sections'[c] # Absent /\ sections'[c].course \in scope
  <2> HIDE DEF base, scope
  <2>1. sections'[c].removed \in BOOLEAN
    BY <1>2, <1>7 DEF Tables, SectionRecs
  <2> QED BY <1>3, <1>7, <2>1 DEF Reranked, RankedAs
<1> QED BY <1>5, <1>6, <1>7

LEMMA RestoreRanks ==
  ASSUME TypesInv, \A c \in Crns : ranked[c] = RankedAs(c), NEW requested \in SUBSET Crns,
         RestoreCrns(requested)
  PROVE  \A c \in Crns : ranked'[c] = RankedAs(c)'
<1>1. sections' \in Tables /\ ranked' = Reranked(sections', ranked, Courses)
  BY RestoreTypes DEF RestoreCrns, TypesInv, SyncTypes
<1> SUFFICES ASSUME NEW c \in Crns PROVE ranked'[c] = RankedAs(c)'
  OBVIOUS
<1>2. CASE sections'[c] = Absent
  <2>1. sections[c] = Absent
    BY <1>2, RestoreTypes
  <2> QED BY <1>1, <1>2, <2>1 DEF Reranked, RankedAs
<1>3. CASE sections'[c] # Absent
  <2>1. sections'[c].course \in Courses /\ sections'[c].removed \in BOOLEAN
    BY <1>1, <1>3 DEF Tables, SectionRecs
  <2> QED BY <1>1, <1>3, <2>1 DEF Reranked, RankedAs
<1> QED BY <1>2, <1>3

RankInv == TypesInv /\ NothingIngested /\ \A c \in Crns : ranked[c] = RankedAs(c)

LEMMA RankInvHolds ==
  ASSUME NoIngests
  PROVE  Spec => []RankInv
<1>1. Init => RankInv
  BY InitTypes, InitIngests DEF RankInv, Init, RankedAs
<1>2. RankInv /\ [Next]_syncVars => RankInv'
  <2> SUFFICES ASSUME RankInv, [Next]_syncVars PROVE RankInv'
    OBVIOUS
  <2>1. TypesInv' /\ NothingIngested'
    BY TypesStep, StepIngests DEF RankInv
  <2>2. CASE UNCHANGED <<sections, observations, ranked, courses, lastSuccess>>
    BY <2>1, <2>2 DEF RankInv, RankedAs
  <2> QED BY <2>1, <2>2, WritersOfSections, CommitRanks, RestoreRanks DEF RankInv
<1> QED BY <1>1, <1>2, PTL DEF Spec

(* Search serves exactly the live sections with their current columns, for any number
   of workers and operators, whatever they knew when they planned, although each sweep
   rebuilds only the courses it touched, when no narrow ingest writes beside them. *)
THEOREM RankingsMatch ==
  ASSUME NoIngests
  PROVE  Spec => []RankingsMatchSections
<1>1. RankInv => RankingsMatchSections
  BY DEF RankInv, RankedAs, RankingsMatchSections, Active, Present
<1> QED BY <1>1, RankInvHolds, PTL

---------------------------------------------------------------------------
(* One kept state: a worker alone, or operators without a worker.  A second sweeper
   can change a section's details in between without moving the fingerprint. *)

OneCache ==
  /\ NoIngests
  /\ Workers = {} \/ (OnceOps = {} /\ \E w : Workers = {w})

RemovedSet == {c \in Present : sections[c].removed}

KnowsTerm ==
  txn # NoTxn => /\ txn.at = clock
                 /\ txn.phase # "load" => txn.known = TermSections

(* A kept state is the database, or a restore has lowered the number of removed
   sections in its fingerprint since *)
KeptFits ==
  \A w \in Workers : cache[w] # NoState =>
    /\ cache[w].fingerprint[2] \in Nat
    /\ \/ cache[w].known = TermSections /\ cache[w].fingerprint = TermFingerprint
       \/ Cardinality(RemovedSet) < cache[w].fingerprint[2]

ObservedBefore ==
  \A c \in Present : sections[c].nameAt <= clock /\ sections[c].snapshotAt <= clock

CurrentInv == TypesInv /\ NothingIngested /\ KnowsTerm /\ KeptFits /\ ObservedBefore

LEMMA FingerprintCounts ==
  ASSUME sections \in Tables
  PROVE  TermFingerprint[2] = Cardinality(RemovedSet) /\ Cardinality(RemovedSet) \in Nat
<1>1. RemovedSet \subseteq Crns
  BY DEF RemovedSet, Present
<1>2. Cardinality(RemovedSet) \in Nat
  BY <1>1, SyncAssumption, FS_Subset, FS_CardinalityType
<1> QED BY <1>2 DEF TermFingerprint, FingerprintOf, RemovedSet, Present

(* A kept state that still fits is the database *)
LEMMA FittingIsCurrent ==
  ASSUME CurrentInv, NEW w \in Workers, cache[w] # NoState, cache[w].fingerprint = TermFingerprint
  PROVE  cache[w].known = TermSections
<1>1. TermFingerprint[2] = Cardinality(RemovedSet) /\ Cardinality(RemovedSet) \in Nat
  BY FingerprintCounts DEF CurrentInv, TypesInv, SyncTypes
<1> QED BY <1>1 DEF CurrentInv, KeptFits

(* What a sweep keeps is what it left: of a section it did not touch nothing has changed *)
LEMMA KeptIsTerm ==
  ASSUME TypesInv, NEW added \in SUBSET Courses, CommitSweep(added), txn.known = TermSections
  PROVE  Reloaded(txn.known, Touched(txn.page, txn.known, courses \cup added), sections', observations')
           = [kept |-> TRUE, known |-> TermSections', fingerprint |-> TermFingerprint']
<1> DEFINE page == txn.page
<1> DEFINE known == txn.known
<1> DEFINE catalog == courses \cup added
<1> DEFINE ids == Touched(page, known, catalog)
<1>1. /\ page \in Pages /\ known \in Knowns /\ KnownIsPresent(known) /\ txn.at \in Nat
      /\ Inserts(page, known, catalog) \cap Present = {}
      /\ sections' = Applied(page, known, catalog, txn.at) /\ known = TermSections
  BY CommitWrites DEF CommitTable, TypesInv
<1>2. sections \in Tables /\ sections' \in Tables
  BY CommitTypes DEF TypesInv, SyncTypes
<1> HIDE DEF page, known, catalog
<1>3. ASSUME NEW c \in Crns
      PROVE  (IF c \in ids THEN Seen(sections'[c]) ELSE known[c])
               = IF sections'[c] = Absent THEN Absent ELSE Seen(sections'[c])
  <2>1. PlanWrites(sections'[c], c, page, known, catalog, txn.at)
    BY <1>1, <1>2, AppliedWrites
  <2>2. CASE c \in Inserts(page, known, catalog)
    <3>1. sections'[c] = NewSection(page[c], txn.at) /\ page[c] \in Rows /\ c \in ids
      BY <1>1, <2>1, <2>2, PlanParts DEF PlanWrites, Touched, Structural
    <3>2. NewSection(page[c], txn.at) \in SectionRecs
      BY <1>1, <3>1, NewSectionType
    <3>3. sections'[c] # Absent
      BY <3>1, <3>2, AbsentIsNoRecord
    <3> QED BY <3>1, <3>3
  <2>3. CASE c \notin Inserts(page, known, catalog) /\ sections[c] = Absent
    <3>1. sections'[c] = Absent /\ known[c] = Absent
      BY <1>1, <1>2, <2>1, <2>3, TermKnowns DEF PlanWrites
    <3>2. c \notin ids
      BY <1>1, <2>3, <3>1, PlanParts, PlanSubsets DEF Touched, Structural
    <3> QED BY <3>1, <3>2
  <2>4. CASE sections[c] # Absent
    <3> DEFINE s == sections[c]
    <3> DEFINE t == sections'[c]
    <3>1. t # Absent /\ Written(s, t, c, page, known, txn.at) /\ known[c] = Seen(s)
      BY <1>1, <1>2, <2>1, <2>4, TermKnowns, AbsentIsNoRecord DEF PlanWrites, Written
    <3>2. ASSUME c \notin ids PROVE Seen(t) = Seen(s)
      <4>1. /\ c \notin Removals(page, known) /\ c \notin Restores(page, known)
            /\ c \notin NameAppends(page, known) /\ c \notin DetailUpdates(page, known)
            /\ c \notin SeatUpdates(page, known) /\ c \notin SnapshotAppends(page, known)
        BY <3>2 DEF Touched, Structural
      <4>2. t.removed = s.removed
        BY <2>1, <2>4, <4>1 DEF PlanWrites
      <4>3. /\ t.course = s.course /\ t.details = s.details /\ t.seats = s.seats
            /\ t.name = s.name /\ t.snapshot = s.snapshot
        BY <3>1, <4>1 DEF Written
      <4> HIDE DEF s, t
      <4> QED BY <4>2, <4>3 DEF Seen
    <3> QED BY <3>1, <3>2
  <2> QED BY <2>2, <2>3, <2>4
<1>4. [c \in Crns |-> IF c \in ids THEN Seen(sections'[c]) ELSE known[c]] = TermSections'
  BY <1>3 DEF TermSections
<1>5. FingerprintOf(sections', observations') = TermFingerprint'
  BY DEF TermFingerprint, FingerprintOf
<1> QED BY <1>4, <1>5 DEF Reloaded, known, page, catalog

LEMMA CommitObserved ==
  ASSUME TypesInv, ObservedBefore, NEW added \in SUBSET Courses, CommitSweep(added)
  PROVE  ObservedBefore'
<1> DEFINE page == txn.page
<1> DEFINE known == txn.known
<1> DEFINE catalog == courses \cup added
<1>1. /\ page \in Pages /\ known \in Knowns /\ KnownIsPresent(known) /\ txn.at \in Nat
      /\ Inserts(page, known, catalog) \cap Present = {}
      /\ sections' = Applied(page, known, catalog, txn.at) /\ clock' = clock
  BY CommitWrites DEF CommitTable, TypesInv
<1>2. sections \in Tables /\ txn.at <= clock
  BY CommitWrites DEF TypesInv, SyncTypes, TxnShape
<1> HIDE DEF page, known, catalog
<1> SUFFICES ASSUME NEW c \in Crns, sections'[c] # Absent
             PROVE  sections'[c].nameAt <= clock /\ sections'[c].snapshotAt <= clock
  BY <1>1 DEF ObservedBefore, Present
<1>3. PlanWrites(sections'[c], c, page, known, catalog, txn.at)
  BY <1>1, <1>2, AppliedWrites
<1>4. CASE sections[c] = Absent
  <2>1. sections'[c] = NewSection(page[c], txn.at)
    BY <1>3, <1>4 DEF PlanWrites
  <2> QED BY <1>2, <2>1 DEF NewSection
<1>5. CASE sections[c] # Absent
  <2>1. sections[c].nameAt <= clock /\ sections[c].snapshotAt <= clock
    BY <1>5 DEF ObservedBefore, Present
  <2>2. Written(sections[c], sections'[c], c, page, known, txn.at)
    BY <1>3, <1>5 DEF PlanWrites
  <2> QED BY <1>2, <2>1, <2>2 DEF Written
<1> QED BY <1>4, <1>5

(* The columns of a section a restore leaves alone *)
LEMMA RestoreKeeps ==
  ASSUME TypesInv, NEW requested \in SUBSET Crns, RestoreCrns(requested), NEW c \in Crns,
         sections[c] # Absent
  PROVE  /\ sections'[c] # Absent
         /\ sections'[c].nameAt = sections[c].nameAt /\ sections'[c].snapshotAt = sections[c].snapshotAt
         /\ sections'[c].name = sections[c].name /\ sections'[c].snapshot = sections[c].snapshot
         /\ sections'[c].removed => sections[c].removed
<1>1. sections[c] \in SectionRecs
  BY DEF TypesInv, SyncTypes, Tables
<1>2. sections'[c] = sections[c] \/ sections'[c] = [sections[c] EXCEPT !.removed = FALSE]
  BY DEF RestoreCrns
<1> QED BY <1>1, <1>2, RestoreTypes DEF SectionRecs

LEMMA RestoreLowersCount ==
  ASSUME TypesInv, NEW requested \in SUBSET Crns, RestoreCrns(requested)
  PROVE  /\ Cardinality(RemovedSet)' \in Nat /\ Cardinality(RemovedSet) \in Nat
         /\ Cardinality(RemovedSet)' < Cardinality(RemovedSet)
<1> DEFINE restorable == {c \in requested \cap Present : sections[c].removed}
<1>1. sections \in Tables /\ sections' \in Tables
  BY RestoreTypes DEF TypesInv, SyncTypes
<1>2. PICK d \in Crns : d \in requested \cap Present /\ sections[d].removed
  BY DEF RestoreCrns
<1>3. sections[d] \in SectionRecs /\ sections'[d] = [sections[d] EXCEPT !.removed = FALSE]
  BY <1>1, <1>2 DEF RestoreCrns, Present, Tables
<1>4. ~sections'[d].removed
  BY <1>3 DEF SectionRecs
<1>5. RemovedSet' \subseteq RemovedSet /\ d \in RemovedSet /\ d \notin RemovedSet'
  <2>1. ASSUME NEW c \in Crns, sections'[c] # Absent, sections'[c].removed
        PROVE  sections[c] # Absent /\ sections[c].removed
    <3>1. sections[c] # Absent
      BY <2>1 DEF RestoreCrns, Present
    <3> QED BY <2>1, <3>1, RestoreKeeps
  <2> QED BY <1>2, <1>4, <2>1 DEF RemovedSet, Present
<1>6. IsFiniteSet(RemovedSet)
  BY SyncAssumption, FS_Subset DEF RemovedSet, Present
<1>7. /\ IsFiniteSet(RemovedSet') /\ Cardinality(RemovedSet') <= Cardinality(RemovedSet)
      /\ Cardinality(RemovedSet') # Cardinality(RemovedSet)
  BY <1>5, <1>6, FS_Subset
<1>8. Cardinality(RemovedSet') \in Nat /\ Cardinality(RemovedSet) \in Nat
  BY <1>6, <1>7, FS_CardinalityType
<1> QED BY <1>7, <1>8

LEMMA InitCurrent == Init => CurrentInv
<1> SUFFICES ASSUME Init PROVE CurrentInv
  OBVIOUS
<1>1. ObservedBefore /\ KnowsTerm /\ KeptFits
  BY DEF Init, ObservedBefore, Present, KnowsTerm, KeptFits
<1> QED BY <1>1, InitTypes, InitIngests DEF CurrentInv

LEMMA StepCurrent ==
  ASSUME OneCache, CurrentInv, [Next]_syncVars
  PROVE  CurrentInv'
<1>0. NoIngests /\ TypesInv /\ NothingIngested
  BY DEF OneCache, CurrentInv
<1>1. TypesInv' /\ NothingIngested' /\ ~BeginIngest /\ ~IngestProgress
  BY <1>0, TypesStep, StepIngests
<1>2. ASSUME NEW added \in SUBSET Courses, CommitSweep(added) PROVE CurrentInv'
  <2>1. txn.known = TermSections /\ txn' = NoTxn /\ clock' = clock /\ txn.by \in Sweepers
    BY <1>0, <1>2, CommitWrites DEF CurrentInv, KnowsTerm, TypesInv
  <2> DEFINE kept == Reloaded(txn.known, Touched(txn.page, txn.known, courses \cup added),
                              sections', observations')
  <2>2. kept = [kept |-> TRUE, known |-> TermSections', fingerprint |-> TermFingerprint']
    BY <1>0, <1>2, <2>1, KeptIsTerm
  <2>3. cache' = IF txn.by \in Workers THEN [cache EXCEPT ![txn.by] = kept] ELSE cache
    BY <1>2 DEF CommitSweep
  <2>4. TermFingerprint'[2] \in Nat
    <3>1. \A table \in Tables : \A written : FingerprintOf(table, written)[2] \in Nat
      <4> SUFFICES ASSUME NEW table \in Tables, NEW written PROVE FingerprintOf(table, written)[2] \in Nat
        OBVIOUS
      <4> DEFINE S == {c \in {d \in Crns : table[d] # Absent} : table[c].removed}
      <4>1. Cardinality(S) \in Nat
        BY SyncAssumption, FS_Subset, FS_CardinalityType
      <4> QED BY <4>1 DEF FingerprintOf
    <3>2. TermFingerprint' = FingerprintOf(sections', observations')
      BY DEF TermFingerprint, FingerprintOf
    <3> QED BY <1>1, <3>1, <3>2 DEF TypesInv, SyncTypes
  <2> HIDE DEF kept
  <2>5. ASSUME NEW w \in Workers
        PROVE  cache'[w].known = TermSections' /\ cache'[w].fingerprint = TermFingerprint'
    <3>1. txn.by = w
      BY <2>1, <2>5 DEF OneCache, Sweepers
    <3>2. cache'[w] = kept
      BY <1>0, <2>3, <3>1 DEF TypesInv, SyncTypes, CacheShape
    <3> QED BY <2>2, <3>2
  <2>6. KeptFits' /\ KnowsTerm'
    BY <2>1, <2>4, <2>5 DEF KeptFits, KnowsTerm
  <2> QED BY <1>1, <1>0, <1>2, <2>6, CommitObserved DEF CurrentInv
<1>3. ASSUME NEW requested \in SUBSET Crns, RestoreCrns(requested) PROVE CurrentInv'
  <2>1. txn = NoTxn /\ UNCHANGED <<txn, cache, clock, observations>>
    BY <1>3 DEF RestoreCrns
  <2>2. KeptFits'
    <3>1. /\ Cardinality(RemovedSet)' \in Nat /\ Cardinality(RemovedSet) \in Nat
          /\ Cardinality(RemovedSet)' < Cardinality(RemovedSet)
      BY <1>0, <1>3, RestoreLowersCount
    <3>2. ASSUME NEW w \in Workers, cache[w] # NoState
          PROVE  /\ cache[w].fingerprint[2] \in Nat
                 /\ Cardinality(RemovedSet) <= cache[w].fingerprint[2]
      <4>1. TermFingerprint[2] = Cardinality(RemovedSet)
        BY FingerprintCounts DEF CurrentInv, TypesInv, SyncTypes
      <4> QED BY <3>1, <3>2, <4>1 DEF CurrentInv, KeptFits
    <3> QED BY <2>1, <3>1, <3>2 DEF KeptFits
  <2>3. ObservedBefore'
    <3> SUFFICES ASSUME NEW c \in Crns, sections'[c] # Absent
                 PROVE  sections'[c].nameAt <= clock /\ sections'[c].snapshotAt <= clock
      BY <2>1 DEF ObservedBefore, Present
    <3>1. sections[c] # Absent
      BY <1>3 DEF RestoreCrns, Present
    <3> QED BY <1>0, <1>3, <3>1, RestoreKeeps DEF CurrentInv, ObservedBefore, Present
  <2>4. KnowsTerm'
    BY <2>1 DEF KnowsTerm
  <2> QED BY <1>1, <2>2, <2>3, <2>4 DEF CurrentInv
<1>4. ASSUME UNCHANGED <<sections, observations>>,
             ~(\E added \in SUBSET Courses : CommitSweep(added)),
             ~(\E requested \in SUBSET Crns : RestoreCrns(requested))
      PROVE  CurrentInv'
  <2>1. /\ TermSections' = TermSections /\ TermFingerprint' = TermFingerprint
        /\ RemovedSet' = RemovedSet /\ Present' = Present
    BY <1>4 DEF TermSections, TermFingerprint, FingerprintOf, RemovedSet, Present
  <2>2. clock \in Nat /\ \A c \in Present : sections[c].nameAt \in Nat /\ sections[c].snapshotAt \in Nat
    BY <1>0 DEF TypesInv, SyncTypes, Present, Tables, SectionRecs
  <2>3. clock' \in Nat /\ clock <= clock'
    BY <1>1, <1>4, <2>2 DEF Next, SweepProgress, ListingChanges, BeginSweep, ReuseState, LoadSections,
         LoadFingerprint, AbortSweep, Idle, syncVars
  <2>4. ObservedBefore'
    BY <1>4, <2>1, <2>2, <2>3 DEF ObservedBefore, CurrentInv
  <2>5. \A w \in Workers : cache'[w] = cache[w] \/ cache'[w] = NoState
    BY <1>0, <1>1, <1>4 DEF Next, SweepProgress, ListingChanges, BeginSweep, ReuseState, LoadSections,
         LoadFingerprint, AbortSweep, Idle, syncVars, TypesInv, SyncTypes, CacheShape
  <2>6. KeptFits'
    BY <2>1, <2>5 DEF KeptFits, CurrentInv
  <2>7. KnowsTerm'
    <3>1. ASSUME NEW p \in Sweepers, NEW override \in OperatorGates \cup {NoOverride},
                 BeginSweep(p, override)
          PROVE  KnowsTerm'
      BY <3>1 DEF BeginSweep, KnowsTerm
    <3>2. CASE ReuseState
      <4>1. /\ txn # NoTxn /\ txn.by \in Workers /\ cache[txn.by] # NoState
            /\ cache[txn.by].fingerprint = TermFingerprint /\ clock' = clock
        BY <3>2, NoTxnIsNone DEF ReuseState
      <4>2. cache[txn.by].known = TermSections
        BY <4>1, FittingIsCurrent
      <4>3. txn'.known = TermSections /\ txn'.at = txn.at
        BY <3>2, <4>1, <4>2, <1>0 DEF ReuseState, TypesInv, SyncTypes, TxnShape
      <4> QED BY <2>1, <4>1, <4>3 DEF KnowsTerm, CurrentInv
    <3>3. CASE LoadSections
      <4>1. txn # NoTxn /\ clock' = clock
        BY <3>3, NoTxnIsNone DEF LoadSections
      <4>2. txn'.known = TermSections /\ txn'.at = txn.at
        BY <3>3, <4>1, <1>0 DEF LoadSections, TypesInv, SyncTypes, TxnShape
      <4> QED BY <2>1, <4>1, <4>2 DEF KnowsTerm, CurrentInv
    <3>4. CASE LoadFingerprint
      <4>1. txn # NoTxn /\ clock' = clock /\ txn.phase = "fingerprint"
        BY <3>4, NoTxnIsNone DEF LoadFingerprint
      <4>2. txn'.known = txn.known /\ txn'.at = txn.at
        BY <3>4, <4>1, <1>0 DEF LoadFingerprint, TypesInv, SyncTypes, TxnShape
      <4> QED BY <2>1, <4>1, <4>2 DEF KnowsTerm, CurrentInv
    <3>5. CASE AbortSweep
      BY <3>5 DEF AbortSweep, KnowsTerm
    <3>6. CASE UNCHANGED <<txn, clock>>
      BY <2>1, <3>6 DEF KnowsTerm, CurrentInv
    <3>7. \/ \E p \in Sweepers, override \in OperatorGates \cup {NoOverride} : BeginSweep(p, override)
          \/ ReuseState \/ LoadSections \/ LoadFingerprint \/ AbortSweep
          \/ UNCHANGED <<txn, clock>>
      BY <1>1, <1>4 DEF Next, SweepProgress, ListingChanges, Idle, syncVars
    <3> QED BY <3>1, <3>2, <3>3, <3>4, <3>5, <3>6, <3>7
  <2> QED BY <1>1, <2>4, <2>6, <2>7 DEF CurrentInv
<1>5. \/ UNCHANGED <<sections, observations>>
      \/ \E added \in SUBSET Courses : CommitSweep(added)
      \/ \E requested \in SUBSET Crns : RestoreCrns(requested)
  BY <1>0, WritersOfSections
<1> QED BY <1>2, <1>3, <1>4, <1>5

LEMMA CurrentHolds ==
  ASSUME OneCache
  PROVE  Spec => []CurrentInv
<1>1. CurrentInv /\ [Next]_syncVars => CurrentInv'
  BY StepCurrent
<1> QED BY InitCurrent, <1>1, PTL DEF Spec

(* A worker's kept state whose fingerprint still fits is the database, although the
   fingerprint counts rows and reads none: a sweep keeps what it left, and a restore
   lowers the count of removed sections (SweepStateCache's contract). *)
THEOREM KeptStatesAreCurrent ==
  ASSUME OneCache
  PROVE  Spec => []KeptStateIsCurrent
<1>1. CurrentInv => KeptStateIsCurrent
  BY FittingIsCurrent DEF KeptStateIsCurrent
<1> QED BY <1>1, CurrentHolds, PTL

(* What a committed sweep leaves behind is the page it fetched, whether it planned from
   the database or from the state its worker kept. *)
THEOREM CommitsMirror ==
  ASSUME OneCache
  PROVE  Spec => MirrorsPage
<1>1. CurrentInv /\ [Next]_syncVars => [Commits => Mirrors(sections', txn.page, courses')]_syncVars
  <2> SUFFICES ASSUME CurrentInv, [Next]_syncVars, Commits PROVE Mirrors(sections', txn.page, courses')
    OBVIOUS
  <2>1. SyncTypes /\ KnownsPresent
    BY DEF CurrentInv, TypesInv
  <2>2. PICK added \in SUBSET Courses : CommitSweep(added)
    BY <2>1, CommitIsCommitSweep
  <2>3. txn # NoTxn /\ txn.phase = "plan"
    BY <2>1, <2>2, CommitWrites
  <2>4. txn.at = clock /\ txn.known = TermSections
    BY <2>3 DEF CurrentInv, KnowsTerm
  <2>5. \A c \in Present : sections[c].nameAt <= txn.at /\ sections[c].snapshotAt <= txn.at
    BY <2>4 DEF CurrentInv, ObservedBefore
  <2> QED BY <2>1, <2>2, <2>4, <2>5, KnowingCommitMirrors
<1> QED BY <1>1, CurrentHolds, PTL DEF Spec, MirrorsPage

---------------------------------------------------------------------------
(* The bound on removals *)

(* The live sections in scope that a sweep knows of are live and in scope *)
KnownIsLive(known) ==
  \A c \in ActiveInScope(known) : c \in Active /\ sections[c].course \in Undergraduate

LEMMA BoundedCommit ==
  ASSUME TypesInv, NEW added \in SUBSET Courses, CommitSweep(added), txn.override = NoOverride,
         KnownIsLive(txn.known)
  PROVE  LET scope == {c \in Active : sections[c].course \in Undergraduate}
         IN  100 * Cardinality({c \in scope : sections'[c].removed}) <= MaxMissing * Cardinality(scope)
<1> DEFINE page == txn.page
<1> DEFINE known == txn.known
<1> DEFINE catalog == courses \cup added
<1> DEFINE scope == {c \in Active : sections[c].course \in Undergraduate}
<1> DEFINE marked == {c \in scope : sections'[c].removed}
<1>1. /\ page \in Pages /\ known \in Knowns /\ KnownIsPresent(known) /\ txn.at \in Nat
      /\ Inserts(page, known, catalog) \cap Present = {}
      /\ sections' = Applied(page, known, catalog, txn.at)
      /\ GatePasses(GateInput(page, known, lastSuccess), txn.override)
  BY CommitWrites DEF CommitTable, TypesInv, GateOpen
<1>2. sections \in Tables
  BY DEF TypesInv, SyncTypes
<1>3. KnownIsLive(known)
  OBVIOUS
<1> HIDE DEF page, known, catalog
<1>4. marked \subseteq Removals(page, known)
  <2> SUFFICES ASSUME NEW c \in marked PROVE c \in Removals(page, known)
    OBVIOUS
  <2>1. c \in Crns /\ sections[c] # Absent /\ ~sections[c].removed /\ sections'[c].removed
    BY DEF Active, Present
  <2>2. PlanWrites(sections'[c], c, page, known, catalog, txn.at)
    BY <1>1, <1>2, <2>1, AppliedWrites
  <2> QED BY <2>1, <2>2 DEF PlanWrites
<1>5. ActiveInScope(known) \subseteq scope
  BY <1>3 DEF KnownIsLive
<1>6. Removals(page, known) \subseteq ActiveInScope(known)
  BY DEF Removals
<1>7. scope \subseteq Crns
  BY DEF Active, Present
<1> HIDE DEF marked, scope
<1>8. IsFiniteSet(scope) /\ IsFiniteSet(ActiveInScope(known)) /\ IsFiniteSet(Removals(page, known))
  BY <1>5, <1>6, <1>7, SyncAssumption, FS_Subset
<1> DEFINE m == Cardinality(marked)
<1> DEFINE r == Cardinality(Removals(page, known))
<1> DEFINE a == Cardinality(ActiveInScope(known))
<1> DEFINE n == Cardinality(scope)
<1>9. m <= r /\ r <= a /\ a <= n
  BY <1>4, <1>5, <1>6, <1>8, FS_Subset
<1>10. m \in Nat /\ r \in Nat /\ a \in Nat /\ n \in Nat
  BY <1>4, <1>8, FS_Subset, FS_CardinalityType
<1>11. a > 0 => 100 * r <= MaxMissing * a
  <2>1. GateThresholds(txn.override).missing = MaxMissing
    BY GateAssumption DEF GateThresholds, DefaultThresholds, NoOverride
  <2>2. MissingAllowed(GateInput(page, known, lastSuccess), GateThresholds(txn.override))
    BY <1>1 DEF GatePasses
  <2>3. /\ GateInput(page, known, lastSuccess).missing = r
        /\ GateInput(page, known, lastSuccess).active = a
    BY DEF GateInput, DbState
  <2> QED BY <2>1, <2>2, <2>3 DEF MissingAllowed
<1> HIDE DEF m, r, a, n
<1>12. MaxMissing \in Nat
  BY GateAssumption
<1>13. 100 * m <= MaxMissing * n
  <2>1. CASE a = 0
    <3>1. m = 0
      BY <1>9, <1>10, <2>1
    <3> QED BY <1>10, <1>12, <3>1
  <2>2. CASE a > 0
    <3>1. MaxMissing * a <= MaxMissing * n
      BY <1>9, <1>10, <1>12
    <3>2. 100 * m <= 100 * r
      BY <1>9, <1>10
    <3>3. 100 * r <= MaxMissing * a
      BY <1>11, <2>2
    <3> QED BY <1>10, <1>12, <3>1, <3>2, <3>3
  <2> QED BY <1>10, <2>1, <2>2
<1> QED BY <1>13 DEF m, n, marked, scope

(* Operators only, and a listing of nothing out of scope: an ingest may then write
   between a sweep's read and its commit *)
ScopedOperators == Workers = {} /\ \A row \in Rows : row.course \in Undergraduate

AllInScope == \A c \in Present : sections[c].course \in Undergraduate

KnowsLive ==
  txn # NoTxn /\ txn.phase # "load" =>
    \A c \in Crns : txn.known[c] # Absent /\ ~txn.known[c].removed => c \in Active

ScopedInv == TypesInv /\ AllInScope /\ KnowsLive

LEMMA WrittenByIngest ==
  ASSUME TypesInv, WriteIngest, NEW c \in Crns
  PROVE  \/ sections'[c] = sections[c]
         \/ /\ c \in DOMAIN ingest.rows /\ ingest.rows[c] \in Rows
            /\ sections'[c].course = ingest.rows[c].course /\ sections'[c].removed = FALSE
<1> DEFINE rows == ingest.rows
<1> DEFINE crns == DOMAIN rows
<1>1. sections'[c] = IF c \notin crns THEN sections[c]
                     ELSE IF sections[c] = Absent THEN NewSection(rows[c], ingest.at)
                     ELSE Overwritten(sections[c], rows[c], ingest.at)
  BY DEF WriteIngest
<1>2. ingest.at \in Nat /\ \A d \in crns : rows[d] \in Rows
  BY DEF WriteIngest, TypesInv, SyncTypes, IngestShape
<1> HIDE DEF rows
<1>3. ASSUME c \in crns, sections[c] = Absent
      PROVE  sections'[c].course = rows[c].course /\ sections'[c].removed = FALSE
  <2>1. rows[c] \in Rows /\ sections'[c] = NewSection(rows[c], ingest.at)
    BY <1>1, <1>2, <1>3
  <2> QED BY <2>1 DEF NewSection
<1>4. ASSUME c \in crns, sections[c] # Absent
      PROVE  sections'[c].course = rows[c].course /\ sections'[c].removed = FALSE
  <2> DEFINE s == sections[c]
  <2> DEFINE named == ObserveName(s, rows[c], ingest.at)
  <2> DEFINE observed == ObserveSeats(named, rows[c], ingest.at)
  <2>1. s \in SectionRecs /\ rows[c] \in Rows
    BY <1>2, <1>4 DEF TypesInv, SyncTypes, Tables
  <2>2. named \in SectionRecs
    BY <1>2, <2>1, NameObserved
  <2> HIDE DEF named
  <2>3. observed \in SectionRecs
    BY <1>2, <2>1, <2>2, SeatsObserved
  <2>4. sections'[c] = [observed EXCEPT !.course = rows[c].course, !.details = rows[c].details,
                                        !.seats = rows[c].seats, !.removed = FALSE]
    BY <1>1, <1>4 DEF Overwritten, named
  <2> HIDE DEF observed
  <2> QED BY <2>3, <2>4 DEF SectionRecs
<1> QED BY <1>1, <1>2, <1>3, <1>4 DEF rows

LEMMA CommitScoped ==
  ASSUME ScopedOperators, ScopedInv, NEW added \in SUBSET Courses, CommitSweep(added)
  PROVE  AllInScope'
<1> DEFINE page == txn.page
<1> DEFINE known == txn.known
<1> DEFINE catalog == courses \cup added
<1>1. /\ page \in Pages /\ known \in Knowns /\ KnownIsPresent(known) /\ txn.at \in Nat
      /\ Inserts(page, known, catalog) \cap Present = {}
      /\ sections' = Applied(page, known, catalog, txn.at)
  BY CommitWrites DEF CommitTable, TypesInv, ScopedInv
<1>2. sections \in Tables
  BY DEF ScopedInv, TypesInv, SyncTypes
<1> HIDE DEF page, known, catalog
<1> SUFFICES ASSUME NEW c \in Crns, sections'[c] # Absent
             PROVE  sections'[c].course \in Undergraduate
  BY DEF AllInScope, Present
<1>3. PlanWrites(sections'[c], c, page, known, catalog, txn.at)
  BY <1>1, <1>2, AppliedWrites
<1>4. CASE sections[c] = Absent
  <2>1. sections'[c] = NewSection(page[c], txn.at) /\ page[c] \in Rows
    BY <1>1, <1>3, <1>4, PlanParts DEF PlanWrites
  <2> DEFINE row == page[c]
  <2>a. row \in Rows /\ sections'[c] = NewSection(row, txn.at)
    BY <2>1
  <2> HIDE DEF row
  <2>2. sections'[c].course = row.course
    BY <2>a DEF NewSection
  <2> QED BY <2>a, <2>2 DEF ScopedOperators
<1>5. CASE sections[c] # Absent
  BY <1>3, <1>5 DEF PlanWrites, Written, ScopedInv, AllInScope, Present
<1> QED BY <1>4, <1>5

LEMMA StepScoped ==
  ASSUME ScopedOperators, ScopedInv, [Next]_syncVars
  PROVE  ScopedInv'
<1>1. TypesInv /\ TypesInv'
  BY TypesStep DEF ScopedInv
<1>2. ASSUME NEW added \in SUBSET Courses, CommitSweep(added) PROVE ScopedInv'
  <2>1. txn' = NoTxn
    BY <1>2 DEF CommitSweep
  <2> QED BY <1>1, <1>2, <2>1, CommitScoped DEF ScopedInv, KnowsLive
<1>3. ASSUME NEW requested \in SUBSET Crns, RestoreCrns(requested) PROVE ScopedInv'
  <2>1. txn' = NoTxn
    BY <1>3 DEF RestoreCrns
  <2>2. ASSUME NEW c \in Crns, sections'[c] # Absent PROVE sections'[c].course \in Undergraduate
    <3>1. sections[c] # Absent
      BY <1>3, <2>2 DEF RestoreCrns, Present
    <3>2. sections[c] \in SectionRecs
      BY <1>1, <3>1 DEF TypesInv, SyncTypes, Tables
    <3>3. sections'[c].course = sections[c].course
      BY <1>3, <3>2 DEF RestoreCrns, SectionRecs
    <3> QED BY <3>1, <3>3 DEF ScopedInv, AllInScope, Present
  <2> QED BY <1>1, <2>1, <2>2 DEF ScopedInv, AllInScope, KnowsLive, Present
<1>4. CASE WriteIngest
  <2>1. UNCHANGED txn
    BY <1>4 DEF WriteIngest
  <2>2. AllInScope'
    <3> SUFFICES ASSUME NEW c \in Crns, sections'[c] # Absent PROVE sections'[c].course \in Undergraduate
      BY DEF AllInScope, Present
    <3> QED BY <1>1, <1>4, WrittenByIngest DEF ScopedOperators, ScopedInv, AllInScope, Present
  <2>3. \A c \in Active : c \in Active'
    <3> SUFFICES ASSUME NEW c \in Crns, sections[c] # Absent, ~sections[c].removed
                 PROVE  sections'[c] # Absent /\ ~sections'[c].removed
      BY DEF Active, Present
    <3>1. sections'[c] # Absent
      BY <1>1, <1>4, IngestTypes DEF IngestProgress
    <3>2. ~sections'[c].removed
      BY <1>1, <1>4, WrittenByIngest
    <3> QED BY <3>1, <3>2
  <2> QED BY <1>1, <2>1, <2>2, <2>3 DEF ScopedInv, KnowsLive
<1>5. CASE UNCHANGED sections
  <2>1. AllInScope' /\ Active' = Active
    BY <1>5 DEF ScopedInv, AllInScope, Active, Present
  <2>2. KnowsLive'
    <3>1. CASE LoadSections
      <4>1. txn # NoTxn /\ txn.phase = "load"
        BY <3>1, NoTxnIsNone DEF LoadSections
      <4>2. txn'.known = TermSections
        BY <1>1, <3>1, <4>1 DEF LoadSections, TypesInv, SyncTypes, TxnShape
      <4>3. \A c \in Crns : TermSections[c] # Absent /\ ~TermSections[c].removed => c \in Active
        <5> SUFFICES ASSUME NEW c \in Crns, TermSections[c] # Absent, ~TermSections[c].removed
                     PROVE  c \in Active
          OBVIOUS
        <5>1. sections \in Tables
          BY <1>1 DEF TypesInv, SyncTypes
        <5>2. sections[c] # Absent /\ sections[c] \in SectionRecs
          BY <5>1, TermKnowns DEF Tables
        <5>3. TermSections[c].removed = sections[c].removed
          BY <5>1, <5>2, TermKnowns, SeenIsSeen
        <5> QED BY <5>2, <5>3 DEF Active, Present
      <4> QED BY <2>1, <4>2, <4>3 DEF KnowsLive
    <3>2. CASE LoadFingerprint
      <4>1. txn # NoTxn /\ txn.phase = "fingerprint"
        BY <3>2, NoTxnIsNone DEF LoadFingerprint
      <4>2. txn'.known = txn.known
        BY <1>1, <3>2, <4>1 DEF LoadFingerprint, TypesInv, SyncTypes, TxnShape
      <4> QED BY <2>1, <4>1, <4>2 DEF KnowsLive, ScopedInv
    <3>3. ~ReuseState
      BY DEF ReuseState, ScopedOperators
    <3>4. ASSUME txn'.phase = "load" \/ txn' = NoTxn PROVE KnowsLive'
      BY <3>4 DEF KnowsLive
    <3>5. CASE UNCHANGED txn
      BY <2>1, <3>5 DEF KnowsLive, ScopedInv
    <3>6. ASSUME NEW p \in Sweepers, NEW override \in OperatorGates \cup {NoOverride},
                 BeginSweep(p, override)
          PROVE  txn'.phase = "load"
      BY <3>6 DEF BeginSweep
    <3>7. AbortSweep => txn' = NoTxn
      BY DEF AbortSweep
    <3>8. ASSUME NEW added \in SUBSET Courses, CommitSweep(added) PROVE txn' = NoTxn
      BY <3>8 DEF CommitSweep
    <3>9. ASSUME ~(\E p \in Sweepers, override \in OperatorGates \cup {NoOverride} :
                     BeginSweep(p, override)),
                 ~SweepProgress
          PROVE  UNCHANGED txn
      BY <3>9 DEF Next, IngestProgress, ListingChanges, RestoreCrns, BeginIngest, FetchIngest,
         WriteIngest, RankIngest, FailIngest, Idle, syncVars
    <3> QED BY <3>1, <3>2, <3>3, <3>4, <3>5, <3>6, <3>7, <3>8, <3>9 DEF SweepProgress
  <2> QED BY <1>1, <2>1, <2>2 DEF ScopedInv
<1> QED BY <1>2, <1>3, <1>4, <1>5 DEF Next, SweepProgress, IngestProgress, ListingChanges,
           BeginSweep, ReuseState, LoadSections, LoadFingerprint, AbortSweep, BeginIngest, FetchIngest,
           RankIngest, FailIngest, Idle, syncVars

LEMMA ScopedHolds ==
  ASSUME ScopedOperators
  PROVE  Spec => []ScopedInv
<1>1. Init => ScopedInv
  <2> SUFFICES ASSUME Init PROVE ScopedInv
    OBVIOUS
  <2> QED BY InitTypes DEF Init, ScopedInv, AllInScope, KnowsLive, Present
<1>2. ScopedInv /\ [Next]_syncVars => ScopedInv'
  BY StepScoped
<1> QED BY <1>1, <1>2, PTL DEF Spec

(* Without an override no sweep marks more than MaxMissing percent of the live sections
   in scope removed: the gate counts what the sweep knows, the bound is about what the
   database has when it commits, also when an ingest wrote in between. *)
THEOREM RemovalsAreBounded ==
  ASSUME OneCache \/ ScopedOperators
  PROVE  Spec => RemovalsBounded
<1> DEFINE Known == TypesInv /\ (txn # NoTxn /\ txn.phase = "plan" => KnownIsLive(txn.known))
<1>1. ASSUME OneCache PROVE CurrentInv => Known
  <2> SUFFICES ASSUME CurrentInv, txn # NoTxn, txn.phase = "plan" PROVE KnownIsLive(txn.known)
    BY DEF CurrentInv
  <2>1. sections \in Tables /\ txn.known = TermSections
    BY DEF CurrentInv, TypesInv, SyncTypes, KnowsTerm
  <2> SUFFICES ASSUME NEW c \in ActiveInScope(TermSections)
               PROVE  c \in Active /\ sections[c].course \in Undergraduate
    BY <2>1 DEF KnownIsLive
  <2>2. c \in Crns /\ sections[c] # Absent /\ sections[c] \in SectionRecs
    BY <2>1, TermKnowns DEF ActiveInScope, Tables
  <2>3. TermSections[c].removed = sections[c].removed /\ TermSections[c].course = sections[c].course
    BY <2>1, <2>2, TermKnowns, SeenIsSeen
  <2> QED BY <2>2, <2>3 DEF ActiveInScope, Active, Present
<1>2. ScopedInv => Known
  BY DEF ScopedInv, KnowsLive, AllInScope, KnownIsLive, ActiveInScope, Active, Present
<1>3. Known /\ [Next]_syncVars =>
        [Commits /\ txn.override = NoOverride =>
           LET scope == {c \in Active : sections[c].course \in Undergraduate}
           IN  100 * Cardinality({c \in scope : sections'[c].removed})
                 <= MaxMissing * Cardinality(scope)]_syncVars
  <2> SUFFICES ASSUME Known, [Next]_syncVars, Commits, txn.override = NoOverride
               PROVE  LET scope == {c \in Active : sections[c].course \in Undergraduate}
                      IN  100 * Cardinality({c \in scope : sections'[c].removed})
                            <= MaxMissing * Cardinality(scope)
    OBVIOUS
  <2>1. PICK added \in SUBSET Courses : CommitSweep(added)
    BY CommitIsCommitSweep DEF TypesInv
  <2>2. KnownIsLive(txn.known)
    BY <2>1, CommitWrites DEF TypesInv
  <2> QED BY <2>1, <2>2, BoundedCommit
<1> HIDE DEF Known
<1>4. ASSUME OneCache PROVE Spec => []Known
  BY <1>1, <1>4, CurrentHolds, PTL
<1>5. ASSUME ScopedOperators PROVE Spec => []Known
  BY <1>2, <1>5, ScopedHolds, PTL
<1>6. Spec => []Known
  BY <1>4, <1>5
<1> QED BY <1>3, <1>6, PTL DEF Spec, RemovalsBounded

---------------------------------------------------------------------------
(* Appended observations *)

NamesAgree(known) == \A c \in Crns : known[c] # Absent => known[c].name = sections[c].name
SnapshotsAgree(known) == \A c \in Crns : known[c] # Absent => known[c].snapshot = sections[c].snapshot

TxnAgrees ==
  txn # NoTxn /\ txn.phase # "load" => NamesAgree(txn.known) /\ SnapshotsAgree(txn.known)

(* A kept state whose counts of observations still fit has the current ones: whoever
   appended one raised its count.  Its other columns may be stale. *)
KeptAgrees ==
  \A w \in Workers : cache[w] # NoState =>
    /\ cache[w].fingerprint[3] \in Nat /\ cache[w].fingerprint[3] <= observations.names
    /\ cache[w].fingerprint[4] \in Nat /\ cache[w].fingerprint[4] <= observations.snapshots
    /\ cache[w].fingerprint[3] = observations.names => NamesAgree(cache[w].known)
    /\ cache[w].fingerprint[4] = observations.snapshots => SnapshotsAgree(cache[w].known)

AppendInv == TypesInv /\ NothingIngested /\ TxnAgrees /\ KeptAgrees

LEMMA TermAgrees ==
  ASSUME sections \in Tables
  PROVE  NamesAgree(TermSections) /\ SnapshotsAgree(TermSections)
<1> SUFFICES ASSUME NEW c \in Crns, TermSections[c] # Absent
             PROVE  /\ TermSections[c].name = sections[c].name
                    /\ TermSections[c].snapshot = sections[c].snapshot
  BY DEF NamesAgree, SnapshotsAgree
<1>1. sections[c] # Absent /\ sections[c] \in SectionRecs
  BY TermKnowns DEF Tables
<1> QED BY <1>1, TermKnowns, SeenIsSeen

(* What a commit does to the observations of the sections that were there *)
LEMMA CommitCounts ==
  ASSUME TypesInv, NEW added \in SUBSET Courses, CommitSweep(added)
  PROVE  /\ observations'.names \in Nat /\ observations.names <= observations'.names
         /\ observations'.snapshots \in Nat /\ observations.snapshots <= observations'.snapshots
         /\ observations'.names = observations.names =>
              \A c \in Crns : sections[c] # Absent => sections'[c].name = sections[c].name
         /\ observations'.snapshots = observations.snapshots =>
              \A c \in Crns : sections[c] # Absent => sections'[c].snapshot = sections[c].snapshot
<1> DEFINE page == txn.page
<1> DEFINE known == txn.known
<1> DEFINE catalog == courses \cup added
<1> DEFINE i == Cardinality(Inserts(page, known, catalog))
<1> DEFINE n == Cardinality(NameAppends(page, known))
<1> DEFINE s == Cardinality(SnapshotAppends(page, known))
<1>1. /\ page \in Pages /\ known \in Knowns /\ KnownIsPresent(known) /\ txn.at \in Nat
      /\ Inserts(page, known, catalog) \cap Present = {}
      /\ sections' = Applied(page, known, catalog, txn.at)
  BY CommitWrites DEF CommitTable, TypesInv
<1>2. sections \in Tables /\ observations.names \in Nat /\ observations.snapshots \in Nat
  BY DEF TypesInv, SyncTypes
<1>3. observations' = [names |-> observations.names + i + n, snapshots |-> observations.snapshots + i + s]
  BY DEF CommitSweep
<1> HIDE DEF page, known, catalog
<1>4. /\ IsFiniteSet(Inserts(page, known, catalog)) /\ IsFiniteSet(NameAppends(page, known))
      /\ IsFiniteSet(SnapshotAppends(page, known))
  <2>1. /\ Inserts(page, known, catalog) \subseteq Crns /\ NameAppends(page, known) \subseteq Crns
        /\ SnapshotAppends(page, known) \subseteq Crns
    BY <1>1, PlanParts, PlanSubsets
  <2> QED BY <2>1, SyncAssumption, FS_Subset
<1>5. i \in Nat /\ n \in Nat /\ s \in Nat
  BY <1>4, FS_CardinalityType
<1>6. (n = 0 => NameAppends(page, known) = {}) /\ (s = 0 => SnapshotAppends(page, known) = {})
  BY <1>4, FS_EmptySet
<1>7. ASSUME NEW c \in Crns, sections[c] # Absent
      PROVE  /\ NameAppends(page, known) = {} => sections'[c].name = sections[c].name
             /\ SnapshotAppends(page, known) = {} => sections'[c].snapshot = sections[c].snapshot
  <2>1. Written(sections[c], sections'[c], c, page, known, txn.at)
    BY <1>1, <1>2, <1>7, AppliedWrites DEF PlanWrites
  <2> QED BY <2>1 DEF Written
<1> HIDE DEF i, n, s
<1>8. observations'.names = observations.names + i + n
  BY <1>3
<1>9. observations'.snapshots = observations.snapshots + i + s
  BY <1>3
<1>10. /\ observations'.names = observations.names => n = 0
       /\ observations'.snapshots = observations.snapshots => s = 0
  BY <1>2, <1>5, <1>8, <1>9
<1> QED BY <1>2, <1>5, <1>6, <1>7, <1>8, <1>9, <1>10

(* What a sweep keeps has the observations it left *)
LEMMA KeptObserves ==
  ASSUME TypesInv, NamesAgree(txn.known), SnapshotsAgree(txn.known),
         NEW added \in SUBSET Courses, CommitSweep(added),
         NEW k, k = Reloaded(txn.known, Touched(txn.page, txn.known, courses \cup added),
                             sections', observations'),
         NEW c \in Crns, k.known[c] # Absent
  PROVE  k.known[c].name = sections'[c].name /\ k.known[c].snapshot = sections'[c].snapshot
<1> DEFINE page == txn.page
<1> DEFINE known == txn.known
<1> DEFINE catalog == courses \cup added
<1>1. /\ page \in Pages /\ known \in Knowns /\ KnownIsPresent(known) /\ txn.at \in Nat
      /\ Inserts(page, known, catalog) \cap Present = {}
      /\ sections' = Applied(page, known, catalog, txn.at)
      /\ NamesAgree(known) /\ SnapshotsAgree(known)
  BY CommitWrites DEF CommitTable, TypesInv
<1>2. sections \in Tables
  BY DEF TypesInv, SyncTypes
<1>3. k.known[c] = IF c \in Touched(page, known, catalog) THEN Seen(sections'[c]) ELSE known[c]
  BY DEF Reloaded
<1> HIDE DEF page, known, catalog
<1>4. CASE c \in Touched(page, known, catalog)
  BY <1>3, <1>4 DEF Seen
<1>5. CASE c \notin Touched(page, known, catalog)
  <2>1. known[c] # Absent /\ sections[c] # Absent
    BY <1>1, <1>3, <1>5 DEF KnownIsPresent
  <2>2. c \notin NameAppends(page, known) /\ c \notin SnapshotAppends(page, known)
    BY <1>5 DEF Touched, Structural
  <2>3. Written(sections[c], sections'[c], c, page, known, txn.at)
    BY <1>1, <1>2, <2>1, AppliedWrites DEF PlanWrites
  <2>4. sections'[c].name = sections[c].name /\ sections'[c].snapshot = sections[c].snapshot
    BY <2>2, <2>3 DEF Written
  <2> QED BY <1>1, <1>3, <1>5, <2>1, <2>4 DEF NamesAgree, SnapshotsAgree
<1> QED BY <1>4, <1>5

LEMMA CommitAgrees ==
  ASSUME AppendInv, NEW added \in SUBSET Courses, CommitSweep(added)
  PROVE  KeptAgrees'
<1>1. TypesInv /\ txn' = NoTxn /\ NamesAgree(txn.known) /\ SnapshotsAgree(txn.known)
  <2>1. txn # NoTxn /\ txn.phase = "plan" /\ txn' = NoTxn
    BY CommitWrites DEF AppendInv, TypesInv
  <2> QED BY <2>1 DEF AppendInv, TxnAgrees
<1> DEFINE kept == Reloaded(txn.known, Touched(txn.page, txn.known, courses \cup added),
                            sections', observations')
<1>2. cache' = IF txn.by \in Workers THEN [cache EXCEPT ![txn.by] = kept] ELSE cache
  BY DEF CommitSweep
<1>3. kept.fingerprint[3] = observations'.names /\ kept.fingerprint[4] = observations'.snapshots
  BY DEF Reloaded, FingerprintOf
<1>4. \A c \in Crns : kept.known[c] # Absent =>
        kept.known[c].name = sections'[c].name /\ kept.known[c].snapshot = sections'[c].snapshot
  BY <1>1, KeptObserves
<1> HIDE DEF kept
<1>5. \A w \in Workers : cache'[w] = cache[w] \/ cache'[w] = kept
  BY <1>1, <1>2 DEF TypesInv, SyncTypes, CacheShape
<1>6. /\ observations'.names \in Nat /\ observations.names <= observations'.names
      /\ observations'.snapshots \in Nat /\ observations.snapshots <= observations'.snapshots
      /\ observations'.names = observations.names =>
           \A c \in Crns : sections[c] # Absent => sections'[c].name = sections[c].name
      /\ observations'.snapshots = observations.snapshots =>
           \A c \in Crns : sections[c] # Absent => sections'[c].snapshot = sections[c].snapshot
  BY <1>1, CommitCounts
<1>7. observations.names \in Nat /\ observations.snapshots \in Nat
  BY <1>1 DEF TypesInv, SyncTypes
<1> DEFINE Fits(k, table, written) ==
      /\ k.fingerprint[3] \in Nat /\ k.fingerprint[3] <= written.names
      /\ k.fingerprint[4] \in Nat /\ k.fingerprint[4] <= written.snapshots
      /\ k.fingerprint[3] = written.names =>
           \A c \in Crns : k.known[c] # Absent => k.known[c].name = table[c].name
      /\ k.fingerprint[4] = written.snapshots =>
           \A c \in Crns : k.known[c] # Absent => k.known[c].snapshot = table[c].snapshot
<1>8. Fits(kept, sections', observations')
  BY <1>3, <1>4, <1>6
<1>9. ASSUME NEW w \in Workers, cache[w] # NoState
      PROVE  Fits(cache[w], sections', observations')
  <2>1. Fits(cache[w], sections, observations)
    BY <1>9 DEF AppendInv, KeptAgrees, NamesAgree, SnapshotsAgree
  <2>2. KnownIsPresent(cache[w].known)
    BY <1>1, <1>9 DEF TypesInv, KnownsPresent
  <2> DEFINE f == cache[w].fingerprint
  <2>3. f[3] = observations'.names => f[3] = observations.names /\ observations'.names = observations.names
    BY <1>6, <1>7, <2>1
  <2>4. f[4] = observations'.snapshots =>
          f[4] = observations.snapshots /\ observations'.snapshots = observations.snapshots
    BY <1>6, <1>7, <2>1
  <2>5. f[3] <= observations'.names /\ f[4] <= observations'.snapshots
    BY <1>6, <1>7, <2>1
  <2>6. f[3] = observations'.names =>
          \A c \in Crns : cache[w].known[c] # Absent => cache[w].known[c].name = sections'[c].name
    BY <1>6, <2>1, <2>2, <2>3 DEF KnownIsPresent
  <2>7. f[4] = observations'.snapshots =>
          \A c \in Crns : cache[w].known[c] # Absent => cache[w].known[c].snapshot = sections'[c].snapshot
    BY <1>6, <2>1, <2>2, <2>4 DEF KnownIsPresent
  <2> QED BY <2>1, <2>5, <2>6, <2>7
<1>10. \A w \in Workers : cache'[w] # NoState => Fits(cache'[w], sections', observations')
  BY <1>5, <1>8, <1>9
<1> QED BY <1>10 DEF KeptAgrees, NamesAgree, SnapshotsAgree

LEMMA StepAppends ==
  ASSUME NoIngests, AppendInv, [Next]_syncVars
  PROVE  AppendInv'
<1>1. TypesInv /\ TypesInv' /\ NothingIngested' /\ ~BeginIngest /\ ~IngestProgress
  BY TypesStep, StepIngests DEF AppendInv
<1>2. ASSUME NEW added \in SUBSET Courses, CommitSweep(added) PROVE AppendInv'
  <2>1. txn' = NoTxn
    BY <1>2 DEF CommitSweep
  <2> QED BY <1>1, <1>2, <2>1, CommitAgrees DEF AppendInv, TxnAgrees
<1>3. ASSUME NEW requested \in SUBSET Crns, RestoreCrns(requested) PROVE AppendInv'
  <2>1. txn' = NoTxn /\ UNCHANGED <<cache, observations>>
    BY <1>3 DEF RestoreCrns
  <2>2. \A c \in Crns : sections[c] # Absent =>
          sections'[c].name = sections[c].name /\ sections'[c].snapshot = sections[c].snapshot
    BY <1>1, <1>3, RestoreKeeps
  <2>3. \A w \in Workers : cache[w] # NoState => KnownIsPresent(cache[w].known)
    BY <1>1 DEF TypesInv, KnownsPresent
  <2>4. KeptAgrees'
    BY <2>1, <2>2, <2>3 DEF AppendInv, KeptAgrees, NamesAgree, SnapshotsAgree, KnownIsPresent
  <2> QED BY <1>1, <2>1, <2>4 DEF AppendInv, TxnAgrees
<1>4. ASSUME UNCHANGED <<sections, observations>>,
             ~(\E added \in SUBSET Courses : CommitSweep(added)),
             ~(\E requested \in SUBSET Crns : RestoreCrns(requested))
      PROVE  AppendInv'
  <2>1. \A w \in Workers : cache'[w] = cache[w] \/ cache'[w] = NoState
    BY <1>1, <1>4 DEF Next, SweepProgress, ListingChanges, BeginSweep, ReuseState, LoadSections,
         LoadFingerprint, AbortSweep, Idle, syncVars, TypesInv, SyncTypes, CacheShape
  <2>2. KeptAgrees'
    BY <1>4, <2>1 DEF AppendInv, KeptAgrees, NamesAgree, SnapshotsAgree
  <2>3. TxnAgrees'
    <3>1. CASE ReuseState
      <4>1. /\ txn # NoTxn /\ txn.by \in Workers /\ cache[txn.by] # NoState
            /\ cache[txn.by].fingerprint = TermFingerprint
        BY <3>1, NoTxnIsNone DEF ReuseState
      <4>2. TermFingerprint[3] = observations.names /\ TermFingerprint[4] = observations.snapshots
        BY DEF TermFingerprint, FingerprintOf
      <4>3. NamesAgree(cache[txn.by].known) /\ SnapshotsAgree(cache[txn.by].known)
        BY <4>1, <4>2 DEF AppendInv, KeptAgrees
      <4>4. txn'.known = cache[txn.by].known
        BY <1>1, <3>1, <4>1 DEF ReuseState, TypesInv, SyncTypes, TxnShape
      <4> QED BY <1>4, <4>3, <4>4 DEF TxnAgrees, NamesAgree, SnapshotsAgree
    <3>2. CASE LoadSections
      <4>1. txn # NoTxn
        BY <3>2, NoTxnIsNone DEF LoadSections
      <4>2. txn'.known = TermSections
        BY <1>1, <3>2, <4>1 DEF LoadSections, TypesInv, SyncTypes, TxnShape
      <4>3. NamesAgree(TermSections) /\ SnapshotsAgree(TermSections)
        BY <1>1, TermAgrees DEF TypesInv, SyncTypes
      <4> QED BY <1>4, <4>2, <4>3 DEF TxnAgrees, NamesAgree, SnapshotsAgree
    <3>3. CASE LoadFingerprint
      <4>1. txn # NoTxn /\ txn.phase = "fingerprint"
        BY <3>3, NoTxnIsNone DEF LoadFingerprint
      <4>2. txn'.known = txn.known
        BY <1>1, <3>3, <4>1 DEF LoadFingerprint, TypesInv, SyncTypes, TxnShape
      <4> QED BY <1>4, <4>1, <4>2 DEF AppendInv, TxnAgrees, NamesAgree, SnapshotsAgree
    <3>4. ASSUME NEW p \in Sweepers, NEW override \in OperatorGates \cup {NoOverride},
                 BeginSweep(p, override)
          PROVE  TxnAgrees'
      BY <3>4 DEF BeginSweep, TxnAgrees
    <3>5. CASE AbortSweep
      BY <3>5 DEF AbortSweep, TxnAgrees
    <3>6. CASE UNCHANGED txn
      BY <1>4, <3>6 DEF AppendInv, TxnAgrees, NamesAgree, SnapshotsAgree
    <3>7. \/ \E p \in Sweepers, override \in OperatorGates \cup {NoOverride} : BeginSweep(p, override)
          \/ ReuseState \/ LoadSections \/ LoadFingerprint \/ AbortSweep
          \/ UNCHANGED txn
      BY <1>1, <1>4 DEF Next, SweepProgress, ListingChanges, Idle, syncVars
    <3> QED BY <3>1, <3>2, <3>3, <3>4, <3>5, <3>6, <3>7
  <2> QED BY <1>1, <2>2, <2>3 DEF AppendInv
<1>5. \/ UNCHANGED <<sections, observations>>
      \/ \E added \in SUBSET Courses : CommitSweep(added)
      \/ \E requested \in SUBSET Crns : RestoreCrns(requested)
  BY <1>1, WritersOfSections DEF AppendInv
<1> QED BY <1>2, <1>3, <1>4, <1>5

LEMMA AppendsHold ==
  ASSUME NoIngests
  PROVE  Spec => []AppendInv
<1>1. Init => AppendInv
  <2> SUFFICES ASSUME Init PROVE AppendInv
    OBVIOUS
  <2>1. TxnAgrees /\ KeptAgrees
    BY DEF Init, TxnAgrees, KeptAgrees
  <2> QED BY <2>1, InitTypes, InitIngests DEF AppendInv
<1>2. AppendInv /\ [Next]_syncVars => AppendInv'
  BY StepAppends
<1> QED BY <1>1, <1>2, PTL DEF Spec

(* A sweep appends an observation only where it differs from the one it supersedes, for
   any number of workers and operators: whoever appended one since a worker kept its
   state has moved the counts the worker compares, so a state that is reused may be stale
   in other columns but not in these. *)
THEOREM AppendsChange ==
  ASSUME NoIngests
  PROVE  Spec => AppendsAreChanges
<1>1. AppendInv /\ [Next]_syncVars =>
        [Commits =>
           \A c \in Present :
             /\ sections'[c].nameAt # sections[c].nameAt
                  => sections'[c].name # sections[c].name
             /\ sections'[c].snapshotAt # sections[c].snapshotAt
                  => sections'[c].snapshot # sections[c].snapshot]_syncVars
  <2> SUFFICES ASSUME AppendInv, [Next]_syncVars, Commits, NEW c \in Crns, sections[c] # Absent
               PROVE  /\ sections'[c].nameAt # sections[c].nameAt
                           => sections'[c].name # sections[c].name
                      /\ sections'[c].snapshotAt # sections[c].snapshotAt
                           => sections'[c].snapshot # sections[c].snapshot
    BY DEF Present
  <2>1. PICK added \in SUBSET Courses : CommitSweep(added)
    BY CommitIsCommitSweep DEF AppendInv, TypesInv
  <2> DEFINE page == txn.page
  <2> DEFINE known == txn.known
  <2> DEFINE catalog == courses \cup added
  <2>2. /\ page \in Pages /\ known \in Knowns /\ KnownIsPresent(known) /\ txn.at \in Nat
        /\ Inserts(page, known, catalog) \cap Present = {}
        /\ sections' = Applied(page, known, catalog, txn.at)
        /\ txn # NoTxn /\ txn.phase = "plan"
    BY <2>1, CommitWrites DEF CommitTable, AppendInv, TypesInv
  <2>3. NamesAgree(known) /\ SnapshotsAgree(known)
    BY <2>2 DEF AppendInv, TxnAgrees
  <2>4. sections \in Tables
    BY DEF AppendInv, TypesInv, SyncTypes
  <2> HIDE DEF page, known, catalog
  <2>5. Written(sections[c], sections'[c], c, page, known, txn.at)
    BY <2>2, <2>4, AppliedWrites DEF PlanWrites
  <2>6. c \in NameAppends(page, known) => page[c].name # sections[c].name
    BY <2>3 DEF NameAppends, Matched, NamesAgree
  <2>7. c \in SnapshotAppends(page, known) => page[c].seats # sections[c].snapshot
    BY <2>3 DEF SnapshotAppends, Matched, SnapshotsAgree
  <2> QED BY <2>5, <2>6, <2>7 DEF Written
<1> QED BY <1>1, AppendsHold, PTL DEF Spec, AppendsAreChanges

---------------------------------------------------------------------------
(* The gate around a sweep: the page USF returns, and the page just committed *)

CountInv == TypesInv /\ lastSuccess \in Nat \cup {NoSuccess}

LEMMA GateCounts ==
  ASSUME NEW page, NEW known
  PROVE  /\ Cardinality(InScope(page)) \in Nat
         /\ IsFiniteSet(ActiveInScope(known)) /\ Cardinality(ActiveInScope(known)) \in Nat
         /\ Cardinality(Removals(page, known)) \in Nat
         /\ Cardinality(Removals(page, known)) <= Cardinality(ActiveInScope(known))
         /\ IsFiniteSet({SubjectOf[known[c].course] : c \in ActiveInScope(known)})
<1>1. /\ InScope(page) \subseteq Crns /\ ActiveInScope(known) \subseteq Crns
      /\ Removals(page, known) \subseteq ActiveInScope(known)
  BY DEF InScope, ActiveInScope, Removals
<1>2. IsFiniteSet(InScope(page)) /\ IsFiniteSet(ActiveInScope(known))
  BY <1>1, FS_Subset, SyncAssumption
<1>3. /\ IsFiniteSet(Removals(page, known))
      /\ Cardinality(Removals(page, known)) <= Cardinality(ActiveInScope(known))
  BY <1>1, <1>2, FS_Subset
<1>4. IsFiniteSet({SubjectOf[known[c].course] : c \in ActiveInScope(known)})
  <2> DEFINE image == {SubjectOf[known[c].course] : c \in ActiveInScope(known)}
  <2> DEFINE f == [c \in ActiveInScope(known) |-> SubjectOf[known[c].course]]
  <2>1. f \in Surjection(ActiveInScope(known), image)
    BY DEF Surjection
  <2> HIDE DEF f, image
  <2>2. IsFiniteSet(image)
    BY <1>2, <2>1, FS_Surjection
  <2> QED BY <2>2 DEF image
<1> QED BY <1>2, <1>3, <1>4, FS_CardinalityType

LEMMA CountsHold == Spec => []CountInv
<1>1. Init => CountInv
  BY InitTypes DEF Init, CountInv
<1>2. CountInv /\ [Next]_syncVars => CountInv'
  <2> SUFFICES ASSUME CountInv, [Next]_syncVars PROVE CountInv'
    OBVIOUS
  <2>1. TypesInv'
    BY TypesStep DEF CountInv
  <2>2. ASSUME NEW added \in SUBSET Courses, CommitSweep(added) PROVE lastSuccess' \in Nat
    BY <2>2, GateCounts DEF CommitSweep
  <2>3. ASSUME ~(\E added \in SUBSET Courses : CommitSweep(added)) PROVE UNCHANGED lastSuccess
    BY <2>3 DEF Next, SweepProgress, IngestProgress, ListingChanges, BeginSweep, ReuseState,
       LoadSections, LoadFingerprint, AbortSweep, RestoreCrns, BeginIngest, FetchIngest,
       WriteIngest, RankIngest, FailIngest, Idle, syncVars
  <2> QED BY <2>1, <2>2, <2>3 DEF CountInv
<1> QED BY <1>1, <1>2, PTL DEF Spec

(* The recipe works in every state an operator can meet: whatever USF returns and
   whatever the database has come to hold, the chosen override clears the size rules. *)
THEOREM RecipesWork ==
  ASSUME MinRows = 100 - MaxMissing
  PROVE  Spec => []RecipeWorks
<1>1. CountInv => RecipeWorks
  <2> SUFFICES ASSUME CountInv PROVE ChosenOverrideClears(GateInput(usf, TermSections, lastSuccess))
    BY DEF RecipeWorks
  <2> DEFINE in == GateInput(usf, TermSections, lastSuccess)
  <2>1. WellFormed(in)
    BY GateCounts DEF CountInv, WellFormed, GateInput, DbState
  <2> HIDE DEF in
  <2>2. ChosenOverrideClears(in)
    BY <2>1, RecipeClears
  <2> QED BY <2>2 DEF in
<1> QED BY <1>1, CountsHold, PTL

(* A listing that keeps each CRN in one subject, although perhaps not in one course *)
ListedAtHome(page, Home) ==
  \A c \in Crns : page[c] # Unlisted => SubjectOf[page[c].course] = Home[c]

HomeInv(Home) ==
  /\ TypesInv
  /\ \A c \in Present : SubjectOf[sections[c].course] = Home[c]
  /\ txn # NoTxn => ListedAtHome(txn.page, Home)
  /\ ingest.stage = "write" =>
       \A c \in DOMAIN ingest.rows : SubjectOf[ingest.rows[c].course] = Home[c]

(* The courses the sections have after a commit: their own, or the page's *)
LEMMA CommitCourses ==
  ASSUME TypesInv, NEW added \in SUBSET Courses, CommitSweep(added),
         NEW c \in Crns, sections'[c] # Absent
  PROVE  \/ sections[c] # Absent /\ sections'[c].course = sections[c].course
         \/ c \in InScope(txn.page) /\ sections'[c].course = txn.page[c].course
<1> DEFINE page == txn.page
<1> DEFINE known == txn.known
<1> DEFINE catalog == courses \cup added
<1>1. /\ page \in Pages /\ known \in Knowns /\ KnownIsPresent(known) /\ txn.at \in Nat
      /\ Inserts(page, known, catalog) \cap Present = {}
      /\ sections' = Applied(page, known, catalog, txn.at)
  BY CommitWrites DEF CommitTable, TypesInv
<1>2. sections \in Tables
  BY DEF TypesInv, SyncTypes
<1> HIDE DEF page, known, catalog
<1>3. PlanWrites(sections'[c], c, page, known, catalog, txn.at)
  BY <1>1, <1>2, AppliedWrites
<1>4. CASE sections[c] = Absent
  <2>1. c \in Inserts(page, known, catalog) /\ sections'[c] = NewSection(page[c], txn.at)
    BY <1>3, <1>4 DEF PlanWrites
  <2>2. sections'[c].course = page[c].course
    BY <2>1 DEF NewSection
  <2> QED BY <1>1, <2>1, <2>2, PlanParts DEF page
<1>5. CASE sections[c] # Absent
  BY <1>3, <1>5 DEF PlanWrites, Written
<1> QED BY <1>4, <1>5

LEMMA HomeStart ==
  ASSUME NEW Home
  PROVE  Init => HomeInv(Home)
<1> SUFFICES ASSUME Init PROVE HomeInv(Home)
  OBVIOUS
<1>1. Present = {} /\ txn = NoTxn /\ ingest.stage = "none"
  BY NoTxnIsNone DEF Init, Present
<1> QED BY <1>1, InitTypes DEF HomeInv

LEMMA HomeStep ==
  ASSUME NEW Home, HomeInv(Home), ListedAtHome(usf, Home), [Next]_syncVars
  PROVE  HomeInv(Home)'
<1>1. TypesInv /\ TypesInv'
  BY TypesStep DEF HomeInv
<1>2. \A c \in Present' : SubjectOf[sections'[c].course] = Home[c]
  <2> SUFFICES ASSUME NEW c \in Crns, sections'[c] # Absent
               PROVE  SubjectOf[sections'[c].course] = Home[c]
    BY DEF Present
  <2>1. ASSUME NEW added \in SUBSET Courses, CommitSweep(added)
        PROVE  SubjectOf[sections'[c].course] = Home[c]
    <3>1. txn # NoTxn
      BY <1>1, <2>1, CommitWrites DEF TypesInv
    <3> QED BY <1>1, <2>1, <3>1, CommitCourses DEF HomeInv, ListedAtHome, InScope, Present
  <2>2. ASSUME NEW requested \in SUBSET Crns, RestoreCrns(requested)
        PROVE  SubjectOf[sections'[c].course] = Home[c]
    <3>1. sections[c] # Absent
      BY <2>2 DEF RestoreCrns, Present
    <3>2. sections[c] \in SectionRecs
      BY <1>1, <3>1 DEF TypesInv, SyncTypes, Tables
    <3>3. sections'[c].course = sections[c].course
      BY <2>2, <3>2 DEF RestoreCrns, SectionRecs
    <3> QED BY <3>1, <3>3 DEF HomeInv, Present
  <2>3. CASE WriteIngest
    <3>1. ingest.stage = "write"
      BY <2>3 DEF WriteIngest
    <3>2. CASE sections'[c] = sections[c]
      BY <3>2 DEF HomeInv, Present
    <3>3. CASE sections'[c] # sections[c]
      <4>1. c \in DOMAIN ingest.rows /\ sections'[c].course = ingest.rows[c].course
        BY <1>1, <2>3, <3>3, WrittenByIngest
      <4> QED BY <3>1, <4>1 DEF HomeInv
    <3> QED BY <3>2, <3>3
  <2>4. CASE UNCHANGED sections
    BY <2>4 DEF HomeInv, Present
  <2> QED BY <2>1, <2>2, <2>3, <2>4 DEF Next, SweepProgress, IngestProgress, ListingChanges,
             BeginSweep, ReuseState, LoadSections, LoadFingerprint, AbortSweep, BeginIngest,
             FetchIngest, RankIngest, FailIngest, Idle, syncVars
<1>3. txn' # NoTxn => ListedAtHome(txn'.page, Home)
  <2>1. ASSUME NEW p \in Sweepers, NEW override \in OperatorGates \cup {NoOverride},
               BeginSweep(p, override)
        PROVE  txn'.page = usf
    BY <2>1 DEF BeginSweep
  <2>2. CASE ReuseState \/ LoadSections \/ LoadFingerprint
    <3>1. txn # NoTxn
      BY <2>2, NoTxnIsNone DEF ReuseState, LoadSections, LoadFingerprint
    <3>2. txn'.page = txn.page
      BY <1>1, <2>2, <3>1 DEF ReuseState, LoadSections, LoadFingerprint, TypesInv, SyncTypes, TxnShape
    <3> QED BY <3>1, <3>2 DEF HomeInv
  <2>3. ASSUME NEW added \in SUBSET Courses, CommitSweep(added) PROVE txn' = NoTxn
    BY <2>3 DEF CommitSweep
  <2>4. AbortSweep => txn' = NoTxn
    BY DEF AbortSweep
  <2>5. CASE UNCHANGED txn
    BY <2>5 DEF HomeInv
  <2> QED BY <2>1, <2>2, <2>3, <2>4, <2>5 DEF Next, SweepProgress, IngestProgress, ListingChanges,
             RestoreCrns, BeginIngest, FetchIngest, WriteIngest, RankIngest, FailIngest, Idle, syncVars
<1>4. ingest'.stage = "write" =>
        \A c \in DOMAIN ingest'.rows : SubjectOf[ingest'.rows[c].course] = Home[c]
  <2>1. ASSUME NEW crns \in SUBSET Crns, FetchIngest(crns)
        PROVE  \A c \in DOMAIN ingest'.rows : SubjectOf[ingest'.rows[c].course] = Home[c]
    <3>1. ingest'.rows = [c \in crns |-> usf[c]] /\ \A c \in crns : usf[c] # Unlisted
      BY <2>1 DEF FetchIngest
    <3> QED BY <3>1 DEF ListedAtHome
  <2>2. CASE BeginIngest \/ WriteIngest \/ RankIngest \/ FailIngest
    <3>1. ingest'.stage \in {"fetch", "rank", "none"}
      BY <2>2, NoTxnIsNone DEF BeginIngest, WriteIngest, RankIngest, FailIngest
    <3> QED BY <3>1
  <2>3. CASE UNCHANGED ingest
    BY <2>3 DEF HomeInv
  <2> QED BY <2>1, <2>2, <2>3 DEF Next, SweepProgress, IngestProgress, ListingChanges, BeginSweep,
             ReuseState, LoadSections, LoadFingerprint, CommitSweep, AbortSweep, RestoreCrns, Idle,
             syncVars
<1> QED BY <1>1, <1>2, <1>3, <1>4 DEF HomeInv

(* A sweep that knew the term leaves nothing live in scope that its page does not list *)
LEMMA KnowingCommitRemoves ==
  ASSUME TypesInv, NEW added \in SUBSET Courses, CommitSweep(added), txn.known = TermSections
  PROVE  ActiveInScope(TermSections') \subseteq InScope(txn.page)
<1> DEFINE page == txn.page
<1> DEFINE known == txn.known
<1> DEFINE catalog == courses \cup added
<1>1. /\ page \in Pages /\ known \in Knowns /\ KnownIsPresent(known) /\ txn.at \in Nat
      /\ Inserts(page, known, catalog) \cap Present = {}
      /\ sections' = Applied(page, known, catalog, txn.at)
  BY CommitWrites DEF CommitTable, TypesInv
<1>2. sections \in Tables /\ sections' \in Tables
  BY CommitTypes DEF TypesInv, SyncTypes
<1> HIDE DEF page, known, catalog
<1> SUFFICES ASSUME NEW c \in ActiveInScope(TermSections'), c \notin InScope(page) PROVE FALSE
  BY DEF page
<1>3. /\ c \in Crns /\ TermSections'[c] # Absent
      /\ TermSections'[c].course \in Undergraduate /\ ~TermSections'[c].removed
  BY DEF ActiveInScope
<1>4. TermSections'[c] = IF sections'[c] = Absent THEN Absent ELSE Seen(sections'[c])
  BY <1>3 DEF TermSections
<1>5. /\ sections'[c] # Absent /\ sections'[c].course \in Undergraduate /\ ~sections'[c].removed
  BY <1>3, <1>4 DEF Seen
<1>6. PlanWrites(sections'[c], c, page, known, catalog, txn.at)
  BY <1>1, <1>2, <1>3, AppliedWrites
<1>7. c \notin Inserts(page, known, catalog) /\ c \notin Restores(page, known)
  BY DEF Inserts, Restores, Matched
<1>8. sections[c] # Absent /\ sections[c] \in SectionRecs
  BY <1>2, <1>3, <1>5, <1>6, <1>7 DEF PlanWrites, Tables
<1>9. sections'[c].course = sections[c].course
  BY <1>6, <1>8 DEF PlanWrites, Written
<1>10. /\ known[c] # Absent /\ known[c].course = sections[c].course
       /\ known[c].removed = sections[c].removed
  BY <1>2, <1>3, <1>8, TermKnowns, SeenIsSeen DEF known
<1>11. c \notin Removals(page, known)
  BY <1>5, <1>6, <1>7, <1>8 DEF PlanWrites
<1>12. sections[c].removed
  BY <1>3, <1>5, <1>9, <1>10, <1>11 DEF Removals, ActiveInScope
<1> QED BY <1>5, <1>6, <1>7, <1>8, <1>11, <1>12 DEF PlanWrites

(* Once a page has been committed, by whatever override, the default gate accepts it
   again, for every listing that keeps each CRN within one subject: sections keep the
   course they were inserted with, so only a CRN that changes its subject can leave a
   subject live that no listed section has. *)
THEOREM CommittedPagesPass ==
  ASSUME NEW Home
  PROVE  Spec /\ [](ListedAtHome(usf, Home)) => CommittedPageIsAccepted
<1>1. HomeInv(Home) /\ [Next]_syncVars =>
        [Commits /\ txn.known = TermSections =>
           GatePasses(GateInput(txn.page, TermSections', lastSuccess'), NoOverride)]_syncVars
  <2> SUFFICES ASSUME HomeInv(Home), [Next]_syncVars, Commits, txn.known = TermSections
               PROVE  GatePasses(GateInput(txn.page, TermSections', lastSuccess'), NoOverride)
    OBVIOUS
  <2> DEFINE page == txn.page
  <2> DEFINE active == ActiveInScope(TermSections')
  <2>1. PICK added \in SUBSET Courses : CommitSweep(added)
    BY CommitIsCommitSweep DEF HomeInv, TypesInv
  <2>2. active \subseteq InScope(page)
    BY <2>1, KnowingCommitRemoves DEF HomeInv
  <2>3. Removals(page, TermSections') = {} /\ Cardinality(Removals(page, TermSections')) = 0
    BY <2>2, FS_EmptySet DEF Removals
  <2>4. Cardinality(InScope(page)) > 0 /\ lastSuccess' = Cardinality(InScope(page))
    BY <2>1 DEF CommitSweep, GateOpen, GatePasses, GateInput
  <2> DEFINE live == {SubjectOf[TermSections'[c].course] : c \in active}
  <2> DEFINE listed == {SubjectOf[page[c].course] : c \in InScope(page)}
  <2>5. live \subseteq listed
    <3> SUFFICES ASSUME NEW c \in active PROVE SubjectOf[TermSections'[c].course] \in listed
      OBVIOUS
    <3>1. c \in Crns /\ c \in InScope(page) /\ TermSections'[c] # Absent
      BY <2>2 DEF ActiveInScope
    <3>2. TermSections'[c] = IF sections'[c] = Absent THEN Absent ELSE Seen(sections'[c])
      BY <3>1 DEF TermSections
    <3>3. sections'[c] # Absent /\ TermSections'[c].course = sections'[c].course
      BY <3>1, <3>2 DEF Seen
    <3>4. txn # NoTxn
      BY <2>1, CommitWrites DEF HomeInv, TypesInv
    <3>5. SubjectOf[page[c].course] = Home[c]
      BY <3>1, <3>4 DEF HomeInv, ListedAtHome, InScope
    <3>6. SubjectOf[sections'[c].course] = Home[c]
      BY <2>1, <3>1, <3>3, <3>5, CommitCourses DEF HomeInv, Present
    <3> QED BY <3>1, <3>3, <3>5, <3>6
  <2>6. /\ Cardinality(live \ listed) = 0 /\ Cardinality(live) \in Nat
        /\ Cardinality(active) \in Nat
    <3>1. live \ listed = {} /\ IsFiniteSet(live) /\ Cardinality(active) \in Nat
      BY <2>5, GateCounts
    <3> QED BY <3>1, FS_EmptySet, FS_CardinalityType
  <2> DEFINE in == GateInput(page, TermSections', lastSuccess')
  <2>7. /\ in.rows = Cardinality(InScope(page)) /\ in.missing = 0
        /\ in.active = Cardinality(active) /\ in.lastSuccess = Cardinality(InScope(page))
        /\ in.dbSubjects = live /\ in.subjects = listed
    BY <2>3, <2>4 DEF GateInput, DbState
  <2> HIDE DEF in, live, listed, active, page
  <2> DEFINE rows == Cardinality(InScope(page))
  <2>8. rows \in Nat
    BY GateCounts
  <2> HIDE DEF rows
  <2>9. /\ GateThresholds(NoOverride).missing \in 0..100 /\ GateThresholds(NoOverride).rows \in 0..100
        /\ GateThresholds(NoOverride).absent \in 0..100
    BY ThresholdsType DEF Overrides
  <2>10. EnoughRows(in, GateThresholds(NoOverride))
    <3>1. GateThresholds(NoOverride).rows * rows <= 100 * rows
      BY <2>8, <2>9, ProductMonotone
    <3> QED BY <2>7, <2>8, <3>1 DEF EnoughRows, rows
  <2>11. MissingAllowed(in, GateThresholds(NoOverride))
    <3>1. 0 <= GateThresholds(NoOverride).missing * Cardinality(active)
      BY <2>6, <2>9, ProductMonotone
    <3> QED BY <2>7, <3>1 DEF MissingAllowed
  <2>12. SubjectsPresent(in, GateThresholds(NoOverride))
    <3>1. (GateThresholds(NoOverride).absent * Cardinality(live)) \div 100 \in Int
      BY <2>6, <2>9
    <3> QED BY <2>6, <2>7, <3>1, GateAssumption DEF SubjectsPresent, Larger
  <2>13. GatePasses(in, NoOverride)
    BY <2>4, <2>7, <2>10, <2>11, <2>12 DEF GatePasses
  <2> QED BY <2>13 DEF in, page
<1> DEFINE AtHome == ListedAtHome(usf, Home)
<1>2. Init => HomeInv(Home)
  BY HomeStart
<1>3. HomeInv(Home) /\ AtHome /\ [Next]_syncVars => HomeInv(Home)'
  BY HomeStep
<1> HIDE DEF AtHome
<1>4. Spec /\ []AtHome => []HomeInv(Home)
  BY <1>2, <1>3, PTL DEF Spec
<1>5. Spec /\ []AtHome => CommittedPageIsAccepted
  BY <1>1, <1>4, PTL DEF Spec, CommittedPageIsAccepted
<1> QED BY <1>5 DEF AtHome

---------------------------------------------------------------------------
(* Least positions and inductions up to a bound *)

LEMMA LeastOf ==
  ASSUME NEW S \in SUBSET Nat, S # {}
  PROVE  Min(S) \in S /\ \A y \in S : Min(S) <= y
<1>1. PICK m \in S : \A y \in S : m <= y
  BY NatHasLeast
<1> QED BY <1>1 DEF Min

(* A set of numbers that has 0 and with each number below the bound the next *)
LEMMA UpTo ==
  ASSUME NEW n \in Nat, NEW S, 0 \in S, \A k \in 1..n : k - 1 \in S => k \in S
  PROVE  \A k \in 0..n : k \in S
<1> DEFINE Bad == {k \in 0..n : k \notin S}
<1> SUFFICES ASSUME Bad # {} PROVE FALSE
  OBVIOUS
<1>1. Bad \in SUBSET Nat
  OBVIOUS
<1>2. PICK m \in Bad : \A k \in Bad : m <= k
  BY <1>1, NatHasLeast
<1>3. m \in 1..n /\ m - 1 \in 0..n /\ m - 1 \notin Bad
  BY <1>2
<1> QED BY <1>2, <1>3

---------------------------------------------------------------------------
(* Positions in order *)

(* How many positions of D lie behind a, up to b *)
Within(D, a, b) == {p \in D : a < p /\ p <= b}

LEMMA WithinIs ==
  ASSUME NEW n \in Nat, NEW D \in SUBSET (1..n), NEW a \in Nat, NEW b \in Nat
  PROVE  \A p \in Nat : p \in Within(D, a, b) <=> p \in D /\ a < p /\ p <= b
BY DEF Within

LEMMA WithinCounts ==
  ASSUME NEW n \in Nat, NEW D \in SUBSET (1..n), NEW a \in Nat, NEW b \in Nat
  PROVE  /\ IsFiniteSet(Within(D, a, b)) /\ Cardinality(Within(D, a, b)) \in Nat
         /\ IsFiniteSet(D) /\ Cardinality(D) \in Nat
         /\ Within(D, a, b) \in SUBSET Nat
         /\ n <= b => Within(D, 0, b) = D
         /\ b <= a => Cardinality(Within(D, a, b)) = 0
<1>1. IsFiniteSet(D)
  <2>1. IsFiniteSet(1..n)
    BY FS_Interval
  <2> QED BY <2>1, FS_Subset
<1>2. Within(D, a, b) \subseteq D /\ D \subseteq Nat
  BY DEF Within
<1>3. ASSUME n <= b PROVE Within(D, 0, b) = D
  <2>1. \A p \in Nat : p \in D => 0 < p /\ p <= b
    BY <1>3
  <2> QED BY <1>2, <2>1 DEF Within
<1>4. ASSUME b <= a PROVE Within(D, a, b) = {}
  <2>1. \A p \in Nat : ~(a < p /\ p <= b)
    BY <1>4
  <2> QED BY <1>2, <2>1 DEF Within
<1> QED BY <1>1, <1>2, <1>3, <1>4, FS_Subset, FS_CardinalityType, FS_EmptySet

LEMMA WithinAll ==
  ASSUME NEW n \in Nat, NEW D \in SUBSET (1..n)
  PROVE  Within(D, 0, n) = D
<1>1. Within(D, 0, n) \subseteq D
  BY DEF Within
<1>2. \A p \in D : 0 < p /\ p <= n
  OBVIOUS
<1> QED BY <1>1, <1>2 DEF Within

LEMMA WithinNone ==
  ASSUME NEW D \in SUBSET Nat, NEW a \in Nat
  PROVE  Within(D, a, a) = {} /\ Cardinality(Within(D, a, a)) = 0
<1>1. \A p \in Nat : ~(a < p /\ p <= a)
  OBVIOUS
<1>2. Within(D, a, a) = {}
  BY <1>1 DEF Within
<1> QED BY <1>2, FS_EmptySet

LEMMA WithinSplits ==
  ASSUME NEW n \in Nat, NEW D \in SUBSET (1..n),
         NEW a \in Nat, NEW c \in Nat, NEW b \in a..c
  PROVE  Cardinality(Within(D, a, c))
           = Cardinality(Within(D, a, b)) + Cardinality(Within(D, b, c))
<1> DEFINE ac == Within(D, a, c)
           ab == Within(D, a, b)
           bc == Within(D, b, c)
<1>b. b \in Nat /\ a <= b /\ b <= c
  OBVIOUS
<1>d. D \subseteq Nat
  OBVIOUS
<1>0. ac \subseteq Nat /\ ab \subseteq Nat /\ bc \subseteq Nat
  BY <1>d DEF Within
<1>1. \A p \in Nat : (p \in ac <=> p \in ab \/ p \in bc) /\ ~(p \in ab /\ p \in bc)
  BY <1>b DEF Within
<1>2. /\ IsFiniteSet(ab) /\ Cardinality(ab) \in Nat
      /\ IsFiniteSet(bc) /\ Cardinality(bc) \in Nat
  BY <1>b, WithinCounts
<1> HIDE DEF ac, ab, bc
<1>3. ac = ab \cup bc /\ ab \cap bc = {}
  BY <1>0, <1>1
<1>e. Cardinality(ab \cap bc) = 0
  BY <1>3, FS_EmptySet
<1>4. Cardinality(ac) = Cardinality(ab) + Cardinality(bc) - Cardinality(ab \cap bc)
  BY <1>2, <1>3, FS_Union
<1>5. Cardinality(ac) = Cardinality(ab) + Cardinality(bc)
  BY <1>2, <1>4, <1>e
<1> QED BY <1>5 DEF ac, ab, bc

LEMMA WithinOne ==
  ASSUME NEW n \in Nat, NEW D \in SUBSET (1..n), NEW p \in Nat, p > 0
  PROVE  Cardinality(Within(D, p - 1, p)) = IF p \in D THEN 1 ELSE 0
<1>1. \A q \in Nat : p - 1 < q /\ q <= p <=> q = p
  OBVIOUS
<1>2. \A q \in D : q \in Nat
  OBVIOUS
<1>3. Within(D, p - 1, p) = IF p \in D THEN {p} ELSE {}
  BY <1>1, <1>2 DEF Within
<1> QED BY <1>3, FS_Singleton, FS_EmptySet

(* The number of a position among those of D *)
Rank(D, p) == Cardinality(Within(D, 0, p))

LEMMA RankIs ==
  ASSUME NEW n \in Nat, NEW D \in SUBSET (1..n), NEW p
  PROVE  Cardinality({q \in D : q <= p}) = Rank(D, p)
<1>1. \A q \in D : q \in Nat /\ 0 < q
  OBVIOUS
<1>2. {q \in D : q <= p} = Within(D, 0, p)
  BY <1>1 DEF Within
<1> QED BY <1>2 DEF Rank

LEMMA RanksRise ==
  ASSUME NEW n \in Nat, NEW D \in SUBSET (1..n), NEW p \in Nat, NEW q \in Nat, p <= q
  PROVE  Rank(D, p) <= Rank(D, q) /\ Rank(D, p) \in Nat /\ Rank(D, q) \in Nat
<1>1. p \in 0..q /\ 0 \in Nat
  OBVIOUS
<1>2. Cardinality(Within(D, 0, q)) = Cardinality(Within(D, 0, p)) + Cardinality(Within(D, p, q))
  BY <1>1, WithinSplits
<1>3. /\ Cardinality(Within(D, 0, p)) \in Nat /\ Cardinality(Within(D, p, q)) \in Nat
      /\ Cardinality(Within(D, 0, q)) \in Nat
  BY <1>1, WithinCounts
<1> QED BY <1>2, <1>3 DEF Rank

LEMMA RanksGrow ==
  ASSUME NEW n \in Nat, NEW D \in SUBSET (1..n), NEW p \in Nat, p \in D
  PROVE  /\ Rank(D, p) \in 1..Cardinality(D)
         /\ \A q \in Nat : q < p => Rank(D, q) < Rank(D, p)
<1>0. p \in 1..n /\ p \in Nat /\ p - 1 \in Nat
  OBVIOUS
<1>1. \A q \in Nat : q < p => Rank(D, q) \in Nat /\ Rank(D, q) < Rank(D, p)
  <2> SUFFICES ASSUME NEW q \in Nat, q < p
               PROVE  Rank(D, q) \in Nat /\ Rank(D, q) < Rank(D, p)
    OBVIOUS
  <2>0. q \in 0..p /\ 0 \in Nat /\ p - 1 \in q..p
    BY <1>0
  <2>1. Rank(D, p) = Rank(D, q) + Cardinality(Within(D, q, p))
    BY <2>0, WithinSplits DEF Rank
  <2>2. Cardinality(Within(D, q, p)) = Cardinality(Within(D, q, p - 1)) + Cardinality(Within(D, p - 1, p))
    BY <1>0, <2>0, WithinSplits
  <2>3. Cardinality(Within(D, p - 1, p)) = 1
    BY <1>0, WithinOne
  <2>4. Cardinality(Within(D, q, p - 1)) \in Nat /\ Rank(D, q) \in Nat
    BY <1>0, WithinCounts DEF Rank
  <2> QED BY <2>1, <2>2, <2>3, <2>4
<1>2. Rank(D, 0) = 0 /\ Rank(D, p) \in Nat
  BY <1>0, WithinCounts DEF Rank
<1>3. Rank(D, p) >= 1
  BY <1>0, <1>1, <1>2
<1>4. Cardinality(D) = Rank(D, p) + Cardinality(Within(D, p, n))
  <2>1. Within(D, 0, n) = D
    BY WithinCounts
  <2>2. p \in 0..n /\ 0 \in Nat
    BY <1>0
  <2>3. Cardinality(Within(D, 0, n)) = Cardinality(Within(D, 0, p)) + Cardinality(Within(D, p, n))
    BY <2>2, WithinSplits
  <2> QED BY <2>1, <2>3 DEF Rank
<1>5. Cardinality(Within(D, p, n)) \in Nat
  BY <1>0, WithinCounts
<1> QED BY <1>1, <1>2, <1>3, <1>4, <1>5

(* InOrder numbers the positions by their ranks *)
LEMMA InOrderRanks ==
  ASSUME NEW n \in Nat, NEW D \in SUBSET (1..n)
  PROVE  /\ Cardinality(D) \in Nat
         /\ DOMAIN InOrder(D) = 1..Cardinality(D)
         /\ \A k \in 1..Cardinality(D) : InOrder(D)[k] \in D /\ Rank(D, InOrder(D)[k]) = k
         /\ \A p \in D : Rank(D, p) \in 1..Cardinality(D) /\ InOrder(D)[Rank(D, p)] = p
<1> DEFINE c == Cardinality(D)
<1> DEFINE f == [p \in D |-> Rank(D, p)]
<1>1. c \in Nat /\ IsFiniteSet(D)
  BY WithinCounts
<1> HIDE DEF c
<1>2. \A p \in D : Rank(D, p) \in 1..c
  BY RanksGrow DEF c
<1>3. \A p, q \in D : Rank(D, p) = Rank(D, q) => p = q
  <2> SUFFICES ASSUME NEW p \in D, NEW q \in D, p # q PROVE Rank(D, p) # Rank(D, q)
    OBVIOUS
  <2>1. p \in Nat /\ q \in Nat /\ Rank(D, p) \in Nat /\ Rank(D, q) \in Nat
    BY <1>1, <1>2
  <2>2. CASE p < q
    <3>1. Rank(D, p) < Rank(D, q)
      BY <2>1, <2>2, RanksGrow
    <3> QED BY <2>1, <3>1
  <2>3. CASE q < p
    <3>1. Rank(D, q) < Rank(D, p)
      BY <2>1, <2>3, RanksGrow
    <3> QED BY <2>1, <3>1
  <2> QED BY <2>1, <2>2, <2>3
<1>4. f \in Injection(D, 1..c)
  BY <1>2, <1>3 DEF Injection, IsInjective
<1>5. IsFiniteSet(1..c) /\ Cardinality(1..c) = c
  BY <1>1, FS_Interval
<1>6. f \in Surjection(D, 1..c)
  BY <1>1, <1>4, <1>5, FS_Injection DEF c
<1>7. \A k \in 1..c : \E p \in D : Rank(D, p) = k
  BY <1>6 DEF Surjection
<1>8. \A p : Cardinality({q \in D : q <= p}) = Rank(D, p)
  BY RankIs
<1>9. \A k \in 1..c : InOrder(D)[k] \in D /\ Rank(D, InOrder(D)[k]) = k
  <2> SUFFICES ASSUME NEW k \in 1..c PROVE InOrder(D)[k] \in D /\ Rank(D, InOrder(D)[k]) = k
    OBVIOUS
  <2>1. InOrder(D)[k] = CHOOSE p \in D : Cardinality({q \in D : q <= p}) = k
    BY DEF InOrder, c
  <2>2. \E p \in D : Cardinality({q \in D : q <= p}) = k
    BY <1>7, <1>8
  <2>3. InOrder(D)[k] \in D /\ Cardinality({q \in D : q <= InOrder(D)[k]}) = k
    BY <2>1, <2>2
  <2> QED BY <1>8, <2>3
<1>10. \A p \in D : InOrder(D)[Rank(D, p)] = p
  BY <1>2, <1>3, <1>9
<1>11. DOMAIN InOrder(D) = 1..c
  BY DEF InOrder, c
<1> QED BY <1>1, <1>2, <1>9, <1>10, <1>11 DEF c

---------------------------------------------------------------------------
(* Sequences joined one behind the other *)

(* g[k] is the first k of the n sequences of s in one *)
Joins(g, s, n) == g[0] = <<>> /\ \A k \in 1..n : g[k] = g[k - 1] \o s[k]

LEMMA JoinsExist ==
  ASSUME NEW T, NEW n \in Nat, NEW s \in [1..n -> Seq(T)]
  PROVE  \E g \in [0..n -> Seq(T)] : Joins(g, s, n)
<1> DEFINE Good == {k \in 0..n : \E g \in [0..k -> Seq(T)] : Joins(g, s, k)}
<1>1. 0 \in Good
  <2> DEFINE g == [k \in 0..0 |-> <<>>]
  <2>1. g \in [0..0 -> Seq(T)] /\ Joins(g, s, 0)
    <3>1. <<>> \in Seq(T)
      BY EmptySeq
    <3>2. g[0] = <<>>
      OBVIOUS
    <3>3. \A k \in 1..0 : FALSE
      OBVIOUS
    <3>4. Joins(g, s, 0)
      BY <3>2, <3>3 DEF Joins
    <3> QED BY <3>1, <3>4
  <2> HIDE DEF g
  <2> QED BY <2>1
<1>2. ASSUME NEW k \in 1..n, k - 1 \in Good PROVE k \in Good
  <2>1. PICK g \in [0..(k - 1) -> Seq(T)] : Joins(g, s, k - 1)
    BY <1>2
  <2> DEFINE h == [i \in 0..k |-> IF i = k THEN g[k - 1] \o s[k] ELSE g[i]]
  <2>2. g[k - 1] \o s[k] \in Seq(T)
    BY ConcatProperties
  <2>3. h \in [0..k -> Seq(T)]
    BY <2>2
  <2>4. \A i \in 0..k : h[i] = IF i = k THEN g[k - 1] \o s[k] ELSE g[i]
    OBVIOUS
  <2> HIDE DEF h
  <2>5. h[0] = <<>>
    BY <2>1, <2>4 DEF Joins
  <2>6. ASSUME NEW i \in 1..k PROVE h[i] = h[i - 1] \o s[i]
    <3>1. i - 1 \in 0..k /\ i - 1 # k /\ i \in 0..k
      OBVIOUS
    <3>2. h[i - 1] = g[i - 1]
      BY <2>4, <3>1
    <3>3. CASE i = k
      BY <2>4, <3>1, <3>2, <3>3
    <3>4. CASE i # k
      <4>1. i \in 1..(k - 1)
        BY <3>4
      <4>2. g[i] = g[i - 1] \o s[i]
        BY <2>1, <4>1 DEF Joins
      <4> QED BY <2>4, <3>1, <3>2, <3>4, <4>2
    <3> QED BY <3>3, <3>4
  <2>7. Joins(h, s, k)
    BY <2>5, <2>6 DEF Joins
  <2>8. k \in 0..n
    OBVIOUS
  <2> QED BY <2>3, <2>7, <2>8
<1> HIDE DEF Good
<1>3. \A k \in 0..n : k \in Good
  BY <1>1, <1>2, UpTo
<1>4. n \in Good
  BY <1>3
<1> QED BY <1>4 DEF Good

LEMMA FlattenIs ==
  ASSUME NEW T, NEW n \in Nat, NEW s \in [1..n -> Seq(T)],
         NEW g \in [0..n -> Seq(T)], Joins(g, s, n)
  PROVE  FlattenSeq(s) = g[n]
<1>0. s \in Seq(Seq(T)) /\ Len(s) = n
  OBVIOUS
<1>1. CASE n = 0
  <2>1. s = <<>>
    BY <1>0, <1>1, EmptySeq
  <2> QED BY <1>0, <1>1, <2>1 DEF FlattenSeq, Joins
<1>2. CASE n # 0
  <2> DEFINE Body(f) == [i \in 1..n |-> IF i = 1 THEN s[i] ELSE f[i - 1] \o s[i]]
  <2> DEFINE flatten == CHOOSE f : f = Body(f)
  <2>1. FlattenSeq(s) = flatten[n]
    BY <1>0, <1>2 DEF FlattenSeq
  <2> DEFINE h == [i \in 1..n |-> g[i]]
  <2>2. h = Body(h)
    <3>1. ASSUME NEW i \in 1..n
          PROVE  g[i] = IF i = 1 THEN s[i] ELSE h[i - 1] \o s[i]
      <4>1. g[i] = g[i - 1] \o s[i]
        BY DEF Joins
      <4>2. CASE i = 1
        <5>1. <<>> \o s[i] = s[i]
          BY ConcatEmptySeq
        <5>2. g[i - 1] = <<>>
          BY <4>2 DEF Joins
        <5> QED BY <4>1, <4>2, <5>1, <5>2
      <4>3. CASE i # 1
        <5>1. i - 1 \in 1..n
          BY <4>3
        <5> QED BY <4>1, <4>3, <5>1
      <4> QED BY <4>2, <4>3
    <3> QED BY <3>1
  <2>3. flatten = Body(flatten)
    BY <2>2
  <2> HIDE DEF flatten
  <2>4. \A i \in 1..n : flatten[i] = IF i = 1 THEN s[i] ELSE flatten[i - 1] \o s[i]
    BY <2>3
  <2> DEFINE Good == {0} \cup {i \in 1..n : flatten[i] = g[i]}
  <2>5. ASSUME NEW i \in 1..n, i - 1 \in Good PROVE i \in Good
    <3>1. g[i] = g[i - 1] \o s[i]
      BY DEF Joins
    <3>2. CASE i = 1
      <4>1. <<>> \o s[i] = s[i]
        BY ConcatEmptySeq
      <4>2. g[i - 1] = <<>>
        BY <3>2 DEF Joins
      <4> QED BY <2>4, <3>1, <3>2, <4>1, <4>2
    <3>3. CASE i # 1
      <4>1. i - 1 \in 1..n /\ i - 1 # 0
        BY <3>3
      <4>2. flatten[i - 1] = g[i - 1]
        BY <2>5, <4>1
      <4> QED BY <2>4, <3>1, <3>3, <4>2
    <3> QED BY <3>2, <3>3
  <2>6. 0 \in Good
    OBVIOUS
  <2> HIDE DEF Good
  <2>7. \A i \in 0..n : i \in Good
    BY <2>5, <2>6, UpTo
  <2>8. n \in Good
    BY <2>7
  <2> QED BY <1>2, <2>1, <2>8 DEF Good
<1> QED BY <1>1, <1>2

(* g joins the n sequences of s; run is those behind the first a, up to the first b *)
Joined(T, n, s, g) == s \in [1..n -> Seq(T)] /\ g \in [0..n -> Seq(T)] /\ Joins(g, s, n)
Run(T, s, a, b, run) ==
  run \in [1..(b - a) -> Seq(T)] /\ \A i \in 1..(b - a) : run[i] = s[a + i]

LEMMA JoinedExists ==
  ASSUME NEW T, NEW n \in Nat, NEW s, s \in [1..n -> Seq(T)]
  PROVE  \E g : Joined(T, n, s, g)
BY JoinsExist DEF Joined

LEMMA JoinedIs ==
  ASSUME NEW T, NEW n \in Nat, NEW s, NEW g, Joined(T, n, s, g)
  PROVE  g[n] = FlattenSeq(s) /\ g[n] \in Seq(T)
<1>1. n \in 0..n
  OBVIOUS
<1> QED BY <1>1, FlattenIs DEF Joined

LEMMA JoinIsAssociative ==
  ASSUME NEW T
  PROVE  \A u, v, w \in Seq(T) : (u \o v) \o w = u \o (v \o w)
BY ConcatAssociative

(* Joining a run continues what is joined before it *)
LEMMA JoinedOn ==
  ASSUME NEW T, NEW n \in Nat, NEW s, NEW g, Joined(T, n, s, g),
         NEW a \in 0..n, NEW b \in a..n, NEW run, Run(T, s, a, b, run)
  PROVE  g[b] = g[a] \o FlattenSeq(run) /\ FlattenSeq(run) \in Seq(T)
<1> DEFINE m == b - a
<1>0. \A u, v, w \in Seq(T) : (u \o v) \o w = u \o (v \o w)
  BY JoinIsAssociative
<1>a. m \in Nat /\ a \in Nat /\ b \in Nat /\ b = a + m /\ a + m <= n
  OBVIOUS
<1> HIDE DEF m
<1>b. run \in [1..m -> Seq(T)] /\ \A i \in 1..m : run[i] = s[a + i]
  BY DEF Run, m
<1>c. s \in [1..n -> Seq(T)] /\ g \in [0..n -> Seq(T)] /\ Joins(g, s, n)
  BY DEF Joined
<1>1. PICK h : Joined(T, m, run, h)
  BY <1>a, <1>b, JoinedExists
<1>2. h[m] = FlattenSeq(run) /\ h[m] \in Seq(T)
  BY <1>1, <1>a, JoinedIs
<1>d. h \in [0..m -> Seq(T)] /\ Joins(h, run, m)
  BY <1>1 DEF Joined
<1> DEFINE Good == {i \in 0..m : g[a + i] = g[a] \o h[i]}
<1>3. 0 \in Good
  <2>1. h[0] = <<>> /\ g[a] \in Seq(T) /\ a + 0 = a
    BY <1>a, <1>c, <1>d DEF Joins
  <2>2. g[a] \o <<>> = g[a]
    BY <2>1, ConcatEmptySeq
  <2>3. g[a + 0] = g[a] \o h[0]
    BY <2>1, <2>2
  <2>4. 0 \in 0..m
    BY <1>a
  <2> QED BY <2>3, <2>4
<1>4. ASSUME NEW i \in 1..m, i - 1 \in Good PROVE i \in Good
  <2>1. a + i \in 1..n /\ (a + i) - 1 = a + (i - 1) /\ i - 1 \in 0..m /\ a + (i - 1) \in 0..n
    BY <1>a
  <2>2. g[a + i] = g[a + (i - 1)] \o s[a + i]
    BY <2>1, <1>c DEF Joins
  <2>3. h[i] = h[i - 1] \o s[a + i]
    BY <1>b, <1>d DEF Joins
  <2>4. g[a + (i - 1)] = g[a] \o h[i - 1]
    BY <1>4
  <2>5. g[a] \in Seq(T) /\ h[i - 1] \in Seq(T) /\ s[a + i] \in Seq(T)
    BY <1>c, <1>d, <2>1
  <2>6. (g[a] \o h[i - 1]) \o s[a + i] = g[a] \o (h[i - 1] \o s[a + i])
    BY <2>5, <1>0
  <2>7. g[a + i] = g[a] \o h[i]
    BY <2>2, <2>3, <2>4, <2>6
  <2>8. i \in 0..m
    BY <1>a
  <2> QED BY <2>7, <2>8
<1> HIDE DEF Good
<1>5. \A i \in 0..m : i \in Good
  BY <1>a, <1>3, <1>4, UpTo
<1>6. m \in Good
  BY <1>a, <1>5
<1> QED BY <1>a, <1>2, <1>6 DEF Good

---------------------------------------------------------------------------
(* The chunks of a page *)

(* Where chunk k of n blocks ends *)
Cut(n, size, k) == IF k * size <= n THEN k * size ELSE n

LEMMA DivBounds ==
  ASSUME NEW a \in Nat, NEW size \in Nat \ {0}
  PROVE  LET c == a \div size
         IN  c \in Nat /\ c * size <= a /\ a < c * size + size
OBVIOUS

LEMMA ChunkCuts ==
  ASSUME NEW n \in Nat, NEW size \in Nat \ {0}, NEW c, c = (n + size - 1) \div size
  PROVE  /\ c \in Nat
         /\ c = 0 <=> n = 0
         /\ Cut(n, size, 0) = 0 /\ Cut(n, size, c) = n
         /\ \A k \in 0..c : Cut(n, size, k) \in 0..n
<1>1. n + size - 1 \in Nat
  OBVIOUS
<1>2. c \in Nat /\ c * size <= n + size - 1 /\ n + size - 1 < c * size + size
  BY <1>1, DivBounds
<1>3. c * size \in Nat /\ c * size >= n
  BY <1>2
<1>4. c = 0 <=> n = 0
  BY <1>2
<1>5. \A k \in 0..c : k * size \in Nat /\ k * size <= c * size /\ Cut(n, size, k) \in 0..n
  BY <1>2 DEF Cut
<1>6. Cut(n, size, 0) = 0 /\ Cut(n, size, c) = n
  BY <1>2, <1>3 DEF Cut
<1> QED BY <1>2, <1>4, <1>5, <1>6

LEMMA ChunkStarts ==
  ASSUME NEW n \in Nat, NEW size \in Nat \ {0}, NEW k \in 1..((n + size - 1) \div size)
  PROVE  /\ FirstBlock(k, size) = Cut(n, size, k - 1)
         /\ Cut(n, size, k - 1) < Cut(n, size, k)
         /\ Min({FirstBlock(k, size) + size, n}) = Cut(n, size, k)
<1> DEFINE c == (n + size - 1) \div size
<1>1. n + size - 1 \in Nat
  OBVIOUS
<1>2. c \in Nat /\ c * size <= n + size - 1 /\ n + size - 1 < c * size + size /\ k \in 1..c
  BY <1>1, DivBounds
<1> HIDE DEF c
<1>5. k * size \in Nat /\ k * size <= c * size
  BY <1>2
<1>6. k - 1 \in 0..c /\ (k - 1) * size \in Nat /\ k * size = (k - 1) * size + size
  BY <1>2
<1>7. (k - 1) * size < n
  BY <1>2, <1>5, <1>6
<1>8. Cut(n, size, k - 1) = (k - 1) * size
  BY <1>6, <1>7 DEF Cut
<1> DEFINE S == {FirstBlock(k, size) + size, n}
<1>9. S \in SUBSET Nat /\ S # {} /\ S = {k * size, n}
  BY <1>6 DEF FirstBlock
<1>10. Min(S) \in {k * size, n} /\ Min(S) <= k * size /\ Min(S) <= n
  BY <1>9, LeastOf
<1> HIDE DEF S
<1>11. Min(S) = Cut(n, size, k)
  BY <1>6, <1>10 DEF Cut
<1> QED BY <1>6, <1>7, <1>8, <1>11 DEF Cut, FirstBlock, S

LEMMA CutsRise ==
  ASSUME NEW n \in Nat, NEW size \in Nat \ {0}, NEW j \in Nat, NEW k \in Nat, j <= k
  PROVE  Cut(n, size, j) <= Cut(n, size, k)
<1>1. j * size \in Nat /\ k * size \in Nat /\ j * size <= k * size
  OBVIOUS
<1> QED BY <1>1 DEF Cut

Blocks(T) == [shape : Shapes, row : T]

LEMMA WindowIs ==
  ASSUME NEW B, NEW s \in Seq(B), NEW a \in 0..Len(s), NEW b \in a..Len(s)
  PROVE  /\ SubSeq(s, a + 1, b) \in Seq(B) /\ Len(SubSeq(s, a + 1, b)) = b - a
         /\ \A i \in 1..(b - a) : SubSeq(s, a + 1, b)[i] = s[a + i]
<1>1. \A i \in (a + 1)..b : s[i] \in B
  BY LenProperties
<1>2. a + 1 \in Int /\ b \in Int /\ a \in Nat
  BY LenProperties
<1>3. /\ SubSeq(s, a + 1, b) \in Seq(B)
      /\ Len(SubSeq(s, a + 1, b)) = IF a + 1 <= b THEN b - (a + 1) + 1 ELSE 0
      /\ \A i \in 1..(b - (a + 1) + 1) : SubSeq(s, a + 1, b)[i] = s[a + 1 + i - 1]
  BY <1>1, <1>2, SubSeqProperties
<1> QED BY <1>2, <1>3

LEMMA ChunkIs ==
  ASSUME NEW T, NEW blocks \in Seq(Blocks(T)), NEW size \in Nat \ {0},
         NEW k \in 1..ChunkCount(blocks, size)
  PROVE  LET a == Cut(Len(blocks), size, k - 1)
             b == Cut(Len(blocks), size, k)
             chunk == ChunkBlocks(blocks, size, k)
         IN  /\ a \in 0..Len(blocks) /\ b \in 0..Len(blocks) /\ a < b
             /\ chunk \in Seq(Blocks(T)) /\ Len(chunk) = b - a
             /\ chunk = SubSeq(blocks, a + 1, b)
             /\ \A i \in 1..(b - a) : chunk[i] = blocks[a + i]
<1> DEFINE n == Len(blocks)
           a == Cut(n, size, k - 1)
           b == Cut(n, size, k)
           c == ChunkCount(blocks, size)
<1>1. n \in Nat /\ c = (n + size - 1) \div size
  BY LenProperties DEF ChunkCount
<1> HIDE DEF n, c
<1>2. c \in Nat /\ k \in 1..c /\ k - 1 \in 0..c /\ k \in 0..c
  BY <1>1, ChunkCuts DEF c
<1>3. /\ \A j \in 0..c : Cut(n, size, j) \in 0..n
      /\ FirstBlock(k, size) = a /\ a < b /\ Min({FirstBlock(k, size) + size, n}) = b
  <2>1. \A j \in 0..c : Cut(n, size, j) \in 0..n
    BY <1>1, ChunkCuts
  <2>2. /\ FirstBlock(k, size) = Cut(n, size, k - 1)
        /\ Cut(n, size, k - 1) < Cut(n, size, k)
        /\ Min({FirstBlock(k, size) + size, n}) = Cut(n, size, k)
    <3>1. k \in 1..((n + size - 1) \div size)
      BY <1>1, <1>2
    <3> QED BY <1>1, <3>1, ChunkStarts
  <2> QED BY <2>1, <2>2
<1>4. a \in 0..n /\ b \in 0..n /\ b \in a..n
  BY <1>1, <1>2, <1>3
<1> HIDE DEF a, b
<1>5. ChunkBlocks(blocks, size, k) = SubSeq(blocks, a + 1, b)
  BY <1>3 DEF ChunkBlocks, n
<1>6. /\ SubSeq(blocks, a + 1, b) \in Seq(Blocks(T)) /\ Len(SubSeq(blocks, a + 1, b)) = b - a
      /\ \A i \in 1..(b - a) : SubSeq(blocks, a + 1, b)[i] = blocks[a + i]
  BY <1>4, WindowIs DEF n
<1> QED BY <1>3, <1>4, <1>5, <1>6 DEF a, b, n

---------------------------------------------------------------------------
(* What the parser returns of a chunk *)

LEMMA RowsType ==
  ASSUME NEW T, NEW block \in Blocks(T)
  PROVE  /\ RowsOf(block) \in Seq(T) /\ block.row \in T
         /\ block.shape \in {"whole", "open"} => RowsOf(block) = <<block.row>>
         /\ Len(RowsOf(block)) = CASE block.shape \in {"whole", "open"} -> 1
                                   [] block.shape = "double" -> 2
                                   [] OTHER -> 0
<1>1. block.row \in T /\ block.shape \in Shapes
  BY DEF Blocks
<1>2. CASE block.shape \in {"whole", "open"}
  <2>1. RowsOf(block) = <<block.row>>
    BY <1>2 DEF RowsOf
  <2> QED BY <1>1, <1>2, <2>1
<1>3. CASE block.shape = "double"
  <2>1. RowsOf(block) = <<block.row, block.row>>
    BY <1>3 DEF RowsOf
  <2> QED BY <1>1, <1>3, <2>1
<1>4. CASE block.shape \notin {"whole", "open", "double"}
  <2>1. RowsOf(block) = <<>>
    BY <1>4 DEF RowsOf
  <2> QED BY <1>1, <1>4, <2>1
<1> QED BY <1>2, <1>3, <1>4

(* A block that hides the rest of its chunk *)
Opens(b) == b.shape = "open"

(* The rows a block adds to those of its chunk *)
SeenRows(chunk, i) == IF \E j \in 1..(i - 1) : Opens(chunk[j]) THEN <<>> ELSE RowsOf(chunk[i])

LEMMA FirstIn ==
  ASSUME NEW n \in Nat, NEW S \in SUBSET (1..n), NEW at, at = IF S # {} THEN Min(S) ELSE 0
  PROVE  /\ at \in 0..n
         /\ at = 0 => S = {}
         /\ at # 0 => at \in S /\ \A i \in 1..(at - 1) : i \notin S
<1>1. S \in SUBSET Nat
  OBVIOUS
<1>2. S # {} => Min(S) \in S /\ \A y \in S : Min(S) <= y
  BY <1>1, LeastOf
<1>3. CASE S = {}
  BY <1>3
<1>4. CASE S # {}
  <2>1. at \in S /\ \A y \in S : at <= y
    BY <1>2, <1>4
  <2> QED BY <2>1
<1> QED BY <1>3, <1>4

(* How far into a chunk the parser sees, and the first block there that makes it raise *)
Opening(chunk) == {i \in 1..Len(chunk) : Opens(chunk[i])}
Reach(chunk) == IF Opening(chunk) = {} THEN Len(chunk) ELSE Min(Opening(chunk))
Raising(chunk) == {i \in 1..Reach(chunk) : RowError(chunk[i]) # "none"}

LEMMA ReachIs ==
  ASSUME NEW T, NEW chunk \in Seq(Blocks(T))
  PROVE  /\ Reach(chunk) \in 0..Len(chunk)
         /\ Opening(chunk) = {} => Reach(chunk) = Len(chunk)
         /\ Opening(chunk) # {} =>
              /\ Reach(chunk) # 0 /\ Opens(chunk[Reach(chunk)])
              /\ \A i \in 1..(Reach(chunk) - 1) : ~Opens(chunk[i])
<1> DEFINE S == {i \in 1..Len(chunk) : chunk[i].shape = "open"}
<1>1. Opening(chunk) = S /\ Len(chunk) \in Nat
  BY LenProperties DEF Opening, Opens
<1> DEFINE at == IF S # {} THEN Min(S) ELSE 0
<1>2. at = IF S # {} THEN Min(S) ELSE 0
  OBVIOUS
<1>3. S \in SUBSET (1..Len(chunk))
  OBVIOUS
<1>6. Reach(chunk) = IF S = {} THEN Len(chunk) ELSE at
  BY <1>1 DEF Reach
<1> HIDE DEF S, at
<1>4. /\ at \in 0..Len(chunk)
      /\ at = 0 => S = {}
      /\ at # 0 => at \in S /\ \A i \in 1..(at - 1) : i \notin S
  BY <1>1, <1>2, <1>3, FirstIn
<1>5. at # 0 => Opens(chunk[at]) /\ \A i \in 1..(at - 1) : ~Opens(chunk[i])
  BY <1>1, <1>4 DEF Opens, S
<1>7. S # {} => at # 0
  BY <1>1, <1>2, <1>3, FirstIn
<1> QED BY <1>1, <1>4, <1>5, <1>6, <1>7

LEMMA OpeningFound ==
  ASSUME NEW T, NEW chunk \in Seq(Blocks(T))
  PROVE  SelectInSeq(chunk, LAMBDA b : b.shape = "open")
           = IF Opening(chunk) = {} THEN 0 ELSE Reach(chunk)
<1> DEFINE S == {i \in 1..Len(chunk) : chunk[i].shape = "open"}
<1>1. Opening(chunk) = S
  BY DEF Opening, Opens
<1>2. SelectInSeq(chunk, LAMBDA b : b.shape = "open") = IF S # {} THEN Min(S) ELSE 0
  BY DEF SelectInSeq
<1> QED BY <1>1, <1>2 DEF Reach

LEMMA ChunkReads ==
  ASSUME NEW T, NEW chunk \in Seq(Blocks(T))
  PROVE  LET out == ParseChunk("expected", chunk)
         IN  /\ Raising(chunk) # {} => /\ out.error = RowError(chunk[Min(Raising(chunk))])
                                       /\ out.rows = <<>> /\ out.error # "none"
             /\ Raising(chunk) = {} =>
                  /\ out.error = "none"
                  /\ out.rows = FlattenSeq([i \in 1..Reach(chunk) |-> RowsOf(chunk[i])])
<1> DEFINE opened == SelectInSeq(chunk, LAMBDA b : b.shape = "open")
           visible == IF opened = 0 THEN chunk ELSE SubSeq(chunk, 1, opened)
           raising == SelectInSeq(visible, LAMBDA b : RowError(b) # "none")
           out == ParseChunk("expected", chunk)
           m == Reach(chunk)
           run == [i \in DOMAIN visible |-> RowsOf(visible[i])]
<1>1. out = IF raising # 0 THEN [error |-> RowError(visible[raising]), rows |-> <<>>]
            ELSE [error |-> "none", rows |-> FlattenSeq(run)]
  BY DEF ParseChunk
<1>2. /\ m \in 0..Len(chunk) /\ Len(chunk) \in Nat
      /\ opened = 0 => m = Len(chunk)
      /\ opened # 0 => opened = m
  <2>1. opened = IF Opening(chunk) = {} THEN 0 ELSE m
    BY OpeningFound
  <2> HIDE DEF opened
  <2>2. m \in 0..Len(chunk) /\ Len(chunk) \in Nat
    BY ReachIs, LenProperties
  <2>3. Opening(chunk) = {} => m = Len(chunk)
    BY ReachIs
  <2>4. Opening(chunk) # {} => m # 0
    BY ReachIs
  <2> QED BY <2>1, <2>2, <2>3, <2>4
<1> HIDE DEF opened, m
<1>3. /\ visible \in Seq(Blocks(T)) /\ Len(visible) = m /\ DOMAIN visible = 1..m
      /\ \A i \in 1..m : visible[i] = chunk[i]
  <2>1. CASE opened = 0
    BY <1>2, <2>1, LenProperties
  <2>2. CASE opened # 0
    <3>1. visible = SubSeq(chunk, 0 + 1, m)
      BY <1>2, <2>2
    <3>2. 0 \in 0..Len(chunk) /\ m \in 0..Len(chunk) /\ m - 0 = m
      BY <1>2
    <3>3. /\ SubSeq(chunk, 0 + 1, m) \in Seq(Blocks(T)) /\ Len(SubSeq(chunk, 0 + 1, m)) = m - 0
          /\ \A i \in 1..(m - 0) : SubSeq(chunk, 0 + 1, m)[i] = chunk[0 + i]
      BY <3>2, WindowIs
    <3> HIDE DEF visible
    <3>4. visible \in Seq(Blocks(T)) /\ Len(visible) = m /\ \A i \in 1..m : visible[i] = chunk[0 + i]
      BY <3>1, <3>2, <3>3
    <3>5. \A i \in 1..m : 0 + i = i
      BY <1>2
    <3> QED BY <3>4, <3>5, LenProperties
  <2> QED BY <2>1, <2>2
<1> DEFINE S == {i \in 1..Len(visible) : RowError(visible[i]) # "none"}
<1>4. raising = IF S # {} THEN Min(S) ELSE 0
  BY DEF SelectInSeq
<1> HIDE DEF visible, raising, run, out
<1>5. S = Raising(chunk)
  BY <1>3 DEF Raising, m
<1> HIDE DEF S
<1>6. S \in SUBSET (1..m)
  BY <1>3 DEF S
<1>7. /\ raising = 0 => S = {}
      /\ raising # 0 => raising \in S /\ raising = Min(S)
  BY <1>2, <1>4, <1>6, FirstIn
<1>8. \A i \in S : RowError(visible[i]) = RowError(chunk[i]) /\ RowError(chunk[i]) # "none"
  BY <1>3 DEF S
<1>9. run = [i \in 1..m |-> RowsOf(chunk[i])]
  BY <1>3 DEF run
<1>10. CASE raising # 0
  BY <1>1, <1>5, <1>7, <1>8, <1>10 DEF out
<1>11. CASE raising = 0
  BY <1>1, <1>5, <1>7, <1>9, <1>11 DEF out, m
<1> QED BY <1>10, <1>11

(* The rows of a chunk are those its blocks add *)
LEMMA ChunkRows ==
  ASSUME NEW T, NEW chunk \in Seq(Blocks(T)), ParseChunk("expected", chunk).error = "none"
  PROVE  ParseChunk("expected", chunk).rows = FlattenSeq([i \in 1..Len(chunk) |-> SeenRows(chunk, i)])
<1> DEFINE n == Len(chunk)
           m == Reach(chunk)
           s == [i \in 1..n |-> SeenRows(chunk, i)]
           run == [i \in 1..m |-> RowsOf(chunk[i])]
<1>1. n \in Nat /\ chunk \in [1..n -> Blocks(T)]
  BY LenProperties
<1>2. m \in 0..n /\ m \in Nat
  <2>1. m \in 0..n
    BY ReachIs
  <2> QED BY <1>1, <2>1
<1>3. ParseChunk("expected", chunk).rows = FlattenSeq(run)
  BY ChunkReads
<1>4. \A i \in 1..n : RowsOf(chunk[i]) \in Seq(T)
  BY <1>1, RowsType
<1>5. \A i \in 1..n : SeenRows(chunk, i) \in Seq(T)
  BY <1>4, EmptySeq DEF SeenRows
<1>6. s \in [1..n -> Seq(T)]
  BY <1>5
<1>7. \A i \in 1..m : i \in 1..n /\ run[i] = RowsOf(chunk[i])
  BY <1>2
<1>8. run \in [1..m -> Seq(T)]
  BY <1>4, <1>7
<1>9. \A i \in 1..m : SeenRows(chunk, i) = RowsOf(chunk[i])
  <2>1. \A i \in 1..(m - 1) : ~Opens(chunk[i])
    <3>1. CASE Opening(chunk) = {}
      BY <1>2, <3>1 DEF Opening
    <3>2. CASE Opening(chunk) # {}
      BY <3>2, ReachIs
    <3> QED BY <3>1, <3>2
  <2>2. ASSUME NEW i \in 1..m, NEW j \in 1..(i - 1) PROVE ~Opens(chunk[j])
    <3>1. j \in 1..(m - 1)
      BY <1>2
    <3> QED BY <2>1, <3>1
  <2> QED BY <2>2 DEF SeenRows
<1>10. \A i \in (m + 1)..n : SeenRows(chunk, i) = <<>>
  <2> SUFFICES ASSUME NEW i \in (m + 1)..n PROVE SeenRows(chunk, i) = <<>>
    OBVIOUS
  <2>1. m \in 1..(i - 1) /\ Opens(chunk[m])
    <3>1. Opening(chunk) = {} => m = n
      BY ReachIs
    <3>2. Opening(chunk) # {}
      BY <1>2, <3>1
    <3>3. m # 0 /\ Opens(chunk[m])
      BY <3>2, ReachIs
    <3> QED BY <1>2, <3>3
  <2> QED BY <2>1 DEF SeenRows
<1> HIDE DEF n, m, run
<1> HIDE DEF s
<1>20. PICK g : Joined(T, n, s, g)
  BY <1>1, <1>6, JoinedExists
<1>12. FlattenSeq(s) = g[n]
  BY <1>1, <1>20, JoinedIs
<1>11. g \in [0..n -> Seq(T)] /\ Joins(g, s, n)
  BY <1>20 DEF Joined
<1>13. \A i \in 1..m : run[i] = s[0 + i]
  BY <1>2, <1>7, <1>9 DEF s
<1>15. g[m] = FlattenSeq(run)
  <2>1. Run(T, s, 0, m, run)
    <3>1. m - 0 = m
      BY <1>2
    <3> QED BY <1>8, <1>13, <3>1 DEF Run
  <2>2. 0 \in 0..n /\ m \in 0..n /\ n \in Nat
    BY <1>1, <1>2
  <2>3. g[m] = g[0] \o FlattenSeq(run) /\ FlattenSeq(run) \in Seq(T)
    BY <1>20, <2>1, <2>2, JoinedOn
  <2>4. g[0] = <<>>
    BY <1>11 DEF Joins
  <2>5. <<>> \o FlattenSeq(run) = FlattenSeq(run)
    BY <2>3, ConcatEmptySeq
  <2> QED BY <2>3, <2>4, <2>5
<1> DEFINE Good == {i \in 0..n : i >= m => g[i] = g[m]}
<1>16. ASSUME NEW i \in 1..n, i - 1 \in Good PROVE i \in Good
  <2>1. CASE i <= m
    BY <1>2, <2>1
  <2>2. CASE i > m
    <3>1. g[i] = g[i - 1] \o s[i] /\ s[i] = <<>> /\ g[i - 1] = g[m]
      BY <1>2, <1>10, <1>11, <1>16, <2>2 DEF Joins, s
    <3>2. g[m] \in Seq(T)
      BY <1>2, <1>11
    <3>3. g[m] \o <<>> = g[m]
      BY <3>2, ConcatEmptySeq
    <3>4. i \in 0..n
      BY <1>1
    <3>5. g[i] = g[m]
      BY <3>1, <3>3
    <3> QED BY <3>4, <3>5
  <2>3. i <= m \/ i > m
    BY <1>1, <1>2
  <2> HIDE DEF Good
  <2> QED BY <2>3, <2>1, <2>2
<1>17. 0 \in Good
  BY <1>1, <1>2
<1> HIDE DEF Good
<1>18. \A i \in 0..n : i \in Good
  BY <1>1, <1>16, <1>17, UpTo
<1>19. g[n] = g[m]
  BY <1>1, <1>2, <1>18 DEF Good
<1> QED BY <1>3, <1>12, <1>15, <1>19 DEF n, run, m, s

---------------------------------------------------------------------------
(* What the parser returns of a page *)

(* An anchor left open in the chunk hides the block *)
Hides(blocks, size, i) ==
  \E k \in 1..ChunkCount(blocks, size), j \in 1..(i - 1) :
    /\ Cut(Len(blocks), size, k - 1) < j /\ i <= Cut(Len(blocks), size, k)
    /\ Opens(blocks[j])

(* The rows each block of the page adds *)
Added(blocks, size) ==
  [i \in 1..Len(blocks) |-> IF Hides(blocks, size, i) THEN <<>> ELSE RowsOf(blocks[i])]

LEMMA AddedType ==
  ASSUME NEW T, NEW blocks \in Seq(Blocks(T)), NEW size
  PROVE  /\ Added(blocks, size) \in [1..Len(blocks) -> Seq(T)]
         /\ \A i \in 1..Len(blocks) : Added(blocks, size)[i] \in {<<>>, RowsOf(blocks[i])}
<1>1. \A i \in 1..Len(blocks) : RowsOf(blocks[i]) \in Seq(T)
  <2>1. \A i \in 1..Len(blocks) : blocks[i] \in Blocks(T)
    BY LenProperties
  <2> QED BY <2>1, RowsType
<1>2. <<>> \in Seq(T)
  BY EmptySeq
<1> QED BY <1>1, <1>2 DEF Added

LEMMA AddedOfChunk ==
  ASSUME NEW T, NEW blocks \in Seq(Blocks(T)), NEW size \in Nat \ {0},
         NEW k \in 1..ChunkCount(blocks, size)
  PROVE  LET a == Cut(Len(blocks), size, k - 1)
             b == Cut(Len(blocks), size, k)
         IN  \A i \in 1..(b - a) : Added(blocks, size)[a + i] = SeenRows(ChunkBlocks(blocks, size, k), i)
<1> DEFINE n == Len(blocks)
           c == ChunkCount(blocks, size)
           a == Cut(n, size, k - 1)
           b == Cut(n, size, k)
           chunk == ChunkBlocks(blocks, size, k)
<1>1. /\ a \in 0..n /\ b \in 0..n /\ a < b
      /\ \A i \in 1..(b - a) : chunk[i] = blocks[a + i]
  BY ChunkIs
<1>2. n \in Nat /\ c = (n + size - 1) \div size
  BY LenProperties DEF ChunkCount
<1>3. c \in Nat
  BY <1>2, ChunkCuts
<1>4. \A j \in 1..c : /\ j < k => Cut(n, size, j) <= a
                      /\ j > k => b <= Cut(n, size, j - 1)
  <2> SUFFICES ASSUME NEW j \in 1..c
               PROVE  /\ j < k => Cut(n, size, j) <= a
                      /\ j > k => b <= Cut(n, size, j - 1)
    OBVIOUS
  <2>1. j \in Nat /\ k \in Nat /\ j - 1 \in Nat /\ k - 1 \in Nat
    BY <1>3
  <2>2. j < k => j <= k - 1
    BY <2>1
  <2>3. j > k => k <= j - 1
    BY <2>1
  <2> QED BY <1>2, <2>1, <2>2, <2>3, CutsRise
<1>5. \A j \in 1..c : Cut(n, size, j) \in Int /\ Cut(n, size, j - 1) \in Int
  <2>1. \A j \in 0..c : Cut(n, size, j) \in 0..n
    BY <1>2, ChunkCuts
  <2> QED BY <1>3, <2>1
<1> SUFFICES ASSUME NEW i \in 1..(b - a)
             PROVE  Added(blocks, size)[a + i] = SeenRows(chunk, i)
  OBVIOUS
<1> HIDE DEF n, c, a, b, chunk
<1>6. i \in Nat /\ a \in Nat /\ b \in Nat /\ a + i \in 1..n /\ a < a + i /\ a + i <= b
  BY <1>1, <1>2
<1>7. Hides(blocks, size, a + i) <=> \E j \in 1..(i - 1) : Opens(chunk[j])
  <2>1. ASSUME NEW j \in 1..(i - 1), Opens(chunk[j]) PROVE Hides(blocks, size, a + i)
    <3>1. a + j \in 1..((a + i) - 1) /\ a < a + j /\ j \in 1..(b - a)
      BY <1>6
    <3>2. Opens(blocks[a + j])
      BY <1>1, <2>1, <3>1
    <3>3. k \in 1..c
      BY DEF c
    <3> QED BY <1>6, <3>1, <3>2, <3>3 DEF Hides, a, b, n, c
  <2>2. ASSUME Hides(blocks, size, a + i) PROVE \E j \in 1..(i - 1) : Opens(chunk[j])
    <3>1. PICK h \in 1..c, j \in 1..((a + i) - 1) :
            /\ Cut(n, size, h - 1) < j /\ a + i <= Cut(n, size, h)
            /\ Opens(blocks[j])
      BY <2>2 DEF Hides, n, c
    <3>2. h = k
      <4>1. h \in Nat /\ k \in Nat
        BY <1>3 DEF c
      <4>2. ~(h < k)
        BY <1>4, <1>5, <1>6, <3>1
      <4>3. ~(h > k)
        BY <1>4, <1>5, <1>6, <3>1
      <4> QED BY <4>1, <4>2, <4>3
    <3>3. a < j
      BY <3>1, <3>2 DEF a
    <3>4. j - a \in 1..(i - 1) /\ j - a \in 1..(b - a) /\ a + (j - a) = j
      BY <1>6, <3>1, <3>3
    <3>5. Opens(chunk[j - a])
      BY <1>1, <3>1, <3>4
    <3> QED BY <3>4, <3>5
  <2> QED BY <2>1, <2>2
<1>8. chunk[i] = blocks[a + i]
  BY <1>1
<1>9. Added(blocks, size)[a + i] = IF Hides(blocks, size, a + i) THEN <<>> ELSE RowsOf(blocks[a + i])
  BY <1>6 DEF Added, n
<1> QED BY <1>7, <1>8, <1>9 DEF SeenRows

(* The parser's rows of each chunk, and of a page none of whose chunks makes it raise *)
ChunkList(blocks, size) ==
  [k \in 1..ChunkCount(blocks, size) |-> ParseChunk("expected", ChunkBlocks(blocks, size, k))]
ParsedRows(blocks, size) ==
  FlattenSeq([k \in 1..ChunkCount(blocks, size) |-> ChunkList(blocks, size)[k].rows])

NothingRaised(blocks, size) ==
  \A k \in 1..ChunkCount(blocks, size) : ChunkList(blocks, size)[k].error = "none"

(* What g joins up to the end of a chunk is what it joins up to its start and the chunk's *)
Continued(T, blocks, size, g) ==
  \A k \in 1..ChunkCount(blocks, size) :
    /\ ChunkList(blocks, size)[k].rows \in Seq(T)
    /\ g[Cut(Len(blocks), size, k)]
         = g[Cut(Len(blocks), size, k - 1)] \o ChunkList(blocks, size)[k].rows

LEMMA ChunkContinues ==
  ASSUME NEW T, NEW blocks \in Seq(Blocks(T)), NEW size \in Nat \ {0},
         NEW g, Joined(T, Len(blocks), Added(blocks, size), g),
         NothingRaised(blocks, size)
  PROVE  Continued(T, blocks, size, g)
<1> SUFFICES ASSUME NEW k \in 1..ChunkCount(blocks, size)
             PROVE  /\ ChunkList(blocks, size)[k].rows \in Seq(T)
                    /\ g[Cut(Len(blocks), size, k)]
                         = g[Cut(Len(blocks), size, k - 1)] \o ChunkList(blocks, size)[k].rows
  BY DEF Continued
<1> DEFINE n == Len(blocks)
           a == Cut(n, size, k - 1)
           b == Cut(n, size, k)
           chunk == ChunkBlocks(blocks, size, k)
           run == [i \in 1..Len(chunk) |-> SeenRows(chunk, i)]
<1>1. /\ a \in 0..n /\ b \in 0..n /\ a < b
      /\ chunk \in Seq(Blocks(T)) /\ Len(chunk) = b - a
  BY ChunkIs
<1>2. ChunkList(blocks, size)[k] = ParseChunk("expected", chunk)
  BY DEF ChunkList
<1>3. ChunkList(blocks, size)[k].rows = FlattenSeq(run)
  <2>1. ChunkList(blocks, size)[k].error = "none"
    BY DEF NothingRaised
  <2> QED BY <1>1, <1>2, <2>1, ChunkRows
<1>4. \A i \in 1..(b - a) : Added(blocks, size)[a + i] = SeenRows(chunk, i)
  BY AddedOfChunk
<1>5. n \in Nat /\ Added(blocks, size) \in [1..n -> Seq(T)]
  BY AddedType, LenProperties
<1> HIDE DEF n, a, b, chunk
<1>6. \A i \in 1..(b - a) : a + i \in 1..n
  BY <1>1, <1>5
<1>7. run \in [1..(b - a) -> Seq(T)] /\ \A i \in 1..(b - a) : run[i] = Added(blocks, size)[a + i]
  BY <1>1, <1>4, <1>5, <1>6
<1> HIDE DEF run
<1>8. Run(T, Added(blocks, size), a, b, run)
  BY <1>7 DEF Run
<1>9. b \in a..n
  BY <1>1, <1>5
<1>10. g[b] = g[a] \o FlattenSeq(run) /\ FlattenSeq(run) \in Seq(T)
  <2>1. Joined(T, n, Added(blocks, size), g)
    BY DEF n
  <2> QED BY <1>1, <1>5, <1>8, <1>9, <2>1, JoinedOn
<1> QED BY <1>3, <1>10 DEF n, a, b

LEMMA ParsedIs ==
  ASSUME NEW T, NEW blocks \in Seq(Blocks(T)), NEW size \in Nat \ {0},
         NEW g, Joined(T, Len(blocks), Added(blocks, size), g),
         NothingRaised(blocks, size)
  PROVE  ParsedRows(blocks, size) = g[Len(blocks)]
<1>0. \A k \in 1..ChunkCount(blocks, size) :
        /\ ChunkList(blocks, size)[k].rows \in Seq(T)
        /\ g[Cut(Len(blocks), size, k)]
             = g[Cut(Len(blocks), size, k - 1)] \o ChunkList(blocks, size)[k].rows
  <2>1. Continued(T, blocks, size, g)
    BY ChunkContinues
  <2> QED BY <2>1 DEF Continued
<1> DEFINE n == Len(blocks)
           c == ChunkCount(blocks, size)
           s == [k \in 1..c |-> ChunkList(blocks, size)[k].rows]
<1>1. n \in Nat /\ c = (n + size - 1) \div size
  BY LenProperties DEF ChunkCount
<1>2. c \in Nat /\ Cut(n, size, 0) = 0 /\ Cut(n, size, c) = n
  BY <1>1, ChunkCuts
<1>3. \A k \in 1..c : /\ s[k] \in Seq(T)
                      /\ g[Cut(n, size, k)] = g[Cut(n, size, k - 1)] \o s[k]
  <2> SUFFICES ASSUME NEW k \in 1..c
               PROVE  /\ s[k] \in Seq(T)
                      /\ g[Cut(n, size, k)] = g[Cut(n, size, k - 1)] \o s[k]
    OBVIOUS
  <2>1. s[k] = ChunkList(blocks, size)[k].rows
    OBVIOUS
  <2>2. k \in 1..ChunkCount(blocks, size)
    OBVIOUS
  <2> HIDE DEF s, c
  <2>3. /\ ChunkList(blocks, size)[k].rows \in Seq(T)
        /\ g[Cut(Len(blocks), size, k)]
             = g[Cut(Len(blocks), size, k - 1)] \o ChunkList(blocks, size)[k].rows
    BY <2>2, <1>0
  <2> QED BY <2>1, <2>3
<1>4. s \in [1..c -> Seq(T)]
  BY <1>3
<1>5. ParsedRows(blocks, size) = FlattenSeq(s)
  BY DEF ParsedRows
<1> HIDE DEF s, c, n
<1>6. PICK h : Joined(T, c, s, h)
  BY <1>2, <1>4, JoinedExists
<1>7. FlattenSeq(s) = h[c]
  BY <1>2, <1>6, JoinedIs
<1> DEFINE Good == {k \in 0..c : h[k] = g[Cut(n, size, k)]}
<1>8. 0 \in Good
  <2>1. h[0] = <<>> /\ g[0] = <<>>
    BY <1>6 DEF Joined, Joins
  <2> QED BY <1>2, <2>1
<1>9. ASSUME NEW k \in 1..c, k - 1 \in Good PROVE k \in Good
  <2>1. h[k] = h[k - 1] \o s[k]
    BY <1>6 DEF Joined, Joins
  <2>2. h[k - 1] = g[Cut(n, size, k - 1)]
    BY <1>9
  <2>3. h[k] = g[Cut(n, size, k)]
    BY <1>3, <2>1, <2>2
  <2>4. k \in 0..c
    OBVIOUS
  <2> QED BY <2>3, <2>4
<1> HIDE DEF Good
<1>10. \A k \in 0..c : k \in Good
  BY <1>2, <1>8, <1>9, UpTo
<1>11. c \in Good
  BY <1>2, <1>10
<1> QED BY <1>2, <1>5, <1>7, <1>11 DEF Good, n

---------------------------------------------------------------------------
(* How many rows there are, and where each of them is *)

LEMMA WindowData ==
  ASSUME NEW T, NEW blocks \in Seq(Blocks(T)), NEW a \in 0..Len(blocks), NEW b \in a..Len(blocks)
  PROVE  DataRows(SubSeq(blocks, a + 1, b)) = Cardinality(Within(DataBlocks(blocks), a, b))
<1> DEFINE w == SubSeq(blocks, a + 1, b)
           D == DataBlocks(blocks)
           n == Len(blocks)
<1>1. n \in Nat /\ DOMAIN blocks = 1..n /\ a \in Nat /\ b \in Nat /\ a <= b /\ b <= n
  BY LenProperties
<1>2. /\ w \in Seq(Blocks(T)) /\ Len(w) = b - a
      /\ \A i \in 1..(b - a) : w[i] = blocks[a + i]
  BY WindowIs
<1>3. DOMAIN w = 1..(b - a)
  BY <1>2, LenProperties
<1> DEFINE S == DataBlocks(w)
           f == [i \in S |-> a + i]
<1>4. \A i \in Nat : i \in S <=> i \in 1..(b - a) /\ IsData(blocks[a + i])
  BY <1>2, <1>3 DEF DataBlocks
<1>5. S \subseteq 1..(b - a) /\ D \subseteq 1..n
  BY <1>1, <1>3 DEF DataBlocks
<1>6. \A p \in Nat : p \in Within(D, a, b) <=> p \in 1..n /\ IsData(blocks[p]) /\ a < p /\ p <= b
  BY <1>1 DEF Within, DataBlocks
<1>7. Within(D, a, b) \subseteq Nat
  BY <1>5 DEF Within
<1> HIDE DEF w, n, S
<1>8. \A i \in S : i \in Nat /\ a + i \in Within(D, a, b)
  <2> SUFFICES ASSUME NEW i \in S PROVE i \in Nat /\ a + i \in Within(D, a, b)
    OBVIOUS
  <2>1. i \in Nat /\ i \in 1..(b - a)
    BY <1>1, <1>5
  <2>2. a + i \in Nat /\ a + i \in 1..n /\ a < a + i /\ a + i <= b
    BY <1>1, <2>1
  <2>3. IsData(blocks[a + i])
    BY <1>4, <2>1
  <2> QED BY <1>6, <2>1, <2>2, <2>3
<1>9. \A p \in Within(D, a, b) : p - a \in S /\ a + (p - a) = p
  <2> SUFFICES ASSUME NEW p \in Within(D, a, b) PROVE p - a \in S /\ a + (p - a) = p
    OBVIOUS
  <2>1. p \in Nat /\ a < p /\ p <= b /\ IsData(blocks[p])
    BY <1>6, <1>7
  <2>2. p - a \in Nat /\ p - a \in 1..(b - a) /\ a + (p - a) = p
    BY <1>1, <2>1
  <2> QED BY <1>4, <2>1, <2>2
<1>10. f \in Bijection(S, Within(D, a, b))
  <2>1. f \in [S -> Within(D, a, b)]
    BY <1>8
  <2>2. \A i, j \in S : f[i] = f[j] => i = j
    BY <1>1, <1>8
  <2>3. \A p \in Within(D, a, b) : \E i \in S : f[i] = p
    BY <1>9
  <2> QED BY <2>1, <2>2, <2>3 DEF Bijection, Injection, Surjection, IsInjective
<1>11. IsFiniteSet(S)
  <2>1. IsFiniteSet(1..(b - a))
    BY <1>1, FS_Interval
  <2> QED BY <1>5, <2>1, FS_Subset
<1>12. Cardinality(S) = Cardinality(Within(D, a, b))
  <2>1. ExistsBijection(S, Within(D, a, b))
    BY <1>10 DEF ExistsBijection
  <2> QED BY <1>11, <2>1, FS_Bijection
<1> QED BY <1>12 DEF DataRows, S, w

(* The chunks' counts in terms of the page's *)
LEMMA DataIs ==
  ASSUME NEW T, NEW blocks \in Seq(Blocks(T))
  PROVE  /\ DataBlocks(blocks) \in SUBSET (1..Len(blocks)) /\ Len(blocks) \in Nat
         /\ DataRows(blocks) = Cardinality(DataBlocks(blocks)) /\ DataRows(blocks) \in Nat
         /\ DataRows(blocks) = Cardinality(Within(DataBlocks(blocks), 0, Len(blocks)))
<1>1. DataBlocks(blocks) \in SUBSET (1..Len(blocks)) /\ Len(blocks) \in Nat
  BY LenProperties DEF DataBlocks
<1>2. DataRows(blocks) = Cardinality(DataBlocks(blocks))
  BY DEF DataRows
<1>3. Cardinality(DataBlocks(blocks)) \in Nat
  BY <1>1, WithinCounts
<1>4. Within(DataBlocks(blocks), 0, Len(blocks)) = DataBlocks(blocks)
  BY <1>1, WithinAll
<1> QED BY <1>1, <1>2, <1>3, <1>4

Undoubled(blocks) == \A i \in 1..Len(blocks) : blocks[i].shape # "double"

(* A block adds a row or none, and one that is no data row adds none *)
LEMMA AddsOneOrNone ==
  ASSUME NEW T, NEW blocks \in Seq(Blocks(T)), NEW size, Undoubled(blocks),
         NEW i \in 1..Len(blocks)
  PROVE  /\ Len(Added(blocks, size)[i]) \in {0, 1}
         /\ i \notin DataBlocks(blocks) => Len(Added(blocks, size)[i]) = 0
         /\ Len(Added(blocks, size)[i]) = 1 => Added(blocks, size)[i] = <<blocks[i].row>>
         /\ Len(Added(blocks, size)[i]) = 1
              <=> blocks[i].shape \in {"whole", "open"} /\ ~Hides(blocks, size, i)
<1>1. blocks[i] \in Blocks(T) /\ DOMAIN blocks = 1..Len(blocks)
  BY LenProperties
<1>2. blocks[i].shape # "double"
  BY DEF Undoubled
<1>3. i \notin DataBlocks(blocks) => blocks[i].shape = "blank"
  BY <1>1 DEF DataBlocks, IsData
<1>4. Added(blocks, size)[i] = IF Hides(blocks, size, i) THEN <<>> ELSE RowsOf(blocks[i])
  BY DEF Added
<1>5. /\ blocks[i].shape \in {"whole", "open"} =>
            RowsOf(blocks[i]) = <<blocks[i].row>> /\ Len(RowsOf(blocks[i])) = 1
      /\ blocks[i].shape \notin {"whole", "open"} => Len(RowsOf(blocks[i])) = 0
  BY <1>1, <1>2, RowsType
<1>6. Len(<<>>) = 0
  OBVIOUS
<1>7. CASE Hides(blocks, size, i)
  BY <1>4, <1>6, <1>7
<1>8. CASE ~Hides(blocks, size, i) /\ blocks[i].shape \in {"whole", "open"}
  <2>1. Added(blocks, size)[i] = <<blocks[i].row>> /\ Len(Added(blocks, size)[i]) = 1
    BY <1>4, <1>5, <1>8
  <2>2. i \in DataBlocks(blocks)
    BY <1>3, <1>8
  <2> QED BY <1>8, <2>1, <2>2
<1>9. CASE ~Hides(blocks, size, i) /\ blocks[i].shape \notin {"whole", "open"}
  <2>1. Added(blocks, size)[i] = RowsOf(blocks[i])
    BY <1>4, <1>9
  <2>2. Len(Added(blocks, size)[i]) = 0
    BY <1>5, <1>9, <2>1
  <2> QED BY <1>9, <2>2
<1> QED BY <1>7, <1>8, <1>9

LEMMA WithinStep ==
  ASSUME NEW n \in Nat, NEW D \in SUBSET (1..n), NEW a \in 0..n, NEW i \in (a + 1)..n
  PROVE  /\ Cardinality(Within(D, a, i - 1)) \in Nat
         /\ Cardinality(Within(D, a, i))
              = Cardinality(Within(D, a, i - 1)) + (IF i \in D THEN 1 ELSE 0)
         /\ \A p \in Nat : p \in Within(D, a, i) <=> p \in Within(D, a, i - 1) \/ (p = i /\ i \in D)
<1>1. a \in Nat /\ i \in Nat /\ i > 0 /\ i - 1 \in Nat /\ i - 1 \in a..i
  OBVIOUS
<1>2. Cardinality(Within(D, a, i)) = Cardinality(Within(D, a, i - 1)) + Cardinality(Within(D, i - 1, i))
  BY <1>1, WithinSplits
<1>3. Cardinality(Within(D, i - 1, i)) = IF i \in D THEN 1 ELSE 0
  BY <1>1, WithinOne
<1>4. Cardinality(Within(D, a, i - 1)) \in Nat
  BY <1>1, WithinCounts
<1>5. \A p \in Nat : p \in Within(D, a, i) <=> p \in Within(D, a, i - 1) \/ (p = i /\ i \in D)
  BY <1>1 DEF Within
<1> QED BY <1>2, <1>3, <1>4, <1>5

(* Between two blocks there are no more rows than data blocks, and as many when each
   of those adds its row *)
Counted(blocks, size, g, a, b) ==
  LET between == Within(DataBlocks(blocks), a, b)
      most    == Len(g[a]) + Cardinality(between)
  IN  /\ Len(g[a]) \in Nat /\ Len(g[b]) \in Nat /\ Cardinality(between) \in Nat
      /\ Len(g[b]) <= most
      /\ Len(g[b]) = most <=> \A i \in between : Len(Added(blocks, size)[i]) = 1

LEMMA RowsCounted ==
  ASSUME NEW T, NEW blocks \in Seq(Blocks(T)), NEW size, Undoubled(blocks),
         NEW g, Joined(T, Len(blocks), Added(blocks, size), g), NEW a \in 0..Len(blocks)
  PROVE  \A b \in a..Len(blocks) : Counted(blocks, size, g, a, b)
<1> DEFINE n == Len(blocks)
           D == DataBlocks(blocks)
           added == Added(blocks, size)
           C(b) == Cardinality(Within(D, a, b))
           Full(b) == \A i \in Within(D, a, b) : Len(added[i]) = 1
<1>1. n \in Nat /\ D \in SUBSET (1..n) /\ a \in Nat /\ a \in 0..n
  BY DataIs
<1>2. g \in [0..n -> Seq(T)] /\ added \in [1..n -> Seq(T)] /\ Joins(g, added, n)
  BY DEF Joined
<1>3. \A b \in 0..n : g[b] \in Seq(T) /\ Len(g[b]) \in Nat
  BY <1>2, LenProperties
<1>4. \A i \in 1..n : /\ Len(added[i]) \in {0, 1}
                      /\ i \notin D => Len(added[i]) = 0
                      /\ added[i] \in Seq(T)
  BY <1>2, AddsOneOrNone
<1> HIDE DEF n, D, added
<1> DEFINE Good == {b \in 0..n : b >= a =>
                      /\ C(b) \in Nat /\ Len(g[b]) <= Len(g[a]) + C(b)
                      /\ Len(g[b]) = Len(g[a]) + C(b) <=> Full(b)}
<1>5. a \in Good
  <2>a. D \in SUBSET Nat
    BY <1>1
  <2>1. C(a) = 0
    BY <1>1, <2>a, WithinNone
  <2>2. \A i : i \notin Within(D, a, a)
    BY <1>1, <2>a, WithinNone
  <2>3. Full(a)
    BY <2>2
  <2>4. Len(g[a]) \in Nat
    BY <1>1, <1>3
  <2> HIDE DEF C, Full
  <2> QED BY <1>1, <2>1, <2>3, <2>4
<1>6. ASSUME NEW i \in 1..n, i - 1 \in Good PROVE i \in Good
  <2>0. i \in 0..n /\ i \in Nat
    BY <1>1
  <2>1. CASE i < a
    BY <1>1, <2>0, <2>1
  <2>2. CASE i = a
    BY <1>5, <2>2
  <2>3. CASE i > a
    <3>1. i \in (a + 1)..n /\ i - 1 \in 0..n /\ i - 1 >= a
      BY <1>1, <2>3
    <3>2. /\ C(i - 1) \in Nat /\ C(i) = C(i - 1) + (IF i \in D THEN 1 ELSE 0)
          /\ \A p \in Nat : p \in Within(D, a, i) <=> p \in Within(D, a, i - 1) \/ (p = i /\ i \in D)
      BY <1>1, <3>1, WithinStep
    <3>3. /\ Len(g[i - 1]) <= Len(g[a]) + C(i - 1)
          /\ Len(g[i - 1]) = Len(g[a]) + C(i - 1) <=> Full(i - 1)
      BY <1>6, <3>1
    <3>4. Full(i) <=> Full(i - 1) /\ (i \in D => Len(added[i]) = 1)
      <4>1. \A p \in D : p \in Nat
        BY <1>1
      <4>2. Within(D, a, i) \subseteq Nat /\ Within(D, a, i - 1) \subseteq Nat
        BY <4>1 DEF Within
      <4> QED BY <2>0, <3>2, <4>2
    <3>5. g[i] = g[i - 1] \o added[i] /\ g[i - 1] \in Seq(T) /\ added[i] \in Seq(T)
      BY <1>2, <1>3, <1>4, <3>1 DEF Joins
    <3>6. Len(g[i]) = Len(g[i - 1]) + Len(added[i])
      BY <3>5, ConcatProperties
    <3>7. Len(g[i - 1]) \in Nat /\ Len(g[a]) \in Nat
      BY <1>1, <1>3, <3>1
    <3>8. Len(added[i]) \in {0, 1} /\ (i \notin D => Len(added[i]) = 0)
      BY <1>4
    <3> HIDE DEF C, Full
    <3>9. /\ C(i) \in Nat /\ Len(g[i]) <= Len(g[a]) + C(i)
          /\ Len(g[i]) = Len(g[a]) + C(i) <=> Full(i)
      <4>1. CASE i \in D
        <5>1. C(i) = C(i - 1) + 1 /\ C(i - 1) \in Nat /\ (Full(i) <=> Full(i - 1) /\ Len(added[i]) = 1)
          BY <3>2, <3>4, <4>1
        <5>2. CASE Len(added[i]) = 0
          BY <3>3, <3>6, <3>7, <5>1, <5>2
        <5>3. CASE Len(added[i]) = 1
          <6>1. Len(g[i]) <= Len(g[a]) + C(i) /\ C(i) \in Nat
            BY <3>3, <3>6, <3>7, <5>1, <5>3
          <6>3. Len(g[i]) = Len(g[i - 1]) + 1 /\ C(i) = C(i - 1) + 1
            BY <3>6, <5>1, <5>3
          <6>4. \A x, y, z \in Nat : x + 1 = y + (z + 1) <=> x = y + z
            OBVIOUS
          <6>5. Len(g[i - 1]) + 1 = Len(g[a]) + (C(i - 1) + 1) <=> Len(g[i - 1]) = Len(g[a]) + C(i - 1)
            BY <3>7, <5>1, <6>4
          <6>2. Len(g[i]) = Len(g[a]) + C(i) <=> Len(g[i - 1]) = Len(g[a]) + C(i - 1)
            BY <6>3, <6>5
          <6> QED BY <3>3, <5>1, <5>3, <6>1, <6>2
        <5> QED BY <3>8, <5>2, <5>3
      <4>2. CASE i \notin D
        <5>1. C(i) = C(i - 1) /\ C(i - 1) \in Nat /\ (Full(i) <=> Full(i - 1)) /\ Len(added[i]) = 0
          BY <3>2, <3>4, <3>8, <4>2
        <5> QED BY <3>3, <3>6, <3>7, <5>1
      <4> QED BY <4>1, <4>2
    <3> QED BY <2>0, <3>9
  <2>4. i < a \/ i = a \/ i > a
    BY <1>1, <2>0
  <2> HIDE DEF Good
  <2> QED BY <2>1, <2>2, <2>3, <2>4
<1>7. 0 \in Good
  <2>1. CASE a = 0
    BY <1>5, <2>1
  <2>2. CASE a # 0
    BY <1>1, <2>2
  <2> QED BY <2>1, <2>2
<1> HIDE DEF Good
<1>8. \A b \in 0..n : b \in Good
  BY <1>1, <1>6, <1>7, UpTo
<1> SUFFICES ASSUME NEW b \in a..n PROVE Counted(blocks, size, g, a, b)
  BY DEF n
<1>9. b \in 0..n /\ b >= a /\ b \in Good
  BY <1>1, <1>8
<1>10. /\ C(b) \in Nat /\ Len(g[b]) <= Len(g[a]) + C(b)
       /\ Len(g[b]) = Len(g[a]) + C(b) <=> Full(b)
  BY <1>9 DEF Good
<1>11. Len(g[a]) \in Nat /\ Len(g[b]) \in Nat
  BY <1>1, <1>3, <1>9
<1> QED BY <1>10, <1>11 DEF Counted, D, added

(* When each data block adds its row, the page's rows are theirs, in their order *)
Placed(blocks, rows) ==
  /\ Len(rows) = DataRows(blocks)
  /\ \A p \in DataBlocks(blocks) : rows[Rank(DataBlocks(blocks), p)] = blocks[p].row

LEMMA RowsPlaced ==
  ASSUME NEW T, NEW blocks \in Seq(Blocks(T)), NEW size, Undoubled(blocks),
         NEW g, Joined(T, Len(blocks), Added(blocks, size), g),
         \A i \in DataBlocks(blocks) : Len(Added(blocks, size)[i]) = 1
  PROVE  Placed(blocks, g[Len(blocks)])
<1> DEFINE n == Len(blocks)
           D == DataBlocks(blocks)
           added == Added(blocks, size)
<1>1. n \in Nat /\ D \in SUBSET (1..n) /\ DataRows(blocks) = Cardinality(Within(D, 0, n))
  BY DataIs
<1>2. g \in [0..n -> Seq(T)] /\ added \in [1..n -> Seq(T)] /\ Joins(g, added, n)
  BY DEF Joined
<1>3. \A b \in 0..n : g[b] \in Seq(T) /\ Len(g[b]) \in Nat
  BY <1>2, LenProperties
<1>4. \A i \in 1..n : /\ i \notin D => Len(added[i]) = 0
                      /\ i \in D => Len(added[i]) = 1 /\ added[i] = <<blocks[i].row>>
                      /\ added[i] \in Seq(T)
  BY <1>2, AddsOneOrNone
<1> HIDE DEF n, D, added
<1> DEFINE Good == {b \in 0..n : /\ Len(g[b]) = Rank(D, b)
                                 /\ \A p \in Within(D, 0, b) : g[b][Rank(D, p)] = blocks[p].row}
<1>5. 0 \in Good
  <2>a. D \in SUBSET Nat /\ 0 \in Nat
    BY <1>1
  <2>1. Rank(D, 0) = 0
    BY <2>a, WithinNone DEF Rank
  <2>2. g[0] = <<>> /\ Len(<<>>) = 0
    BY <1>2 DEF Joins
  <2>3. \A p : p \notin Within(D, 0, 0)
    BY <2>a, WithinNone
  <2> QED BY <1>1, <2>1, <2>2, <2>3
<1>6. ASSUME NEW i \in 1..n, i - 1 \in Good PROVE i \in Good
  <2>1. i \in (0 + 1)..n /\ i - 1 \in 0..n /\ i \in 0..n /\ i \in Nat /\ 0 \in 0..n
    BY <1>1
  <2>2. /\ Rank(D, i - 1) \in Nat /\ Rank(D, i) = Rank(D, i - 1) + (IF i \in D THEN 1 ELSE 0)
        /\ \A p \in Nat : p \in Within(D, 0, i) <=> p \in Within(D, 0, i - 1) \/ (p = i /\ i \in D)
    BY <1>1, <2>1, WithinStep DEF Rank
  <2>3. /\ Len(g[i - 1]) = Rank(D, i - 1)
        /\ \A p \in Within(D, 0, i - 1) : g[i - 1][Rank(D, p)] = blocks[p].row
    BY <1>6
  <2>4. g[i] = g[i - 1] \o added[i] /\ g[i - 1] \in Seq(T) /\ added[i] \in Seq(T)
    BY <1>2, <1>3, <1>4, <2>1 DEF Joins
  <2>5. /\ Len(g[i]) = Len(g[i - 1]) + Len(added[i])
        /\ \A k \in 1..(Len(g[i - 1]) + Len(added[i])) :
             g[i][k] = IF k <= Len(g[i - 1]) THEN g[i - 1][k] ELSE added[i][k - Len(g[i - 1])]
    <3>1. /\ Len(g[i - 1] \o added[i]) = Len(g[i - 1]) + Len(added[i])
          /\ \A k \in 1..(Len(g[i - 1]) + Len(added[i])) :
               (g[i - 1] \o added[i])[k]
                 = IF k <= Len(g[i - 1]) THEN g[i - 1][k] ELSE added[i][k - Len(g[i - 1])]
      BY <2>4, ConcatProperties
    <3> QED BY <2>4, <3>1
  <2>6. Len(g[i]) = Rank(D, i)
    BY <1>4, <2>2, <2>3, <2>5
  <2>7. ASSUME NEW p \in Within(D, 0, i) PROVE g[i][Rank(D, p)] = blocks[p].row
    <3>1. p \in Nat /\ p \in D
      <4>1. p \in D
        BY DEF Within
      <4> QED BY <1>1, <4>1
    <3>2. CASE p = i
      <4>1. Len(added[i]) = 1 /\ added[i] = <<blocks[i].row>> /\ Rank(D, i) = Rank(D, i - 1) + 1
        BY <1>4, <2>2, <3>1, <3>2
      <4>2. /\ Rank(D, i) \in 1..(Len(g[i - 1]) + Len(added[i])) /\ ~(Rank(D, i) <= Len(g[i - 1]))
            /\ Rank(D, i) - Len(g[i - 1]) = 1
        BY <2>2, <2>3, <4>1
      <4>3. g[i][Rank(D, i)] = added[i][1]
        BY <2>5, <4>2
      <4> QED BY <3>2, <4>1, <4>3
    <3>3. CASE p # i
      <4>1. p \in Within(D, 0, i - 1)
        BY <2>2, <3>1, <3>3
      <4>2. Rank(D, p) \in 1..Cardinality(D)
        BY <1>1, <3>1, RanksGrow
      <4>3. Rank(D, p) <= Rank(D, i - 1)
        <5>1. p <= i - 1 /\ i - 1 \in Nat
          BY <2>1, <3>1, <4>1 DEF Within
        <5> QED BY <1>1, <3>1, <5>1, RanksRise
      <4>4. Rank(D, p) \in Nat /\ Rank(D, p) > 0 /\ Cardinality(D) \in Nat
        <5>1. Cardinality(D) \in Nat
          BY <1>1, WithinCounts
        <5> QED BY <4>2, <5>1
      <4>5. Len(added[i]) \in Nat
        BY <1>4
      <4>6. Rank(D, p) \in 1..(Len(g[i - 1]) + Len(added[i])) /\ Rank(D, p) <= Len(g[i - 1])
        BY <2>2, <2>3, <4>3, <4>4, <4>5
      <4>7. g[i][Rank(D, p)] = g[i - 1][Rank(D, p)]
        BY <2>5, <4>6
      <4> QED BY <2>3, <4>1, <4>7
    <3> QED BY <3>2, <3>3
  <2> QED BY <2>1, <2>6, <2>7
<1> HIDE DEF Good
<1>7. \A b \in 0..n : b \in Good
  BY <1>1, <1>5, <1>6, UpTo
<1>8. n \in Good
  BY <1>1, <1>7
<1>9. Len(g[n]) = Rank(D, n) /\ \A p \in Within(D, 0, n) : g[n][Rank(D, p)] = blocks[p].row
  BY <1>8 DEF Good
<1>10. Within(D, 0, n) = D
  BY <1>1, WithinAll
<1> QED BY <1>1, <1>9, <1>10 DEF Placed, Rank, n, D

---------------------------------------------------------------------------
(* The verdict on a page *)

RepairedBlocks(page) == [i \in DOMAIN page.blocks |-> Repaired(page.blocks[i])]

LEMMA PageType ==
  ASSUME NEW page \in TermPages
  PROVE  LET n == Len(page.blocks)
             blocks == RepairedBlocks(page)
         IN  /\ n \in Nat /\ DOMAIN page.blocks = 1..n
             /\ blocks \in Seq(Blocks(ListedRows(page))) /\ Len(blocks) = n
             /\ \A i \in 1..n :
                  /\ page.blocks[i].shape \in Shapes
                  /\ blocks[i].row = page.blocks[i].row
                  /\ blocks[i].shape = IF page.blocks[i].shape = "cut" THEN "whole"
                                       ELSE page.blocks[i].shape
             /\ DataBlocks(blocks) = {i \in DOMAIN page.blocks : page.blocks[i].shape # "blank"}
<1> DEFINE T == ListedRows(page)
           n == Len(page.blocks)
           blocks == RepairedBlocks(page)
<1>1. page.blocks \in Seq([shape : Shapes, row : T])
  BY WholeTermAssumption
<1> HIDE DEF T
<1>2. n \in Nat /\ DOMAIN page.blocks = 1..n
  BY <1>1, LenProperties
<1>3. \A i \in 1..n : page.blocks[i] \in [shape : Shapes, row : T]
  BY <1>1, LenProperties
<1>4. \A i \in 1..n :
        /\ Repaired(page.blocks[i]) \in [shape : Shapes, row : T]
        /\ Repaired(page.blocks[i]).row = page.blocks[i].row
        /\ Repaired(page.blocks[i]).shape = IF page.blocks[i].shape = "cut" THEN "whole"
                                            ELSE page.blocks[i].shape
  <2> SUFFICES ASSUME NEW i \in 1..n
               PROVE  /\ Repaired(page.blocks[i]) \in [shape : Shapes, row : T]
                      /\ Repaired(page.blocks[i]).row = page.blocks[i].row
                      /\ Repaired(page.blocks[i]).shape
                           = IF page.blocks[i].shape = "cut" THEN "whole" ELSE page.blocks[i].shape
    OBVIOUS
  <2> DEFINE b == page.blocks[i]
  <2>1. b \in [shape : Shapes, row : T]
    BY <1>3
  <2>2. "whole" \in Shapes
    BY DEF Shapes
  <2> HIDE DEF b
  <2>3. /\ Repaired(b) \in [shape : Shapes, row : T] /\ Repaired(b).row = b.row
        /\ Repaired(b).shape = IF b.shape = "cut" THEN "whole" ELSE b.shape
    BY <2>1, <2>2 DEF Repaired
  <2> QED BY <2>3 DEF b
<1>5. blocks = [i \in 1..n |-> Repaired(page.blocks[i])]
  BY <1>2 DEF RepairedBlocks
<1>6. blocks \in Seq(Blocks(T)) /\ Len(blocks) = n /\ DOMAIN blocks = 1..n
  BY <1>2, <1>4, <1>5 DEF Blocks
<1>7. \A i \in 1..n :
        /\ page.blocks[i].shape \in Shapes
        /\ blocks[i].row = page.blocks[i].row
        /\ blocks[i].shape = IF page.blocks[i].shape = "cut" THEN "whole"
                             ELSE page.blocks[i].shape
  BY <1>3, <1>4, <1>5
<1> HIDE DEF blocks
<1>8. DataBlocks(blocks) = {i \in DOMAIN page.blocks : page.blocks[i].shape # "blank"}
  <2>1. \A i \in 1..n : IsData(blocks[i]) <=> page.blocks[i].shape # "blank"
    BY <1>7 DEF IsData
  <2> QED BY <1>2, <1>6, <2>1 DEF DataBlocks
<1> QED BY <1>2, <1>6, <1>7, <1>8 DEF blocks, T

(* A page every chunk of which is read to its end *)
Readable(page, size) ==
  /\ page.header # "none"
  /\ page.header = "expected" \/ Len(page.blocks) = 0
  /\ NothingRaised(RepairedBlocks(page), size)

ChunkStats(page, size) ==
  [k \in 1..ChunkCount(RepairedBlocks(page), size) |->
     ChunkStat(page.header, RepairedBlocks(page), size, k)]

(* The first chunk that makes the parser raise *)
FailedChunks(blocks, size) ==
  {k \in 1..ChunkCount(blocks, size) : ChunkList(blocks, size)[k].error # "none"}

LEMMA ErrorKinds ==
  ASSUME NEW header, NEW T, NEW chunk \in Seq(Blocks(T))
  PROVE  ParseChunk(header, chunk).error \in {"none", "ScheduleParseError", "ValidationError"}
<1>1. \A b : RowError(b) \in {"none", "ScheduleParseError", "ValidationError"}
  BY DEF RowError
<1>2. CASE header # "expected"
  BY <1>2 DEF ParseChunk
<1>3. CASE header = "expected"
  <2>1. CASE Raising(chunk) # {}
    <3>1. ParseChunk("expected", chunk).error = RowError(chunk[Min(Raising(chunk))])
      BY <2>1, ChunkReads
    <3> QED BY <1>1, <1>3, <3>1
  <2>2. CASE Raising(chunk) = {}
    BY <1>3, <2>2, ChunkReads
  <2> QED BY <2>1, <2>2
<1> QED BY <1>2, <1>3

LEMMA Verdict ==
  ASSUME NEW page \in TermPages, NEW size \in ChunkSizes, NEW mode
  PROVE  LET blocks == RepairedBlocks(page)
             out == ParseWholeTerm(page, size, mode)
             parsed == ParsedRows(blocks, size)
             failed == FailedChunks(blocks, size)
         IN  /\ Readable(page, size) /\ Len(parsed) # DataRows(blocks) =>
                  out = [result |-> "LostRowsError",
                         diagnostics |-> Diagnostics(blocks, ChunkStats(page, size))]
             /\ Readable(page, size) /\ Len(parsed) = DataRows(blocks) =>
                  out = NormalizeRows(parsed, mode)
             /\ page.header = "expected" /\ failed # {} =>
                  out = Refused(ChunkList(blocks, size)[Min(failed)].error)
             /\ page.header # "expected" /\ ~Readable(page, size) =>
                  out = Refused("ScheduleParseError")
             /\ ~Readable(page, size) =>
                  out.result \in {"ScheduleParseError", "ValidationError"}
<1> DEFINE T == ListedRows(page)
           n == Len(page.blocks)
           blocks == RepairedBlocks(page)
           c == ChunkCount(blocks, size)
           chunks == [k \in 1..c |-> ParseChunk(page.header, ChunkBlocks(blocks, size, k))]
           raising == SelectInSeq(chunks, LAMBDA x : x.error # "none")
           parsed == FlattenSeq([k \in 1..c |-> chunks[k].rows])
           S == {k \in 1..Len(chunks) : chunks[k].error # "none"}
           out == ParseWholeTerm(page, size, mode)
<1>1. out = IF page.header = "none" THEN Refused("ScheduleParseError")
            ELSE IF raising # 0 THEN Refused(chunks[raising].error)
            ELSE IF Len(parsed) # DataRows(blocks)
              THEN [result |-> "LostRowsError",
                    diagnostics |-> Diagnostics(blocks, ChunkStats(page, size))]
            ELSE NormalizeRows(parsed, mode)
  <2>1. DOMAIN chunks = 1..c
    OBVIOUS
  <2>2. blocks = [i \in DOMAIN page.blocks |-> Repaired(page.blocks[i])]
    BY DEF RepairedBlocks
  <2> QED BY <2>1, <2>2 DEF ParseWholeTerm, ChunkStats
<1>2. raising = IF S # {} THEN Min(S) ELSE 0
  BY DEF SelectInSeq
<1>3. size \in Nat \ {0} /\ n \in Nat /\ blocks \in Seq(Blocks(T)) /\ Len(blocks) = n
  BY WholeTermAssumption, PageType
<1>4. c \in Nat /\ (c = 0 <=> n = 0)
  <2>1. c = (n + size - 1) \div size
    BY <1>3 DEF ChunkCount
  <2> HIDE DEF c
  <2> QED BY <1>3, <2>1, ChunkCuts
<1>5. Len(chunks) = c /\ \A k \in 1..c : chunks[k] = ParseChunk(page.header, ChunkBlocks(blocks, size, k))
  BY <1>4
<1>6. \A k \in 1..c : chunks[k].error \in {"none", "ScheduleParseError", "ValidationError"}
  <2> SUFFICES ASSUME NEW k \in 1..c
               PROVE  ParseChunk(page.header, ChunkBlocks(blocks, size, k)).error
                        \in {"none", "ScheduleParseError", "ValidationError"}
    BY <1>5
  <2>1. ChunkBlocks(blocks, size, k) \in Seq(Blocks(T))
    BY <1>3, ChunkIs
  <2> QED BY <2>1, ErrorKinds
<1>7. page.header = "expected" \/ c = 0 =>
        chunks = ChunkList(blocks, size) /\ parsed = ParsedRows(blocks, size)
  <2>1. CASE page.header = "expected"
    BY <2>1 DEF ChunkList, ParsedRows
  <2>2. CASE c = 0
    <3>1. 1..c = {}
      BY <2>2
    <3>2. chunks = ChunkList(blocks, size)
      BY <3>1 DEF ChunkList
    <3> HIDE DEF chunks, c
    <3>3. parsed = ParsedRows(blocks, size)
      BY <3>2 DEF ParsedRows, c
    <3> QED BY <3>2, <3>3
  <2> QED BY <2>1, <2>2
<1>8. page.header # "expected" => \A k \in 1..c : chunks[k].error = "ScheduleParseError"
  BY <1>5 DEF ParseChunk
<1> HIDE DEF blocks, c, chunks, raising, parsed, out
<1>9. S \in SUBSET (1..c)
  BY <1>5
<1> HIDE DEF S
<1>10. /\ raising = 0 => S = {}
       /\ S = {} => raising = 0
       /\ raising # 0 => raising \in S /\ raising = Min(S)
  BY <1>2, <1>4, <1>9, FirstIn
<1>11. \A k \in S : k \in 1..c /\ chunks[k].error \in {"ScheduleParseError", "ValidationError"}
  BY <1>5, <1>6, <1>9 DEF S
<1>12. (page.header = "expected" \/ c = 0) => S = FailedChunks(blocks, size)
  BY <1>5, <1>7 DEF S, FailedChunks, c
<1>13. FailedChunks(blocks, size) = {} <=> NothingRaised(blocks, size)
  BY DEF FailedChunks, NothingRaised
<1>14. Readable(page, size) <=> /\ page.header # "none" /\ NothingRaised(blocks, size)
                                /\ page.header = "expected" \/ c = 0
  BY <1>4 DEF Readable, blocks, n
<1>15. ASSUME Readable(page, size)
       PROVE  /\ raising = 0 /\ page.header # "none" /\ parsed = ParsedRows(blocks, size)
  BY <1>7, <1>10, <1>12, <1>13, <1>14, <1>15
<1>16. ASSUME page.header = "expected", FailedChunks(blocks, size) # {}
       PROVE  out = Refused(ChunkList(blocks, size)[Min(FailedChunks(blocks, size))].error)
  <2>1. raising # 0 /\ raising = Min(FailedChunks(blocks, size)) /\ chunks = ChunkList(blocks, size)
    BY <1>7, <1>10, <1>12, <1>16
  <2> QED BY <1>1, <1>16, <2>1 DEF out
<1>17. ASSUME page.header # "expected", ~Readable(page, size)
       PROVE  out = Refused("ScheduleParseError")
  <2>1. CASE page.header = "none"
    BY <1>1, <2>1
  <2>2. CASE page.header # "none"
    <3>1. c # 0
      <4>1. c = 0 => NothingRaised(blocks, size)
        BY DEF NothingRaised, c
      <4> QED BY <1>14, <1>17, <2>2, <4>1
    <3>2. 1 \in 1..c
      BY <1>4, <3>1
    <3>3. S # {}
      BY <1>5, <1>8, <1>17, <3>2 DEF S
    <3>4. raising \in S /\ raising # 0
      BY <1>10, <3>3
    <3>5. chunks[raising].error = "ScheduleParseError"
      BY <1>8, <1>11, <1>17, <3>4
    <3> QED BY <1>1, <2>2, <3>4, <3>5
  <2> QED BY <2>1, <2>2
<1>18. ASSUME ~Readable(page, size)
       PROVE  out.result \in {"ScheduleParseError", "ValidationError"}
  <2>1. CASE page.header # "expected"
    BY <1>17, <1>18, <2>1 DEF Refused
  <2>2. CASE page.header = "expected"
    <3>1. raising # 0 /\ raising \in S
      BY <1>10, <1>12, <1>13, <1>14, <1>18, <2>2
    <3>2. out = Refused(chunks[raising].error)
      BY <1>1, <2>2, <3>1
    <3> QED BY <1>11, <3>1, <3>2 DEF Refused
  <2> QED BY <2>1, <2>2
<1> QED BY <1>1, <1>15, <1>16, <1>17, <1>18 DEF blocks, out

Unmerged(page) == "double" \notin Damage(page)

LEMMA UnmergedIs ==
  ASSUME NEW page \in TermPages, Unmerged(page)
  PROVE  Undoubled(RepairedBlocks(page))
<1> DEFINE n == Len(page.blocks)
           blocks == RepairedBlocks(page)
<1>1. Len(blocks) = n /\ DOMAIN page.blocks = 1..n
  BY PageType
<1>2. \A i \in 1..n : blocks[i].shape = IF page.blocks[i].shape = "cut" THEN "whole"
                                        ELSE page.blocks[i].shape
  BY PageType
<1>3. \A i \in 1..n : page.blocks[i].shape # "double"
  BY <1>1 DEF Unmerged, Damage
<1> HIDE DEF n, blocks
<1>4. \A i \in 1..n : blocks[i].shape # "double"
  BY <1>2, <1>3
<1> QED BY <1>1, <1>4 DEF Undoubled, blocks

(* The prefixes of a page's rows *)
LEMMA PageJoins ==
  ASSUME NEW page \in TermPages, NEW size \in ChunkSizes
  PROVE  LET T == ListedRows(page)
             blocks == RepairedBlocks(page)
         IN  \E g : /\ Joined(T, Len(blocks), Added(blocks, size), g)
                    /\ g[0] = <<>> /\ g[Len(blocks)] \in Seq(T)
                    /\ Readable(page, size) => ParsedRows(blocks, size) = g[Len(blocks)]
<1> DEFINE T == ListedRows(page)
           blocks == RepairedBlocks(page)
<1>1. blocks \in Seq(Blocks(T)) /\ Len(blocks) \in Nat /\ size \in Nat \ {0}
  BY PageType, WholeTermAssumption
<1> HIDE DEF T, blocks
<1>2. Added(blocks, size) \in [1..Len(blocks) -> Seq(T)]
  BY <1>1, AddedType
<1>3. PICK g : Joined(T, Len(blocks), Added(blocks, size), g)
  BY <1>1, <1>2, JoinedExists
<1>4. g[Len(blocks)] \in Seq(T)
  BY <1>1, <1>3, JoinedIs
<1>5. g[0] = <<>>
  BY <1>3 DEF Joined, Joins
<1>6. Readable(page, size) => ParsedRows(blocks, size) = g[Len(blocks)]
  BY <1>1, <1>3, ParsedIs DEF Readable, blocks
<1> QED BY <1>3, <1>4, <1>5, <1>6 DEF T, blocks

(* No more rows than data rows, and if as many, each where its block stands *)
LEMMA FullPagePlaced ==
  ASSUME NEW page \in TermPages, NEW size \in ChunkSizes, Unmerged(page), Readable(page, size),
         Len(ParsedRows(RepairedBlocks(page), size)) = DataRows(RepairedBlocks(page))
  PROVE  /\ Placed(RepairedBlocks(page), ParsedRows(RepairedBlocks(page), size))
         /\ ParsedRows(RepairedBlocks(page), size) \in Seq(ListedRows(page))
<1> DEFINE T == ListedRows(page)
           blocks == RepairedBlocks(page)
           n == Len(blocks)
<1>1. blocks \in Seq(Blocks(T)) /\ n \in Nat /\ Undoubled(blocks)
  BY PageType, UnmergedIs
<1>2. PICK g : /\ Joined(T, n, Added(blocks, size), g)
               /\ g[0] = <<>> /\ g[n] \in Seq(T)
               /\ ParsedRows(blocks, size) = g[n]
  BY PageJoins
<1>3. Len(g[n]) = DataRows(blocks) /\ DataRows(blocks) = Cardinality(Within(DataBlocks(blocks), 0, n))
  BY <1>1, <1>2, DataIs
<1> HIDE DEF T, blocks
<1>4. 0 \in 0..n /\ n \in 0..n
  BY <1>1
<1>5. Counted(blocks, size, g, 0, n)
  BY <1>1, <1>2, <1>4, RowsCounted
<1>6. Len(<<>>) = 0
  OBVIOUS
<1>7. \A i \in Within(DataBlocks(blocks), 0, n) : Len(Added(blocks, size)[i]) = 1
  BY <1>2, <1>3, <1>5, <1>6 DEF Counted
<1>8. Within(DataBlocks(blocks), 0, n) = DataBlocks(blocks)
  BY <1>1, DataIs, WithinAll
<1>9. Placed(blocks, g[n])
  BY <1>1, <1>2, <1>7, <1>8, RowsPlaced
<1> QED BY <1>2, <1>9 DEF blocks, T

LEMMA AtIs ==
  ASSUME NEW seq, NEW n \in Nat, NEW D \in SUBSET (1..n)
  PROVE  /\ DOMAIN At(seq, D) = 1..Cardinality(D) /\ Len(At(seq, D)) = Cardinality(D)
         /\ Cardinality(D) \in Nat
         /\ \A k \in 1..Cardinality(D) : At(seq, D)[k] = seq[InOrder(D)[k]]
         /\ \A p \in D : Rank(D, p) \in 1..Cardinality(D) /\ At(seq, D)[Rank(D, p)] = seq[p]
<1>1. Cardinality(D) \in Nat
  BY InOrderRanks
<1>2. \A p \in D : Rank(D, p) \in 1..Cardinality(D) /\ InOrder(D)[Rank(D, p)] = p
  BY InOrderRanks
<1>3. At(seq, D) = [k \in 1..Cardinality(D) |-> seq[InOrder(D)[k]]]
  BY DEF At
<1> QED BY <1>1, <1>2, <1>3

(* What is listed on a page: its data blocks in their order *)
LEMMA ListedIs ==
  ASSUME NEW page \in TermPages
  PROVE  LET blocks == RepairedBlocks(page)
             D == DataBlocks(blocks)
             listed == Listed(page)
         IN  /\ Len(listed) = DataRows(blocks) /\ DataRows(blocks) = Cardinality(D)
             /\ Cardinality(D) \in Nat /\ DOMAIN listed = 1..Cardinality(D)
             /\ \A p \in DOMAIN listed :
                  /\ InOrder(D)[p] \in D /\ Rank(D, InOrder(D)[p]) = p
                  /\ listed[p] = page.blocks[InOrder(D)[p]]
                  /\ listed[p].row = blocks[InOrder(D)[p]].row
<1> DEFINE blocks == RepairedBlocks(page)
           D == DataBlocks(blocks)
           listed == Listed(page)
           n == Len(page.blocks)
<1>1. n \in Nat /\ D \in SUBSET (1..n)
  <2>1. n \in Nat /\ blocks \in Seq(Blocks(ListedRows(page))) /\ Len(blocks) = n
    BY PageType
  <2> QED BY <2>1, DataIs
<1>2. listed = At(page.blocks, D)
  BY PageType DEF Listed
<1>3. \A i \in 1..n : blocks[i].row = page.blocks[i].row
  BY PageType
<1>4. DataRows(blocks) = Cardinality(D)
  BY DEF DataRows
<1> HIDE DEF blocks, D, listed, n
<1>5. /\ DOMAIN listed = 1..Cardinality(D) /\ Len(listed) = Cardinality(D)
      /\ Cardinality(D) \in Nat
      /\ \A p \in 1..Cardinality(D) : listed[p] = page.blocks[InOrder(D)[p]]
  BY <1>1, <1>2, AtIs
<1>6. \A p \in 1..Cardinality(D) : InOrder(D)[p] \in D /\ Rank(D, InOrder(D)[p]) = p
  BY <1>1, InOrderRanks
<1>7. \A p \in 1..Cardinality(D) : listed[p].row = blocks[InOrder(D)[p]].row
  BY <1>1, <1>3, <1>5, <1>6
<1> QED BY <1>4, <1>5, <1>6, <1>7 DEF blocks, D, listed

LEMMA ReadsListed ==
  ASSUME NEW page \in TermPages, NEW rows, Placed(RepairedBlocks(page), rows)
  PROVE  /\ Len(rows) = Len(Listed(page)) /\ Len(rows) \in Nat
         /\ DOMAIN Listed(page) = 1..Len(rows)
         /\ \A p \in 1..Len(rows) : rows[p] = Listed(page)[p].row
<1> DEFINE blocks == RepairedBlocks(page)
           D == DataBlocks(blocks)
           listed == Listed(page)
<1>1. /\ Len(listed) = DataRows(blocks) /\ DataRows(blocks) = Cardinality(D)
      /\ Cardinality(D) \in Nat /\ DOMAIN listed = 1..Cardinality(D)
      /\ \A p \in DOMAIN listed : /\ InOrder(D)[p] \in D /\ Rank(D, InOrder(D)[p]) = p
                                  /\ listed[p].row = blocks[InOrder(D)[p]].row
  BY ListedIs
<1>2. Len(rows) = DataRows(blocks) /\ \A p \in D : rows[Rank(D, p)] = blocks[p].row
  BY DEF Placed
<1> HIDE DEF blocks, D, listed
<1> QED BY <1>1, <1>2 DEF listed

(* Each of the first m numbers is in one of the three *)
Partitions(m, A, B, C) ==
  1..m = A \cup B \cup C /\ A \cap B = {} /\ A \cap C = {} /\ B \cap C = {}

LEMMA PartsCount ==
  ASSUME NEW m \in Nat, NEW A, NEW B, NEW C, Partitions(m, A, B, C)
  PROVE  /\ Cardinality(A) \in Nat /\ Cardinality(B) \in Nat /\ Cardinality(C) \in Nat
         /\ Cardinality(A) + Cardinality(B) + Cardinality(C) = m
<1>0. 1..m = A \cup B \cup C /\ A \cap B = {} /\ A \cap C = {} /\ B \cap C = {}
  BY DEF Partitions
<1>1. IsFiniteSet(1..m) /\ Cardinality(1..m) = m
  BY FS_Interval
<1>2. IsFiniteSet(A) /\ IsFiniteSet(B) /\ IsFiniteSet(C) /\ IsFiniteSet(A \cup B)
  <2>1. A \cup B \subseteq 1..m /\ A \subseteq 1..m /\ B \subseteq 1..m /\ C \subseteq 1..m
    BY <1>0
  <2> QED BY <1>1, <2>1, FS_Subset
<1>3. Cardinality(A) \in Nat /\ Cardinality(B) \in Nat /\ Cardinality(C) \in Nat
  BY <1>2, FS_CardinalityType
<1>4. Cardinality(A \cup B) = Cardinality(A) + Cardinality(B)
  <2>1. Cardinality(A \cap B) = 0
    BY <1>0, FS_EmptySet
  <2>2. Cardinality(A \cup B) = Cardinality(A) + Cardinality(B) - Cardinality(A \cap B)
    BY <1>2, FS_Union
  <2> QED BY <1>3, <2>1, <2>2
<1>5. Cardinality((A \cup B) \cup C) = Cardinality(A \cup B) + Cardinality(C)
  <2>1. (A \cup B) \cap C = {}
    BY <1>0
  <2>2. Cardinality((A \cup B) \cap C) = 0
    BY <2>1, FS_EmptySet
  <2>3. Cardinality((A \cup B) \cup C)
          = Cardinality(A \cup B) + Cardinality(C) - Cardinality((A \cup B) \cap C)
    BY <1>2, FS_Union
  <2>4. Cardinality(A \cup B) \in Nat
    BY <1>3, <1>4
  <2> QED BY <1>3, <2>2, <2>3, <2>4
<1>6. Cardinality((A \cup B) \cup C) = m
  BY <1>0, <1>1
<1> QED BY <1>3, <1>4, <1>5, <1>6

(* The lists of an accepted page *)
LEMMA AcceptedWhole ==
  ASSUME NEW page \in TermPages, NEW mode \in Modes, NEW rows,
         rows \in Seq(ListedRows(page)), Placed(RepairedBlocks(page), rows),
         NormalizeRows(rows, mode).result = "parsed"
  PROVE  AcceptedIsWhole(page, mode, NormalizeRows(rows, mode))
<1> DEFINE listed == Listed(page)
           m == Len(rows)
           out == NormalizeRows(rows, mode)
           passed == {i \in DOMAIN rows : mode.gate => rows[i].scoped}
           good == {i \in passed : Normalizes(rows[i])}
           bad == passed \ good
           skipped == DOMAIN rows \ passed
           Fate(p) == IF mode.gate /\ ~listed[p].row.scoped THEN "skipped"
                      ELSE IF Normalizes(listed[p].row) THEN "rows" ELSE "failures"
           Place(p) == Cardinality({q \in 1..p : Fate(q) = Fate(p)})
<1>1. /\ m \in Nat /\ Len(listed) = m /\ DOMAIN listed = 1..m /\ DOMAIN rows = 1..m
      /\ \A p \in 1..m : listed[p].row = rows[p]
  BY ReadsListed, LenProperties
<1>2. ~(bad # {} /\ ~mode.quarantine)
  BY DEF NormalizeRows, Refused
<1>3. out = [result |-> "parsed",
             rows |-> [k \in 1..Cardinality(good) |-> Normalized(At(rows, good)[k])],
             skipped |-> [k \in 1..Cardinality(skipped) |-> At(rows, skipped)[k].id],
             failures |-> [k \in 1..Cardinality(bad) |->
                             RowFailure(InOrder(bad)[k], At(rows, bad)[k])]]
  BY <1>2 DEF NormalizeRows
<1>4. good \in SUBSET (1..m) /\ bad \in SUBSET (1..m) /\ skipped \in SUBSET (1..m)
  BY <1>1
<1>a. m \in Nat
  BY <1>1
<1>b. /\ 1..m = good \cup bad \cup skipped
      /\ good \cap bad = {} /\ good \cap skipped = {} /\ bad \cap skipped = {}
  BY <1>1
<1>5. \A p \in 1..m : /\ p \in good <=> Fate(p) = "rows"
                      /\ p \in bad <=> Fate(p) = "failures"
                      /\ p \in skipped <=> Fate(p) = "skipped"
  BY <1>1
<1>6. mode = LiveMode => skipped = {} /\ bad = {}
  BY <1>2 DEF LiveMode
<1> HIDE DEF out, listed, good, bad, skipped, Fate, m, passed
<1>7. ASSUME NEW X \in SUBSET (1..m), NEW v, \A p \in 1..m : p \in X <=> Fate(p) = v
      PROVE  \A p \in X : Place(p) = Rank(X, p)
  <2> SUFFICES ASSUME NEW p \in X PROVE Place(p) = Rank(X, p)
    OBVIOUS
  <2>1. p \in 1..m /\ p \in Nat /\ Fate(p) = v
    BY <1>1, <1>7
  <2>2. \A q \in 1..p : q \in 1..m /\ q \in Nat /\ 0 < q /\ q <= p
    BY <1>1, <2>1
  <2>3. \A q \in X : q \in Nat /\ q > 0
    BY <1>1
  <2>4. {q \in 1..p : Fate(q) = Fate(p)} = Within(X, 0, p)
    <3>1. ASSUME NEW q \in 1..p, Fate(q) = Fate(p) PROVE q \in Within(X, 0, p)
      BY <1>7, <2>1, <2>2, <3>1 DEF Within
    <3>2. ASSUME NEW q \in Within(X, 0, p) PROVE q \in 1..p /\ Fate(q) = Fate(p)
      <4>1. q \in X /\ q <= p /\ q \in Nat /\ q > 0
        BY <2>3 DEF Within
      <4>2. q \in 1..p
        BY <2>1, <4>1
      <4> QED BY <1>7, <2>1, <4>1, <4>2
    <3> QED BY <3>1, <3>2
  <2> QED BY <2>4 DEF Rank
<1>8. \A p \in good : out.rows[Place(p)] = Normalized(listed[p].row)
  <2> SUFFICES ASSUME NEW p \in good PROVE out.rows[Place(p)] = Normalized(listed[p].row)
    OBVIOUS
  <2>1. Place(p) = Rank(good, p)
    BY <1>4, <1>5, <1>7
  <2>2. Rank(good, p) \in 1..Cardinality(good) /\ At(rows, good)[Rank(good, p)] = rows[p]
    BY <1>a, <1>4, AtIs
  <2>3. out.rows[Rank(good, p)] = Normalized(rows[p])
    BY <1>3, <2>2
  <2>4. listed[p].row = rows[p]
    BY <1>1, <1>4
  <2> HIDE DEF Place
  <2> QED BY <2>1, <2>3, <2>4
<1>9. \A p \in bad : out.failures[Place(p)] = RowFailure(p, listed[p].row)
  <2> SUFFICES ASSUME NEW p \in bad PROVE out.failures[Place(p)] = RowFailure(p, listed[p].row)
    OBVIOUS
  <2>1. Place(p) = Rank(bad, p)
    BY <1>4, <1>5, <1>7
  <2>2. /\ Rank(bad, p) \in 1..Cardinality(bad) /\ At(rows, bad)[Rank(bad, p)] = rows[p]
        /\ InOrder(bad)[Rank(bad, p)] = p
    <3>1. Rank(bad, p) \in 1..Cardinality(bad) /\ At(rows, bad)[Rank(bad, p)] = rows[p]
      BY <1>a, <1>4, AtIs
    <3>2. InOrder(bad)[Rank(bad, p)] = p
      BY <1>a, <1>4, InOrderRanks
    <3> QED BY <3>1, <3>2
  <2>3. out.failures[Rank(bad, p)] = RowFailure(p, rows[p])
    BY <1>3, <2>2
  <2>4. listed[p].row = rows[p]
    BY <1>1, <1>4
  <2> HIDE DEF Place
  <2> QED BY <2>1, <2>3, <2>4
<1>10. \A p \in skipped : out.skipped[Place(p)] = listed[p].row.id
  <2> SUFFICES ASSUME NEW p \in skipped PROVE out.skipped[Place(p)] = listed[p].row.id
    OBVIOUS
  <2>1. Place(p) = Rank(skipped, p)
    BY <1>4, <1>5, <1>7
  <2>2. Rank(skipped, p) \in 1..Cardinality(skipped) /\ At(rows, skipped)[Rank(skipped, p)] = rows[p]
    BY <1>a, <1>4, AtIs
  <2>3. out.skipped[Rank(skipped, p)] = rows[p].id
    BY <1>3, <2>2
  <2>4. listed[p].row = rows[p]
    BY <1>1, <1>4
  <2> HIDE DEF Place
  <2> QED BY <2>1, <2>3, <2>4
<1>11. /\ Cardinality(good) \in Nat /\ Cardinality(bad) \in Nat /\ Cardinality(skipped) \in Nat
       /\ Cardinality(good) + Cardinality(bad) + Cardinality(skipped) = m
  <2>1. Partitions(m, good, bad, skipped)
    BY <1>b DEF Partitions
  <2> QED BY <1>a, <2>1, PartsCount
<1>12. /\ Len(out.rows) = Cardinality(good) /\ Len(out.failures) = Cardinality(bad)
       /\ Len(out.skipped) = Cardinality(skipped)
  BY <1>3, <1>11
<1>13. Len(out.rows) + Len(out.failures) + Len(out.skipped) = Len(listed)
  BY <1>1, <1>11, <1>12
<1>14. mode = LiveMode => Len(out.rows) = Len(listed)
  <2> SUFFICES ASSUME mode = LiveMode PROVE Len(out.rows) = Len(listed)
    OBVIOUS
  <2>1. Cardinality(skipped) = 0 /\ Cardinality(bad) = 0
    BY <1>6, FS_EmptySet
  <2> QED BY <1>1, <1>11, <1>12, <2>1
<1> HIDE DEF Place
<1>15. \A p \in DOMAIN listed :
         /\ Fate(p) = "rows" => out.rows[Place(p)] = Normalized(listed[p].row)
         /\ Fate(p) = "failures" => out.failures[Place(p)] = RowFailure(p, listed[p].row)
         /\ Fate(p) = "skipped" => out.skipped[Place(p)] = listed[p].row.id
  BY <1>1, <1>5, <1>8, <1>9, <1>10
<1> QED BY <1>13, <1>14, <1>15 DEF AcceptedIsWhole, Fate, Place, out, listed

---------------------------------------------------------------------------
(* What a refusal tells *)

LEMMA ChunkHolds ==
  ASSUME NEW T, NEW blocks \in Seq(Blocks(T)), NEW size \in Nat \ {0}, NEW i \in 1..Len(blocks)
  PROVE  \E k \in 1..ChunkCount(blocks, size) :
           Cut(Len(blocks), size, k - 1) < i /\ i <= Cut(Len(blocks), size, k)
<1> DEFINE n == Len(blocks)
           c == ChunkCount(blocks, size)
           S == {k \in 1..c : i <= Cut(n, size, k)}
<1>1. n \in Nat /\ c = (n + size - 1) \div size
  BY LenProperties DEF ChunkCount
<1> HIDE DEF n, c
<1>2. c \in Nat /\ (c = 0 <=> n = 0) /\ Cut(n, size, 0) = 0 /\ Cut(n, size, c) = n
  <2>1. c \in Nat /\ (c = 0 <=> n = 0)
    BY <1>1, ChunkCuts
  <2>2. Cut(n, size, 0) = 0
    BY <1>1, ChunkCuts
  <2>3. Cut(n, size, c) = n
    BY <1>1, ChunkCuts
  <2> QED BY <2>1, <2>2, <2>3
<1>3. \A k \in 0..c : Cut(n, size, k) \in 0..n
  BY <1>1, ChunkCuts
<1>4. i \in 1..n
  BY DEF n
<1>5. S \in SUBSET Nat /\ c \in S
  BY <1>1, <1>2, <1>4
<1>6. PICK k \in S : \A j \in S : k <= j
  BY <1>5, NatHasLeast
<1>7. k \in 1..c /\ i <= Cut(n, size, k) /\ k - 1 \in 0..c
  BY <1>2, <1>6
<1>8. Cut(n, size, k - 1) < i
  <2>1. CASE k = 1
    BY <1>2, <1>4, <2>1
  <2>2. CASE k # 1
    <3>1. k - 1 \in 1..c /\ ~(k <= k - 1)
      BY <1>2, <1>7, <2>2
    <3>2. k - 1 \notin S
      BY <1>6, <3>1
    <3>3. ~(i <= Cut(n, size, k - 1))
      BY <3>1, <3>2
    <3>4. Cut(n, size, k - 1) \in Nat /\ i \in Nat
      BY <1>1, <1>3, <1>4, <1>7
    <3> QED BY <3>3, <3>4
  <2> QED BY <2>1, <2>2
<1> QED BY <1>7, <1>8 DEF n, c

LEMMA StartData ==
  ASSUME NEW T, NEW blocks \in Seq(Blocks(T)), NEW b \in 0..Len(blocks)
  PROVE  DataRows(SubSeq(blocks, 1, b)) = Rank(DataBlocks(blocks), b)
<1>1. PICK a \in Int : a = 0
  OBVIOUS
<1>2. a \in 0..Len(blocks) /\ b \in a..Len(blocks) /\ a + 1 = 1
  <2>1. Len(blocks) \in Nat
    BY LenProperties
  <2> QED BY <1>1, <2>1
<1>3. DataRows(SubSeq(blocks, a + 1, b)) = Cardinality(Within(DataBlocks(blocks), a, b))
  BY <1>2, WindowData
<1> QED BY <1>1, <1>2, <1>3 DEF Rank

(* The counts kept of chunk k *)
Tallied(page, size, k) ==
  LET blocks == RepairedBlocks(page)
      D      == DataBlocks(blocks)
      a      == Cut(Len(blocks), size, k - 1)
      b      == Cut(Len(blocks), size, k)
      stat   == ChunkStats(page, size)[k]
  IN  /\ stat.first = Rank(D, a)
      /\ stat.data = Cardinality(Within(D, a, b))
      /\ stat.first + stat.data = Rank(D, b)
      /\ stat.parsed = Len(ChunkList(blocks, size)[k].rows)

LEMMA StatsTally ==
  ASSUME NEW page \in TermPages, NEW size \in ChunkSizes, Readable(page, size),
         NEW k \in 1..ChunkCount(RepairedBlocks(page), size)
  PROVE  Tallied(page, size, k)
<1> DEFINE T == ListedRows(page)
           blocks == RepairedBlocks(page)
           D == DataBlocks(blocks)
           n == Len(blocks)
           c == ChunkCount(blocks, size)
           a == Cut(n, size, k - 1)
           b == Cut(n, size, k)
           stat == ChunkStats(page, size)[k]
<1>1. /\ blocks \in Seq(Blocks(T)) /\ n \in Nat /\ n = Len(page.blocks) /\ size \in Nat \ {0}
      /\ D \in SUBSET (1..n)
  BY PageType, WholeTermAssumption, DataIs
<1>2. stat = ChunkStat(page.header, blocks, size, k)
  BY DEF ChunkStats
<1> HIDE DEF T, blocks, stat
<1>b. k \in 1..ChunkCount(blocks, size)
  BY DEF blocks
<1>3. c = (n + size - 1) \div size /\ k \in 1..c
  BY DEF ChunkCount, blocks
<1>4. /\ a \in 0..n /\ b \in 0..n /\ a < b /\ ChunkBlocks(blocks, size, k) = SubSeq(blocks, a + 1, b)
  BY <1>1, <1>b, ChunkIs
<1>5. FirstBlock(k, size) = a
  <2>1. k \in 1..((n + size - 1) \div size)
    BY <1>3
  <2> HIDE DEF n
  <2> QED BY <1>1, <2>1, ChunkStarts
<1> HIDE DEF c, a, b, n, D
<1>6. stat.first = Rank(D, a)
  <2>1. FirstPosition(blocks, size, k) = DataRows(SubSeq(blocks, 1, a))
    BY <1>5 DEF FirstPosition
  <2>2. DataRows(SubSeq(blocks, 1, a)) = Rank(D, a)
    BY <1>1, <1>4, StartData DEF n, D
  <2> QED BY <1>2, <2>1, <2>2 DEF ChunkStat
<1>7. stat.data = Cardinality(Within(D, a, b))
  <2>1. b \in a..n
    BY <1>1, <1>4
  <2>2. DataRows(SubSeq(blocks, a + 1, b)) = Cardinality(Within(D, a, b))
    BY <1>1, <1>4, <2>1, WindowData DEF n, D
  <2> QED BY <1>2, <1>4, <2>2 DEF ChunkStat
<1>8. stat.first + stat.data = Rank(D, b)
  <2>1. a \in 0..b /\ 0 \in Nat /\ b \in Nat
    BY <1>1, <1>4
  <2>2. Cardinality(Within(D, 0, b)) = Cardinality(Within(D, 0, a)) + Cardinality(Within(D, a, b))
    <3>1. n \in Nat /\ D \in SUBSET (1..n)
      BY <1>1
    <3> QED BY <2>1, <3>1, WithinSplits
  <2> QED BY <1>6, <1>7, <2>2 DEF Rank
<1>9. stat.parsed = Len(ChunkList(blocks, size)[k].rows)
  <2>1. page.header = "expected"
    <3>1. n # 0
      BY <1>1, <1>4
    <3> QED BY <1>1, <3>1 DEF Readable
  <2>2. ChunkList(blocks, size)[k] = ParseChunk("expected", ChunkBlocks(blocks, size, k))
    BY <1>3 DEF ChunkList, c
  <2>3. stat.parsed = Len(ParseChunk(page.header, ChunkBlocks(blocks, size, k)).rows)
    BY <1>2 DEF ChunkStat
  <2> QED BY <2>1, <2>2, <2>3
<1> QED BY <1>6, <1>7, <1>8, <1>9 DEF Tallied, a, b, n, D, blocks, stat

(* A data block that adds no row leaves its chunk with fewer rows than data rows *)
LEMMA LossShowsInChunk ==
  ASSUME NEW page \in TermPages, NEW size \in ChunkSizes, Unmerged(page), Readable(page, size),
         NEW i \in DataBlocks(RepairedBlocks(page)),
         Len(Added(RepairedBlocks(page), size)[i]) # 1
  PROVE  \E k \in 1..ChunkCount(RepairedBlocks(page), size) :
           LET stat == ChunkStats(page, size)[k]
               p    == Rank(DataBlocks(RepairedBlocks(page)), i)
           IN  stat.data # stat.parsed /\ stat.first < p /\ p <= stat.first + stat.data
<1> DEFINE T == ListedRows(page)
           blocks == RepairedBlocks(page)
           D == DataBlocks(blocks)
           n == Len(blocks)
           c == ChunkCount(blocks, size)
<1>1. blocks \in Seq(Blocks(T)) /\ n \in Nat /\ size \in Nat \ {0} /\ Undoubled(blocks)
  BY PageType, WholeTermAssumption, UnmergedIs
<1>2. D \in SUBSET (1..n)
  BY <1>1, DataIs
<1>3. i \in 1..n /\ i \in D /\ i \in Nat
  BY <1>1, <1>2
<1>a. NothingRaised(blocks, size)
  BY DEF Readable
<1> HIDE DEF T, blocks
<1>4. PICK k \in 1..c : Cut(n, size, k - 1) < i /\ i <= Cut(n, size, k)
  BY <1>1, <1>3, ChunkHolds
<1> DEFINE a == Cut(n, size, k - 1)
           b == Cut(n, size, k)
           stat == ChunkStats(page, size)[k]
<1>5. a \in 0..n /\ b \in 0..n /\ a < b
  BY <1>1, <1>4, ChunkIs
<1>6. Tallied(page, size, k)
  BY <1>4, StatsTally DEF blocks
<1>7. PICK g : Joined(T, n, Added(blocks, size), g)
  BY PageJoins DEF blocks, T
<1>8. /\ ChunkList(blocks, size)[k].rows \in Seq(T)
      /\ g[b] = g[a] \o ChunkList(blocks, size)[k].rows
  <2>1. Continued(T, blocks, size, g)
    BY <1>1, <1>7, <1>a, ChunkContinues
  <2> QED BY <1>4, <2>1 DEF Continued
<1>9. Counted(blocks, size, g, a, b)
  <2>1. b \in a..n
    BY <1>1, <1>5
  <2>2. \A x \in a..n : Counted(blocks, size, g, a, x)
    BY <1>1, <1>5, <1>7, RowsCounted
  <2> QED BY <2>1, <2>2
<1>10. i \in Within(D, a, b)
  BY <1>3, <1>4 DEF Within
<1> HIDE DEF a, b, n, D, c, stat
<1>11. Len(g[b]) = Len(g[a]) + Len(ChunkList(blocks, size)[k].rows)
  <2>1. g[a] \in Seq(T)
    <3>1. g \in [0..n -> Seq(T)]
      BY <1>7 DEF Joined
    <3> QED BY <1>5, <3>1
  <2>2. Len(g[a] \o ChunkList(blocks, size)[k].rows)
          = Len(g[a]) + Len(ChunkList(blocks, size)[k].rows)
    BY <1>8, <2>1, ConcatProperties
  <2> QED BY <1>8, <2>2
<1>12. Len(g[b]) # Len(g[a]) + Cardinality(Within(D, a, b))
  <2>1. Len(Added(blocks, size)[i]) # 1
    BY DEF blocks
  <2> QED BY <1>9, <1>10, <2>1 DEF Counted, D
<1>13. /\ stat.first = Rank(D, a) /\ stat.data = Cardinality(Within(D, a, b))
       /\ stat.first + stat.data = Rank(D, b)
       /\ stat.parsed = Len(ChunkList(blocks, size)[k].rows)
  BY <1>6 DEF Tallied, D, a, b, n, blocks, stat
<1>14. stat.data # stat.parsed
  BY <1>11, <1>12, <1>13
<1>15. Rank(D, a) < Rank(D, i) /\ Rank(D, i) <= Rank(D, b)
  <2>1. a \in Nat /\ b \in Nat /\ a < i /\ i <= b
    BY <1>1, <1>4, <1>5 DEF a, b
  <2>2. Rank(D, a) < Rank(D, i)
    BY <1>1, <1>2, <1>3, <2>1, RanksGrow
  <2>3. Rank(D, i) <= Rank(D, b)
    BY <1>1, <1>2, <1>3, <2>1, RanksRise
  <2> QED BY <2>2, <2>3
<1> QED BY <1>4, <1>13, <1>14, <1>15 DEF c, D, blocks, stat

(* The data rows a refusal looks at are those of the chunks that lost rows *)
Mismatched(stats) == {k \in DOMAIN stats : stats[k].data # stats[k].parsed}
Inspected(data, stats) ==
  {p \in DOMAIN data :
     \E k \in Mismatched(stats) : stats[k].first < p /\ p <= stats[k].first + stats[k].data}

LEMMA DiagnosticsAre ==
  ASSUME NEW blocks, NEW stats,
         \A p \in DOMAIN At(blocks, DataBlocks(blocks)) :
           RowError(At(blocks, DataBlocks(blocks))[p]) # "ValidationError"
  PROVE  LET data     == At(blocks, DataBlocks(blocks))
             suspects == {p \in Inspected(data, stats) : Len(RowsOf(data[p])) # 1}
             told     == Diagnostics(blocks, stats)
         IN  /\ ~told.failed
             /\ told.total = Cardinality(suspects)
             /\ told.suspects = FirstOf(InOrder(suspects), MaxReported)
<1> DEFINE data == At(blocks, DataBlocks(blocks))
           inspected == Inspected(data, stats)
           failing == {p \in inspected : RowError(data[p]) = "ValidationError"}
           read == {p \in inspected : \A f \in failing : p < f}
           suspects == {p \in read : Len(RowsOf(data[p])) # 1}
           told == Diagnostics(blocks, stats)
<1>1. told = [windows |-> FirstOf(At(stats, Mismatched(stats)), MaxReported),
              suspects |-> FirstOf(InOrder(suspects), MaxReported),
              total |-> Cardinality(suspects),
              failed |-> failing # {}]
  BY DEF Diagnostics, Mismatched, Inspected
<1>2. failing = {}
  BY DEF Inspected
<1>3. suspects = {p \in Inspected(data, stats) : Len(RowsOf(data[p])) # 1}
  BY <1>2
<1> HIDE DEF told, failing, suspects
<1>4. /\ ~told.failed /\ told.total = Cardinality(suspects)
      /\ told.suspects = FirstOf(InOrder(suspects), MaxReported)
  BY <1>1, <1>2
<1> HIDE DEF data
<1>5. /\ told.total = Cardinality({p \in Inspected(data, stats) : Len(RowsOf(data[p])) # 1})
      /\ told.suspects = FirstOf(InOrder({p \in Inspected(data, stats) : Len(RowsOf(data[p])) # 1}),
                                 MaxReported)
  BY <1>3, <1>4
<1> QED BY <1>4, <1>5 DEF told, data

LEMMA RefusalNames ==
  ASSUME NEW page \in TermPages, NEW size \in ChunkSizes, Unmerged(page), Readable(page, size),
         Len(ParsedRows(RepairedBlocks(page), size)) # DataRows(RepairedBlocks(page)),
         NEW out, out.diagnostics = Diagnostics(RepairedBlocks(page), ChunkStats(page, size))
  PROVE  RefusalNamesRows(page, out)
<1> SUFFICES ASSUME "nameless" \notin Damage(page) PROVE RefusalNamesRows(page, out)
  BY DEF RefusalNamesRows
<1> DEFINE T == ListedRows(page)
           blocks == RepairedBlocks(page)
           D == DataBlocks(blocks)
           n == Len(blocks)
           data == At(blocks, D)
           stats == ChunkStats(page, size)
           listed == Listed(page)
           c == Cardinality(D)
           damaged == {p \in DOMAIN listed : listed[p].shape \in {"short", "subject"}}
           suspects == {p \in Inspected(data, stats) : Len(RowsOf(data[p])) # 1}
           told == out.diagnostics
<1>1. blocks \in Seq(Blocks(T)) /\ n \in Nat /\ n = Len(page.blocks) /\ Undoubled(blocks)
  BY PageType, UnmergedIs
<1>2. D \in SUBSET (1..n)
  BY <1>1, DataIs
<1>3. c \in Nat /\ DOMAIN listed = 1..c
  BY ListedIs
<1>4. \A p \in 1..c : /\ InOrder(D)[p] \in D /\ Rank(D, InOrder(D)[p]) = p
                      /\ listed[p] = page.blocks[InOrder(D)[p]]
  BY ListedIs
<1>5. DOMAIN data = 1..c /\ \A p \in 1..c : data[p] = blocks[InOrder(D)[p]]
  <2>1. n \in Nat
    BY <1>1
  <2> HIDE DEF n, D, blocks
  <2> QED BY <2>1, <1>2, AtIs
<1>6. \A i \in 1..n :
        /\ page.blocks[i].shape \in Shapes
        /\ blocks[i].shape = IF page.blocks[i].shape = "cut" THEN "whole" ELSE page.blocks[i].shape
  BY <1>1, PageType
<1>7. \A i \in 1..n : page.blocks[i].shape \notin {"double", "nameless"}
  <2>1. DOMAIN page.blocks = 1..n
    BY <1>1, PageType
  <2> QED BY <2>1 DEF Unmerged, Damage
<1>8. D = {i \in DOMAIN page.blocks : page.blocks[i].shape # "blank"}
  BY PageType
<1>9. \A i \in 1..n : blocks[i] \in Blocks(T)
  BY <1>1, LenProperties
<1> HIDE DEF blocks, D, n, listed, data, T, c
<1>10. \A i \in D :
         /\ page.blocks[i].shape \in {"whole", "cut", "short", "open", "subject"}
         /\ Len(RowsOf(blocks[i])) # 1 <=> page.blocks[i].shape \in {"short", "subject"}
         /\ RowError(blocks[i]) # "ValidationError"
         /\ blocks[i].shape \in {"whole", "open"} <=> page.blocks[i].shape \notin {"short", "subject"}
  <2> SUFFICES ASSUME NEW i \in D
               PROVE  /\ page.blocks[i].shape \in {"whole", "cut", "short", "open", "subject"}
                      /\ Len(RowsOf(blocks[i])) # 1 <=> page.blocks[i].shape \in {"short", "subject"}
                      /\ RowError(blocks[i]) # "ValidationError"
                      /\ blocks[i].shape \in {"whole", "open"}
                           <=> page.blocks[i].shape \notin {"short", "subject"}
    OBVIOUS
  <2>1. i \in 1..n
    BY <1>2
  <2>2. page.blocks[i].shape \in {"whole", "cut", "short", "open", "subject"}
    BY <1>6, <1>7, <1>8, <2>1 DEF Shapes
  <2>3. blocks[i].shape = IF page.blocks[i].shape = "cut" THEN "whole" ELSE page.blocks[i].shape
    BY <1>6, <2>1
  <2>4. Len(RowsOf(blocks[i])) = IF blocks[i].shape \in {"whole", "open"} THEN 1 ELSE 0
    <3>1. blocks[i] \in Blocks(T)
      BY <1>9, <2>1
    <3>2. blocks[i].shape # "double"
      BY <2>2, <2>3
    <3> QED BY <3>1, <3>2, RowsType
  <2>5. RowError(blocks[i]) # "ValidationError"
    <3>1. blocks[i].shape # "nameless"
      BY <2>2, <2>3
    <3> QED BY <3>1 DEF RowError
  <2>6. blocks[i].shape \in {"whole", "open"} <=> page.blocks[i].shape \notin {"short", "subject"}
    BY <2>2, <2>3
  <2> QED BY <2>2, <2>4, <2>5, <2>6
<1>11. /\ ~told.failed
       /\ told.total = Cardinality(suspects)
       /\ told.suspects = FirstOf(InOrder(suspects), MaxReported)
  <2>1. \A p \in DOMAIN data : RowError(data[p]) # "ValidationError"
    BY <1>4, <1>5, <1>10
  <2>2. told = Diagnostics(blocks, stats)
    BY DEF blocks
  <2> QED BY <2>1, <2>2, DiagnosticsAre DEF data, D
<1>12. suspects \subseteq damaged
  <2>1. \A p \in suspects : p \in 1..c /\ Len(RowsOf(data[p])) # 1
    BY <1>5 DEF Inspected
  <2> QED BY <1>3, <1>4, <1>5, <1>10, <2>1
<1>13. damaged \subseteq suspects
  <2> SUFFICES ASSUME NEW p \in damaged PROVE p \in suspects
    OBVIOUS
  <2>1. p \in 1..c /\ listed[p].shape \in {"short", "subject"}
    BY <1>3
  <2> DEFINE i == InOrder(D)[p]
  <2>2. i \in D /\ Rank(D, i) = p /\ listed[p] = page.blocks[i] /\ data[p] = blocks[i]
    BY <1>4, <1>5, <2>1
  <2> HIDE DEF i
  <2>3. Len(RowsOf(data[p])) # 1 /\ ~(blocks[i].shape \in {"whole", "open"})
    BY <1>10, <2>1, <2>2
  <2>4. Len(Added(blocks, size)[i]) # 1
    BY <1>1, <1>2, <2>2, <2>3, AddsOneOrNone DEF n
  <2>5. PICK k \in 1..ChunkCount(blocks, size) :
          stats[k].data # stats[k].parsed /\ stats[k].first < p /\ p <= stats[k].first + stats[k].data
    BY <2>2, <2>4, LossShowsInChunk DEF D, blocks
  <2>6. k \in Mismatched(stats)
    BY <2>5 DEF Mismatched, ChunkStats, blocks
  <2>7. p \in Inspected(data, stats)
    BY <1>5, <2>1, <2>5, <2>6 DEF Inspected
  <2> QED BY <2>3, <2>7
<1>14. ASSUME damaged = {} PROVE "open" \in Damage(page)
  <2> SUFFICES ASSUME "open" \notin Damage(page) PROVE FALSE
    OBVIOUS
  <2>1. \A i \in 1..n : page.blocks[i].shape # "open"
    <3>1. DOMAIN page.blocks = 1..n
      BY <1>1, PageType DEF n
    <3> QED BY <3>1 DEF Damage
  <2>2. \A i \in 1..n : ~Opens(blocks[i])
    BY <1>6, <2>1 DEF Opens
  <2>3. \A i \in 1..n : ~Hides(blocks, size, i)
    <3>1. \A i \in 1..n : \A j \in 1..(i - 1) : j \in 1..n
      BY <1>1
    <3> QED BY <2>2, <3>1 DEF Hides
  <2>4. \A i \in D : Len(Added(blocks, size)[i]) = 1
    <3> SUFFICES ASSUME NEW i \in D PROVE Len(Added(blocks, size)[i]) = 1
      OBVIOUS
    <3>1. i \in 1..n
      BY <1>2
    <3>2. page.blocks[i].shape \notin {"short", "subject"}
      <4>1. Rank(D, i) \in 1..c /\ InOrder(D)[Rank(D, i)] = i
        BY <1>1, <1>2, InOrderRanks DEF c
      <4>2. listed[Rank(D, i)] = page.blocks[i]
        BY <1>4, <4>1
      <4> QED BY <1>3, <1>14, <4>1, <4>2
    <3>3. blocks[i].shape \in {"whole", "open"}
      BY <1>10, <3>2
    <3>4. Len(Added(blocks, size)[i]) = 1
            <=> blocks[i].shape \in {"whole", "open"} /\ ~Hides(blocks, size, i)
      BY <1>1, <3>1, AddsOneOrNone DEF n
    <3> QED BY <2>3, <3>1, <3>3, <3>4
  <2>5. PICK g : Joined(T, n, Added(blocks, size), g) /\ ParsedRows(blocks, size) = g[n]
    BY PageJoins DEF T, n, blocks
  <2>6. Placed(blocks, g[n])
    BY <1>1, <2>4, <2>5, RowsPlaced DEF D, n
  <2> QED BY <2>5, <2>6 DEF Placed, blocks
<1>15. suspects = damaged
  BY <1>12, <1>13
<1> HIDE DEF suspects, damaged
<1>16. /\ ~told.failed /\ told.total = Cardinality(damaged)
       /\ told.suspects = FirstOf(InOrder(damaged), MaxReported)
  BY <1>11, <1>15
<1> QED BY <1>14, <1>16 DEF RefusalNamesRows, damaged, listed

---------------------------------------------------------------------------
(* The verdicts of two parses of a page *)

LEMMA NormalizeResult ==
  ASSUME NEW rows, NEW mode
  PROVE  /\ NormalizeRows(rows, mode).result \in {"ScheduleParseError", "parsed"}
         /\ NormalizeRows(rows, LiveMode).result = "parsed" =>
              NormalizeRows(rows, mode).result = "parsed"
<1>1. NormalizeRows(rows, mode).result \in {"ScheduleParseError", "parsed"}
  BY DEF NormalizeRows, Refused
<1>2. ASSUME NormalizeRows(rows, LiveMode).result = "parsed"
      PROVE  NormalizeRows(rows, mode).result = "parsed"
  <2> DEFINE all == {i \in DOMAIN rows : LiveMode.gate => rows[i].scoped}
             passed == {i \in DOMAIN rows : mode.gate => rows[i].scoped}
  <2>1. all \ {i \in all : Normalizes(rows[i])} = {}
    BY <1>2 DEF NormalizeRows, Refused, LiveMode
  <2>2. all = DOMAIN rows
    BY DEF LiveMode
  <2>3. \A i \in DOMAIN rows : Normalizes(rows[i])
    BY <2>1, <2>2
  <2>4. passed \ {i \in passed : Normalizes(rows[i])} = {}
    BY <2>3
  <2> QED BY <2>4 DEF NormalizeRows
<1> QED BY <1>1, <1>2

(* The result is one of the parser's errors or of the normalization *)
LEMMA VerdictIs ==
  ASSUME NEW page \in TermPages, NEW size \in ChunkSizes, NEW mode
  PROVE  LET blocks == RepairedBlocks(page)
             out == ParseWholeTerm(page, size, mode)
             full == Len(ParsedRows(blocks, size)) = DataRows(blocks)
         IN  /\ out.result = "parsed" =>
                  /\ Readable(page, size) /\ full
                  /\ out = NormalizeRows(ParsedRows(blocks, size), mode)
             /\ out.result = "LostRowsError" =>
                  /\ Readable(page, size) /\ ~full
                  /\ out.diagnostics = Diagnostics(blocks, ChunkStats(page, size))
<1> DEFINE blocks == RepairedBlocks(page)
           out == ParseWholeTerm(page, size, mode)
           full == Len(ParsedRows(blocks, size)) = DataRows(blocks)
<1>1. ~Readable(page, size) => out.result \in {"ScheduleParseError", "ValidationError"}
  BY Verdict
<1>2. Readable(page, size) /\ full => out = NormalizeRows(ParsedRows(blocks, size), mode)
  BY Verdict
<1>3. Readable(page, size) /\ ~full =>
        out = [result |-> "LostRowsError",
               diagnostics |-> Diagnostics(blocks, ChunkStats(page, size))]
  BY Verdict
<1>4. NormalizeRows(ParsedRows(blocks, size), mode).result \in {"ScheduleParseError", "parsed"}
  BY NormalizeResult
<1> HIDE DEF out, full, blocks
<1>5. CASE ~Readable(page, size)
  BY <1>1, <1>5 DEF out, full, blocks
<1>6. CASE Readable(page, size) /\ full
  BY <1>2, <1>4, <1>6 DEF out, full, blocks
<1>7. CASE Readable(page, size) /\ ~full
  <2>1. out.result = "LostRowsError" /\ out.diagnostics = Diagnostics(blocks, ChunkStats(page, size))
    BY <1>3, <1>7
  <2> QED BY <1>7, <2>1 DEF out, full, blocks
<1> QED BY <1>5, <1>6, <1>7

LEMMA WholePage ==
  ASSUME NEW page \in TermPages, NEW size \in ChunkSizes, NEW mode \in Modes, Unmerged(page)
  PROVE  LET out == ParseWholeTerm(page, size, mode)
         IN  /\ out.result = "parsed" => AcceptedIsWhole(page, mode, out)
             /\ out.result = "LostRowsError" => RefusalNamesRows(page, out)
<1> DEFINE blocks == RepairedBlocks(page)
           out == ParseWholeTerm(page, size, mode)
           rows == ParsedRows(blocks, size)
<1>1. ASSUME out.result = "parsed" PROVE AcceptedIsWhole(page, mode, out)
  <2>1. Readable(page, size) /\ Len(rows) = DataRows(blocks) /\ out = NormalizeRows(rows, mode)
    BY <1>1, VerdictIs
  <2>2. Placed(blocks, rows) /\ rows \in Seq(ListedRows(page))
    BY <2>1, FullPagePlaced
  <2>3. NormalizeRows(rows, mode).result = "parsed"
    BY <1>1, <2>1
  <2> HIDE DEF rows, out
  <2>4. AcceptedIsWhole(page, mode, NormalizeRows(rows, mode))
    BY <2>2, <2>3, AcceptedWhole
  <2> QED BY <2>1, <2>4
<1>2. ASSUME out.result = "LostRowsError" PROVE RefusalNamesRows(page, out)
  <2>1. /\ Readable(page, size) /\ Len(rows) # DataRows(blocks)
        /\ out.diagnostics = Diagnostics(blocks, ChunkStats(page, size))
    BY <1>2, VerdictIs
  <2> HIDE DEF out
  <2> QED BY <2>1, RefusalNames
<1> QED BY <1>1, <1>2

LEMMA ModesAgree ==
  ASSUME NEW page \in TermPages, NEW size \in ChunkSizes, NEW mode,
         ParseWholeTerm(page, size, LiveMode).result = "parsed"
  PROVE  ParseWholeTerm(page, size, mode).result = "parsed"
<1> DEFINE blocks == RepairedBlocks(page)
           rows == ParsedRows(blocks, size)
<1>1. /\ Readable(page, size) /\ Len(rows) = DataRows(blocks)
      /\ ParseWholeTerm(page, size, LiveMode) = NormalizeRows(rows, LiveMode)
  BY VerdictIs
<1>2. ParseWholeTerm(page, size, mode) = NormalizeRows(rows, mode)
  BY <1>1, Verdict
<1>3. NormalizeRows(rows, LiveMode).result = "parsed"
  BY <1>1
<1> HIDE DEF rows
<1>4. NormalizeRows(rows, mode).result = "parsed"
  BY <1>3, NormalizeResult
<1> QED BY <1>2, <1>4

---------------------------------------------------------------------------
(* No chunk size matters while no block hides another *)

Unhidden(blocks) == \A i \in 1..Len(blocks) : ~Opens(blocks[i])
RaisingBlocks(blocks) == {i \in 1..Len(blocks) : RowError(blocks[i]) # "none"}

LEMMA UnhiddenIs ==
  ASSUME NEW page \in TermPages, "open" \notin Damage(page)
  PROVE  Unhidden(RepairedBlocks(page))
<1> DEFINE n == Len(page.blocks)
           blocks == RepairedBlocks(page)
<1>1. Len(blocks) = n /\ DOMAIN page.blocks = 1..n
  BY PageType
<1>2. \A i \in 1..n : blocks[i].shape = IF page.blocks[i].shape = "cut" THEN "whole"
                                        ELSE page.blocks[i].shape
  BY PageType
<1>3. \A i \in 1..n : page.blocks[i].shape # "open"
  BY <1>1 DEF Damage
<1> HIDE DEF n, blocks
<1>4. \A i \in 1..n : blocks[i].shape # "open"
  BY <1>2, <1>3
<1> QED BY <1>1, <1>4 DEF Unhidden, Opens, blocks

LEMMA UnhiddenAdds ==
  ASSUME NEW blocks, Len(blocks) \in Nat, Unhidden(blocks), NEW size
  PROVE  Added(blocks, size) = [i \in 1..Len(blocks) |-> RowsOf(blocks[i])]
<1>1. \A i \in 1..Len(blocks) : ~Hides(blocks, size, i)
  <2> SUFFICES ASSUME NEW i \in 1..Len(blocks), NEW j \in 1..(i - 1) PROVE ~Opens(blocks[j])
    BY DEF Hides
  <2>1. j \in 1..Len(blocks)
    OBVIOUS
  <2> QED BY <2>1 DEF Unhidden
<1> QED BY <1>1 DEF Added

(* A chunk is refused for its first block that is *)
LEMMA UnhiddenChunk ==
  ASSUME NEW T, NEW blocks \in Seq(Blocks(T)), Unhidden(blocks), NEW size \in Nat \ {0},
         NEW k \in 1..ChunkCount(blocks, size)
  PROVE  LET a == Cut(Len(blocks), size, k - 1)
             b == Cut(Len(blocks), size, k)
             here == {i \in RaisingBlocks(blocks) : a < i /\ i <= b}
             error == ChunkList(blocks, size)[k].error
         IN  /\ error = "none" <=> here = {}
             /\ error # "none" => \E i \in here : /\ error = RowError(blocks[i])
                                                  /\ \A j \in here : i <= j
<1> DEFINE n == Len(blocks)
           a == Cut(n, size, k - 1)
           b == Cut(n, size, k)
           chunk == ChunkBlocks(blocks, size, k)
           here == {i \in RaisingBlocks(blocks) : a < i /\ i <= b}
           error == ChunkList(blocks, size)[k].error
           R == Raising(chunk)
<1>1. /\ a \in 0..n /\ b \in 0..n /\ a < b
      /\ chunk \in Seq(Blocks(T)) /\ Len(chunk) = b - a
      /\ \A i \in 1..(b - a) : chunk[i] = blocks[a + i]
  BY ChunkIs
<1>2. n \in Nat
  BY LenProperties
<1>3. error = ParseChunk("expected", chunk).error
  BY DEF ChunkList
<1> HIDE DEF n, a, b, chunk, error
<1>4. \A i \in 1..(b - a) : a + i \in 1..n /\ a < a + i /\ a + i <= b
  BY <1>1, <1>2
<1>5. Opening(chunk) = {}
  <2>1. \A i \in 1..(b - a) : ~Opens(chunk[i])
    BY <1>1, <1>4 DEF Unhidden, n
  <2> QED BY <1>1, <2>1 DEF Opening
<1>6. R = {i \in 1..(b - a) : RowError(chunk[i]) # "none"}
  BY <1>1, <1>5 DEF Raising, Reach
<1>7. \A i \in 1..(b - a) : i \in R <=> a + i \in here
  <2> SUFFICES ASSUME NEW i \in 1..(b - a) PROVE i \in R <=> a + i \in here
    OBVIOUS
  <2>1. chunk[i] = blocks[a + i] /\ a + i \in 1..n /\ a < a + i /\ a + i <= b
    BY <1>1, <1>4
  <2>2. i \in R <=> RowError(blocks[a + i]) # "none"
    BY <1>6, <2>1
  <2>3. a + i \in RaisingBlocks(blocks) <=> RowError(blocks[a + i]) # "none"
    BY <2>1 DEF RaisingBlocks, n
  <2> QED BY <2>1, <2>2, <2>3
<1>8. \A i \in here : i - a \in 1..(b - a) /\ a + (i - a) = i /\ i \in Nat
  <2> SUFFICES ASSUME NEW i \in here PROVE i - a \in 1..(b - a) /\ a + (i - a) = i /\ i \in Nat
    OBVIOUS
  <2>1. i \in 1..n /\ a < i /\ i <= b
    BY DEF RaisingBlocks, n
  <2> QED BY <1>1, <1>2, <2>1
<1> HIDE DEF here
<1>9. R \in SUBSET (1..(b - a))
  BY <1>6
<1> HIDE DEF R
<1>10. CASE R = {}
  <2>1. error = "none"
    BY <1>1, <1>3, <1>10, ChunkReads DEF R
  <2>2. here = {}
    BY <1>7, <1>8, <1>10
  <2> QED BY <2>1, <2>2 DEF here, error, a, b, n
<1>11. CASE R # {}
  <2> DEFINE m == Min(R)
  <2>1. R \in SUBSET Nat
    BY <1>1, <1>9
  <2>2. m \in R /\ \A i \in R : m <= i
    BY <1>11, <2>1, LeastOf
  <2>3. error = RowError(chunk[m]) /\ error # "none"
    BY <1>1, <1>3, <1>11, ChunkReads DEF R
  <2> HIDE DEF m
  <2>4. m \in 1..(b - a) /\ a + m \in here /\ chunk[m] = blocks[a + m]
    BY <1>1, <1>7, <1>9, <2>2
  <2>5. ASSUME NEW j \in here PROVE a + m <= j
    <3>1. j - a \in 1..(b - a) /\ a + (j - a) = j /\ j \in Nat
      BY <1>8
    <3>2. j - a \in R
      BY <1>7, <3>1
    <3>3. m <= j - a
      BY <2>2, <3>2
    <3> QED BY <1>1, <2>4, <3>1, <3>3
  <2> QED BY <2>3, <2>4, <2>5 DEF here, error, a, b, n
<1> QED BY <1>10, <1>11

(* The first refused block of the page decides, whatever the chunks *)
LEMMA FirstRefusalDecides ==
  ASSUME NEW T, NEW blocks \in Seq(Blocks(T)), Unhidden(blocks), NEW size \in Nat \ {0}
  PROVE  LET failed == FailedChunks(blocks, size)
         IN  /\ failed = {} <=> RaisingBlocks(blocks) = {}
             /\ failed # {} =>
                  ChunkList(blocks, size)[Min(failed)].error = RowError(blocks[Min(RaisingBlocks(blocks))])
<1> DEFINE n == Len(blocks)
           c == ChunkCount(blocks, size)
           failed == FailedChunks(blocks, size)
           Here(k) == {i \in RaisingBlocks(blocks) : Cut(n, size, k - 1) < i /\ i <= Cut(n, size, k)}
           Error(k) == ChunkList(blocks, size)[k].error
<1>1. n \in Nat /\ c = (n + size - 1) \div size
  BY LenProperties DEF ChunkCount
<1>2. c \in Nat /\ \A k \in 0..c : Cut(n, size, k) \in 0..n
  BY <1>1, ChunkCuts
<1>3. \A k \in 1..c : /\ Error(k) = "none" <=> Here(k) = {}
                      /\ Error(k) # "none" => \E i \in Here(k) : /\ Error(k) = RowError(blocks[i])
                                                                 /\ \A j \in Here(k) : i <= j
  BY UnhiddenChunk
<1>4. RaisingBlocks(blocks) \in SUBSET (1..n) /\ RaisingBlocks(blocks) \in SUBSET Nat
  BY DEF RaisingBlocks
<1>5. \A i \in RaisingBlocks(blocks) : \E k \in 1..c : i \in Here(k)
  <2> SUFFICES ASSUME NEW i \in RaisingBlocks(blocks) PROVE \E k \in 1..c : i \in Here(k)
    OBVIOUS
  <2>1. i \in 1..Len(blocks)
    BY <1>4
  <2>2. PICK k \in 1..ChunkCount(blocks, size) :
          Cut(Len(blocks), size, k - 1) < i /\ i <= Cut(Len(blocks), size, k)
    BY <2>1, ChunkHolds
  <2> QED BY <2>2
<1>6. failed = {k \in 1..c : Error(k) # "none"}
  BY DEF FailedChunks
<1> HIDE DEF n, c, failed, Error
<1>7. failed = {} <=> RaisingBlocks(blocks) = {}
  <2>1. ASSUME NEW k \in failed PROVE RaisingBlocks(blocks) # {}
    BY <1>3, <1>6
  <2>2. ASSUME NEW i \in RaisingBlocks(blocks) PROVE failed # {}
    <3>1. PICK k \in 1..c : i \in Here(k)
      BY <1>5
    <3>2. Error(k) # "none"
      BY <1>3, <3>1
    <3> QED BY <1>6, <3>1, <3>2
  <2> QED BY <2>1, <2>2
<1>8. ASSUME failed # {} PROVE Error(Min(failed)) = RowError(blocks[Min(RaisingBlocks(blocks))])
  <2> DEFINE h == Min(failed)
             m == Min(RaisingBlocks(blocks))
  <2>1. h \in failed /\ \A k \in failed : h <= k
    <3>1. failed \in SUBSET Nat
      BY <1>2, <1>6
    <3> QED BY <1>8, <3>1, LeastOf
  <2>2. m \in RaisingBlocks(blocks) /\ \A i \in RaisingBlocks(blocks) : m <= i
    BY <1>4, <1>7, <1>8, LeastOf
  <2> HIDE DEF h, m
  <2>3. h \in 1..c /\ Error(h) # "none"
    BY <1>6, <2>1
  <2>4. PICK i \in Here(h) : Error(h) = RowError(blocks[i]) /\ \A j \in Here(h) : i <= j
    BY <1>3, <2>3
  <2>5. PICK k \in 1..c : m \in Here(k)
    BY <1>5, <2>2
  <2>6. k \in failed
    BY <1>3, <1>6, <2>5
  <2>7. h <= k /\ m <= i
    BY <2>1, <2>2, <2>4, <2>6
  <2>8. m \in Nat /\ i \in Nat /\ h \in Nat /\ k \in Nat
    BY <1>2, <1>4, <2>2, <2>3, <2>4
  <2>9. h = k
    <3>1. ASSUME h < k PROVE FALSE
      <4>1. h <= k - 1 /\ k - 1 \in Nat
        BY <2>8, <3>1
      <4>2. Cut(n, size, h) <= Cut(n, size, k - 1)
        BY <1>1, <2>8, <4>1, CutsRise
      <4>3. Cut(n, size, h) \in Nat /\ Cut(n, size, k - 1) \in Nat
        BY <1>1, <1>2, <2>3, <2>5
      <4>4. i <= Cut(n, size, h) /\ Cut(n, size, k - 1) < m
        BY <2>4, <2>5
      <4> QED BY <2>7, <2>8, <4>2, <4>3, <4>4
    <3> QED BY <2>7, <2>8, <3>1
  <2>10. i <= m
    BY <2>4, <2>5, <2>9
  <2>11. i = m
    BY <2>7, <2>8, <2>10
  <2> QED BY <2>4, <2>11 DEF h, m
<1> QED BY <1>7, <1>8 DEF failed, Error

LEMMA RowsFlat ==
  ASSUME NEW page \in TermPages, NEW size \in ChunkSizes, Readable(page, size)
  PROVE  ParsedRows(RepairedBlocks(page), size) = FlattenSeq(Added(RepairedBlocks(page), size))
<1> DEFINE T == ListedRows(page)
           blocks == RepairedBlocks(page)
           n == Len(blocks)
<1>1. PICK g : Joined(T, n, Added(blocks, size), g) /\ ParsedRows(blocks, size) = g[n]
  BY PageJoins
<1>2. n \in Nat /\ Added(blocks, size) \in [1..n -> Seq(T)]
  <2>1. blocks \in Seq(Blocks(T)) /\ n \in Nat
    BY PageType
  <2> QED BY <2>1, AddedType
<1> HIDE DEF T, blocks, n
<1>3. g[n] = FlattenSeq(Added(blocks, size))
  BY <1>1, <1>2, JoinedIs
<1> QED BY <1>1, <1>3 DEF blocks

LEMMA SizesAgree ==
  ASSUME NEW page \in TermPages, NEW size \in ChunkSizes, NEW other \in ChunkSizes, NEW mode,
         "open" \notin Damage(page)
  PROVE  LET out  == ParseWholeTerm(page, size, mode)
             out2 == ParseWholeTerm(page, other, mode)
         IN  /\ out.result = out2.result
             /\ out.result # "LostRowsError" => out = out2
<1> DEFINE T == ListedRows(page)
           blocks == RepairedBlocks(page)
           Out(s) == ParseWholeTerm(page, s, mode)
           rows == FlattenSeq([i \in 1..Len(blocks) |-> RowsOf(blocks[i])])
<1>1. blocks \in Seq(Blocks(T)) /\ Len(blocks) \in Nat /\ Len(blocks) = Len(page.blocks)
  BY PageType
<1>2. Unhidden(blocks)
  BY UnhiddenIs
<1>3. size \in Nat \ {0} /\ other \in Nat \ {0}
  BY WholeTermAssumption
<1>4. \A s \in ChunkSizes : Readable(page, s) => ParsedRows(blocks, s) = rows
  <2> SUFFICES ASSUME NEW s \in ChunkSizes, Readable(page, s) PROVE ParsedRows(blocks, s) = rows
    OBVIOUS
  <2>1. ParsedRows(blocks, s) = FlattenSeq(Added(blocks, s))
    BY RowsFlat
  <2> HIDE DEF blocks
  <2>2. Added(blocks, s) = [i \in 1..Len(blocks) |-> RowsOf(blocks[i])]
    BY <1>1, <1>2, UnhiddenAdds
  <2> QED BY <2>1, <2>2
<1>5. \A s \in ChunkSizes :
        /\ FailedChunks(blocks, s) = {} <=> RaisingBlocks(blocks) = {}
        /\ FailedChunks(blocks, s) # {} =>
             ChunkList(blocks, s)[Min(FailedChunks(blocks, s))].error
               = RowError(blocks[Min(RaisingBlocks(blocks))])
        /\ FailedChunks(blocks, s) = {} <=> NothingRaised(blocks, s)
  <2> SUFFICES ASSUME NEW s \in ChunkSizes
               PROVE  /\ FailedChunks(blocks, s) = {} <=> RaisingBlocks(blocks) = {}
                      /\ FailedChunks(blocks, s) # {} =>
                           ChunkList(blocks, s)[Min(FailedChunks(blocks, s))].error
                             = RowError(blocks[Min(RaisingBlocks(blocks))])
                      /\ FailedChunks(blocks, s) = {} <=> NothingRaised(blocks, s)
    OBVIOUS
  <2>1. s \in Nat \ {0}
    BY WholeTermAssumption
  <2>2. FailedChunks(blocks, s) = {} <=> NothingRaised(blocks, s)
    BY DEF FailedChunks, NothingRaised
  <2> HIDE DEF blocks, T
  <2> QED BY <1>1, <1>2, <2>1, <2>2, FirstRefusalDecides
<1>6. Readable(page, size) <=> Readable(page, other)
  <2>1. NothingRaised(blocks, size) <=> NothingRaised(blocks, other)
    BY <1>5
  <2> QED BY <2>1 DEF Readable
<1>7. \A s \in ChunkSizes :
        /\ Readable(page, s) /\ Len(ParsedRows(blocks, s)) # DataRows(blocks) =>
             Out(s).result = "LostRowsError"
        /\ Readable(page, s) /\ Len(ParsedRows(blocks, s)) = DataRows(blocks) =>
             Out(s) = NormalizeRows(ParsedRows(blocks, s), mode)
        /\ page.header = "expected" /\ FailedChunks(blocks, s) # {} =>
             Out(s) = Refused(ChunkList(blocks, s)[Min(FailedChunks(blocks, s))].error)
        /\ page.header # "expected" /\ ~Readable(page, s) =>
             Out(s) = Refused("ScheduleParseError")
  <2> SUFFICES ASSUME NEW s \in ChunkSizes
               PROVE  /\ Readable(page, s) /\ Len(ParsedRows(blocks, s)) # DataRows(blocks) =>
                           Out(s).result = "LostRowsError"
                      /\ Readable(page, s) /\ Len(ParsedRows(blocks, s)) = DataRows(blocks) =>
                           Out(s) = NormalizeRows(ParsedRows(blocks, s), mode)
                      /\ page.header = "expected" /\ FailedChunks(blocks, s) # {} =>
                           Out(s) = Refused(ChunkList(blocks, s)[Min(FailedChunks(blocks, s))].error)
                      /\ page.header # "expected" /\ ~Readable(page, s) =>
                           Out(s) = Refused("ScheduleParseError")
    OBVIOUS
  <2>1. Readable(page, s) /\ Len(ParsedRows(blocks, s)) # DataRows(blocks) =>
          Out(s) = [result |-> "LostRowsError",
                    diagnostics |-> Diagnostics(blocks, ChunkStats(page, s))]
    BY Verdict
  <2>2. Readable(page, s) /\ Len(ParsedRows(blocks, s)) = DataRows(blocks) =>
          Out(s) = NormalizeRows(ParsedRows(blocks, s), mode)
    BY Verdict
  <2>3. page.header = "expected" /\ FailedChunks(blocks, s) # {} =>
          Out(s) = Refused(ChunkList(blocks, s)[Min(FailedChunks(blocks, s))].error)
    BY Verdict
  <2>4. page.header # "expected" /\ ~Readable(page, s) => Out(s) = Refused("ScheduleParseError")
    BY Verdict
  <2> HIDE DEF Out, blocks
  <2> QED BY <2>1, <2>2, <2>3, <2>4
<1>8. Readable(page, size) => page.header # "none" /\ NothingRaised(blocks, size)
  BY DEF Readable
<1>9. page.header = "expected" /\ NothingRaised(blocks, size) => Readable(page, size)
  BY DEF Readable
<1> HIDE DEF blocks, Out, rows
<1>10. CASE Readable(page, size) /\ Len(rows) # DataRows(blocks)
  <2>1. Out(size).result = "LostRowsError" /\ Out(other).result = "LostRowsError"
    BY <1>4, <1>6, <1>7, <1>10
  <2> QED BY <2>1 DEF Out
<1>11. CASE Readable(page, size) /\ Len(rows) = DataRows(blocks)
  <2>1. Out(size) = NormalizeRows(rows, mode) /\ Out(other) = NormalizeRows(rows, mode)
    BY <1>4, <1>6, <1>7, <1>11
  <2> QED BY <2>1 DEF Out
<1>12. CASE ~Readable(page, size) /\ page.header = "expected"
  <2>1. FailedChunks(blocks, size) # {} /\ FailedChunks(blocks, other) # {}
    BY <1>5, <1>9, <1>12
  <2>2. /\ Out(size) = Refused(RowError(blocks[Min(RaisingBlocks(blocks))]))
        /\ Out(other) = Refused(RowError(blocks[Min(RaisingBlocks(blocks))]))
    BY <1>5, <1>7, <1>12, <2>1
  <2> QED BY <2>2 DEF Out
<1>13. CASE ~Readable(page, size) /\ page.header # "expected"
  <2>1. Out(size) = Refused("ScheduleParseError") /\ Out(other) = Refused("ScheduleParseError")
    BY <1>6, <1>7, <1>13
  <2> QED BY <2>1 DEF Out
<1> QED BY <1>10, <1>11, <1>12, <1>13

(* The row guard holds of every page and every size of a chunk. *)
THEOREM GuardSound == GuardIsSound
<1> SUFFICES ASSUME NEW page \in TermPages PROVE PageIsSound(page)
  BY DEF GuardIsSound
<1> DEFINE Parse(s, m) == ParseWholeTerm(page, s, m)
           Fetch(s, m) == FetchWholeTerm(Answer(page), s, m)
<1>1. \A s, m : /\ Fetch(s, m).parse = Parse(s, m)
                /\ Fetch(s, m).kept =>
                     Parse(s, m).result \in {"ScheduleParseError", "LostRowsError"}
  BY DEF FetchWholeTerm, Answers, Answer
<1>2. \A s \in ChunkSizes, m \in Modes :
        Unmerged(page) =>
          /\ Parse(s, m).result = "parsed" => AcceptedIsWhole(page, m, Parse(s, m))
          /\ Parse(s, m).result = "LostRowsError" => RefusalNamesRows(page, Parse(s, m))
  BY WholePage
<1>3. \A s \in ChunkSizes, r \in ChunkSizes, m \in Modes :
        "open" \notin Damage(page) =>
          /\ Parse(s, m).result = Parse(r, m).result
          /\ Parse(s, m).result # "LostRowsError" => Parse(s, m) = Parse(r, m)
  BY SizesAgree
<1>4. \A s \in ChunkSizes, m \in Modes :
        Parse(s, LiveMode).result = "parsed" => Parse(s, m).result = "parsed"
  BY ModesAgree
<1> HIDE DEF Parse, Fetch
<1> QED BY <1>1, <1>2, <1>3, <1>4 DEF PageIsSound, Unmerged, Fetch
=============================================================================
