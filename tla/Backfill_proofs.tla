-------------------------- MODULE Backfill_proofs --------------------------
(***************************************************************************)
(* Theorems about Backfill for every set of terms, CRNs, courses and       *)
(* instructors, every answer USF may give and any number of foreign        *)
(* writes.                                                                 *)
(***************************************************************************)
EXTENDS Backfill, TLAPS

---------------------------------------------------------------------------
(* The inductive invariant *)

GradeKeys == Keys \cup {NoKey, Unattributed}
Sections == [key : Keys, name : Names, names : SUBSET Names,
             foreign : BOOLEAN, late : BOOLEAN, syllabus : BOOLEAN]
Histories == UNION {[S -> Sections] : S \in SUBSET Slots}
Cited == Slots \X {0, 1}
ScoreTables == [Lives -> [source : {"global", "course", "instructor_course"},
                          rows : SUBSET Cited, own : SUBSET Cited]]

Places == {"fetch", "lock", "write", "select", "delete", "rebuild", "rebuilt"}
Commands == [pc : Places, args : Arguments, terms : SUBSET Terms, keys : [Slots -> GradeKeys],
             page : SUBSET UNION Pages, rows : SUBSET UNION Pages, gone : SUBSET Slots,
             before : ScoreTables, after : ScoreTables]

Shapes ==
  /\ grades \in [Slots -> [key : GradeKeys, version : {0, 1}]]
  /\ hist \in Histories
  /\ \A s \in DOMAIN hist : hist[s].name \in hist[s].names
  /\ live \in [Lives -> Names]
  /\ stored \in ScoreTables
  /\ cmd = Idle \/ cmd \in Commands

(* The lock is the command's exactly inside the transaction of a mode that takes it *)
InTransaction ==
  /\ cmd.pc \in {"write", "select", "delete", "rebuild", "rebuilt"}
  /\ cmd.args.mode # "dry_run"

LockFits == lock = "command" <=> InTransaction

(* Which modes pass which places, and what they carry *)
CommandFits ==
  /\ cmd.pc \in {"fetch", "write"} => Writes(cmd.args.mode)
  /\ cmd.pc \in {"select", "delete"} => cmd.args.mode = "rollback"
  /\ cmd.pc # "idle" =>
       /\ cmd.pc = "fetch" \/ ~Writes(cmd.args.mode) => cmd.rows = {}
       /\ cmd.rows # {} => cmd.rows = Selected(cmd.page, cmd.keys)
       /\ cmd.args.mode # "rollback" => cmd.gone = {}
  /\ cmd.pc \in {"lock", "write", "rebuild", "rebuilt"} /\ Writes(cmd.args.mode) =>
       cmd.rows = Selected(cmd.page, cmd.keys)

Cites(scores) ==
  \A l \in Lives : \A r \in scores[l].rows \cup scores[l].own : r[1] \in Graded(grades)

CitesGraded == Cites(stored) /\ (cmd.pc # "idle" => Cites(cmd.after))

(* The rows of an applied page and keys are what the sections say *)
Agrees(rows) ==
  /\ SlotsOf(rows) \subseteq DOMAIN hist
  /\ \A s \in SlotsOf(rows) : /\ hist[s].key = RowAt(rows, s).key
                              /\ hist[s].name = RowAt(rows, s).name

SettledHolds == settled # <<>> => Agrees(Selected(settled[1], settled[2]))

(* With nobody else writing, the cache is current, the keys still hold, no grade
   row names another course than its section, and no page was overtaken *)
CalmHolds ==
  calm /\ cmd.pc # "idle" =>
    /\ stored = Scores(grades, hist)
    /\ \A s \in DOMAIN hist : grades[s].key \in {hist[s].key, NoKey}
    /\ cmd.keys = [s \in Slots |-> grades[s].key]
    /\ cmd.pc # "fetch" /\ Writes(cmd.args.mode) => \A s \in DOMAIN hist : ~hist[s].late

(* What the transaction has read and computed is current as long as it is alone *)
TransactionSees ==
  /\ InTransaction => cmd.before = stored
  /\ InTransaction /\ cmd.pc = "rebuilt" /\ (calm \/ origin # Idle) =>
       cmd.after = Scores(grades, View)

(* Since an apply that only inserted, the sections are those from before it, which
   somebody has observed, and those it inserted, which nobody has *)
OriginHolds ==
  origin # Idle =>
    /\ origin.hist \in Histories
    /\ origin.stored = Scores(grades, origin.hist)
    /\ DOMAIN origin.hist \subseteq DOMAIN hist
    /\ \A s \in DOMAIN origin.hist :
         hist[s] = origin.hist[s] /\ (hist[s].foreign \/ hist[s].syllabus)
    /\ \A s \in DOMAIN hist : ~hist[s].late
    /\ \A s \in DOMAIN hist \ DOMAIN origin.hist : ~hist[s].foreign /\ ~hist[s].syllabus
    /\ cmd.pc \in {"delete", "rebuild", "rebuilt"} /\ cmd.args.mode = "rollback" =>
         cmd.gone = Eligible(hist, cmd.terms)

BackfillInv ==
  /\ Shapes /\ LockFits /\ CommandFits /\ CitesGraded
  /\ SettledHolds /\ CalmHolds /\ TransactionSees /\ OriginHolds

---------------------------------------------------------------------------
(* Lemmas about the operators *)

LEMMA InHistories ==
  ASSUME NEW h
  PROVE  h \in Histories <=> /\ h = [s \in DOMAIN h |-> h[s]]
                             /\ DOMAIN h \subseteq Slots
                             /\ \A s \in DOMAIN h : h[s] \in Sections
BY DEF Histories

LEMMA RowAtIn ==
  ASSUME NEW rows, NEW s \in SlotsOf(rows)
  PROVE  RowAt(rows, s) \in rows /\ RowAt(rows, s).slot = s
BY DEF SlotsOf, RowAt

LEMMA PageRow ==
  ASSUME NEW row \in UNION Pages
  PROVE  row.slot \in Slots /\ row.key \in Keys /\ row.name \in Names
BY BackfillAssumption

(* What the writes make of one section *)
LEMMA WrittenSection ==
  ASSUME NEW h \in Histories, NEW rows \in SUBSET UNION Pages,
         NEW s \in DOMAIN h \cup SlotsOf(rows)
  PROVE  /\ Written(h, rows)[s] \in Sections
         /\ s \notin SlotsOf(rows) => Written(h, rows)[s] = h[s]
         /\ s \in SlotsOf(rows) => Written(h, rows)[s].key = RowAt(rows, s).key
         /\ s \in SlotsOf(rows) /\ s \notin DOMAIN h =>
              Written(h, rows)[s] = NewSection(RowAt(rows, s))
         /\ s \in SlotsOf(rows) /\ s \in DOMAIN h =>
              Written(h, rows)[s] = UpdatedSection(h[s], RowAt(rows, s))
<1>1. s \in DOMAIN h => h[s] \in Sections
  BY InHistories
<1>2. CASE s \notin SlotsOf(rows)
  BY <1>1, <1>2 DEF Written
<1>3. CASE s \in SlotsOf(rows)
  <2> DEFINE row == RowAt(rows, s)
  <2>1. row.key \in Keys /\ row.name \in Names
    BY <1>3, RowAtIn, PageRow
  <2>2. NewSection(row) \in Sections /\ NewSection(row).key = row.key
    BY <2>1 DEF NewSection, Sections
  <2>3. ASSUME s \in DOMAIN h
        PROVE  UpdatedSection(h[s], row) \in Sections /\ UpdatedSection(h[s], row).key = row.key
    BY <1>1, <2>1, <2>3 DEF UpdatedSection, Sections
  <2>4. Written(h, rows)[s] = IF s \in DOMAIN h THEN UpdatedSection(h[s], row) ELSE NewSection(row)
    BY <1>3 DEF Written
  <2> HIDE DEF row
  <2>5. row = RowAt(rows, s)
    BY DEF row
  <2> QED BY <1>3, <2>2, <2>3, <2>4, <2>5
<1> QED BY <1>2, <1>3

LEMMA SlotsOfPages ==
  ASSUME NEW rows \in SUBSET UNION Pages
  PROVE  SlotsOf(rows) \subseteq Slots
BY PageRow DEF SlotsOf

LEMMA WrittenType ==
  ASSUME NEW h \in Histories, NEW rows \in SUBSET UNION Pages
  PROVE  /\ Written(h, rows) \in Histories
         /\ DOMAIN Written(h, rows) = DOMAIN h \cup SlotsOf(rows)
<1>1. DOMAIN Written(h, rows) = DOMAIN h \cup SlotsOf(rows)
  BY DEF Written
<1>2. Written(h, rows) = [s \in DOMAIN Written(h, rows) |-> Written(h, rows)[s]]
  BY DEF Written
<1> QED BY <1>1, <1>2, WrittenSection, SlotsOfPages, InHistories

LEMMA WithoutType ==
  ASSUME NEW h \in Histories, NEW S
  PROVE  /\ Without(h, S) \in Histories
         /\ DOMAIN Without(h, S) = DOMAIN h \ S
         /\ \A s \in DOMAIN h \ S : Without(h, S)[s] = h[s]
<1>1. DOMAIN Without(h, S) = DOMAIN h \ S /\ \A s \in DOMAIN h \ S : Without(h, S)[s] = h[s]
  BY DEF Without
<1>2. Without(h, S) = [s \in DOMAIN Without(h, S) |-> Without(h, S)[s]]
  BY DEF Without
<1> QED BY <1>1, <1>2, InHistories

LEMMA NothingWritten ==
  ASSUME NEW h \in Histories
  PROVE  Written(h, {}) = h /\ Without(h, {}) = h
<1>1. h = [s \in DOMAIN h |-> h[s]]
  BY InHistories
<1>2. SlotsOf({}) = {}
  BY DEF SlotsOf
<1>3. Written(h, {}) = [s \in DOMAIN h |-> h[s]]
  BY <1>2 DEF Written
<1>4. Without(h, {}) = [s \in DOMAIN h |-> h[s]]
  BY DEF Without
<1> QED BY <1>1, <1>3, <1>4

(* A current name is one of the observed ones, before and after the writes *)
LEMMA WrittenNames ==
  ASSUME NEW h \in Histories, NEW rows \in SUBSET UNION Pages,
         \A s \in DOMAIN h : h[s].name \in h[s].names
  PROVE  \A s \in DOMAIN Written(h, rows) : Written(h, rows)[s].name \in Written(h, rows)[s].names
<1> SUFFICES ASSUME NEW s \in DOMAIN h \cup SlotsOf(rows)
             PROVE  Written(h, rows)[s].name \in Written(h, rows)[s].names
  BY WrittenType
<1>1. CASE s \notin SlotsOf(rows)
  <2>1. s \in DOMAIN h /\ Written(h, rows)[s] = h[s]
    BY <1>1, WrittenSection
  <2> QED BY <2>1
<1>2. CASE s \in SlotsOf(rows) \ DOMAIN h
  <2>1. \A row : NewSection(row).name \in NewSection(row).names
    BY DEF NewSection
  <2> QED BY <1>2, <2>1, WrittenSection
<1>3. CASE s \in SlotsOf(rows) \cap DOMAIN h
  <2>1. h[s] \in Sections /\ h[s].name \in h[s].names
    BY <1>3, InHistories
  <2>2. UpdatedSection(h[s], RowAt(rows, s)).name \in UpdatedSection(h[s], RowAt(rows, s)).names
    BY <2>1 DEF UpdatedSection, Sections
  <2> QED BY <1>3, <2>2, WrittenSection
<1> QED BY <1>1, <1>2, <1>3

(* A score cites graded slots *)
LEMMA ScoreType ==
  ASSUME NEW g \in [Slots -> [key : GradeKeys, version : {0, 1}]], NEW h, NEW k, NEW name
  PROVE  /\ Score(g, h, k, name) \in [source : {"global", "course", "instructor_course"},
                                      rows : SUBSET Cited, own : SUBSET Cited]
         /\ \A r \in Score(g, h, k, name).rows \cup Score(g, h, k, name).own : r[1] \in Graded(g)
<1>1. ASSUME NEW S \in SUBSET Graded(g)
      PROVE  /\ Rows(g, S) \in SUBSET Cited
             /\ \A r \in Rows(g, S) : r[1] \in Graded(g)
  BY <1>1 DEF Rows, Cited, Graded
<1>2. /\ CourseRows(g, h, k) \in SUBSET Cited
      /\ \A r \in CourseRows(g, h, k) : r[1] \in Graded(g)
  BY <1>1 DEF CourseRows
<1>3. /\ OwnRows(g, h, k, name) \in SUBSET Cited
      /\ \A r \in OwnRows(g, h, k, name) : r[1] \in Graded(g)
  BY <1>1 DEF OwnRows
<1>4. /\ Rows(g, Graded(g)) \in SUBSET Cited
      /\ \A r \in Rows(g, Graded(g)) : r[1] \in Graded(g)
  BY <1>1
<1> QED BY <1>2, <1>3, <1>4 DEF Score

LEMMA ScoresType ==
  ASSUME grades \in [Slots -> [key : GradeKeys, version : {0, 1}]], NEW h
  PROVE  Scores(grades, h) \in ScoreTables /\ Cites(Scores(grades, h))
BY ScoreType DEF Scores, ScoreTables, Cites

(* A score depends on the courses and names of the sections only *)
LEMMA ScoresSame ==
  ASSUME NEW g, NEW h1, NEW h2, DOMAIN h1 = DOMAIN h2,
         \A s \in DOMAIN h1 : h1[s].key = h2[s].key /\ h1[s].names = h2[s].names
  PROVE  Scores(g, h1) = Scores(g, h2)
<1>1. ASSUME NEW k PROVE CourseRows(g, h1, k) = CourseRows(g, h2, k)
  BY DEF CourseRows
<1>2. ASSUME NEW k, NEW name PROVE OwnRows(g, h1, k, name) = OwnRows(g, h2, k, name)
  BY DEF OwnRows
<1>3. ASSUME NEW k, NEW name PROVE Score(g, h1, k, name) = Score(g, h2, k, name)
  BY <1>1, <1>2 DEF Score
<1> QED BY <1>3 DEF Scores

---------------------------------------------------------------------------
(* What the command's transaction leaves *)

LEMMA ViewType ==
  ASSUME Shapes, cmd.pc # "idle"
  PROVE  /\ View \in Histories
         /\ DOMAIN View = (DOMAIN hist \cup SlotsOf(cmd.rows)) \ cmd.gone
         /\ \A s \in DOMAIN View : /\ View[s] = Written(hist, cmd.rows)[s]
                                   /\ View[s].name \in View[s].names
<1>1. hist \in Histories /\ cmd.rows \in SUBSET UNION Pages
  BY DEF Shapes, Idle, Commands
<1>2. \A s \in DOMAIN hist : hist[s].name \in hist[s].names
  BY DEF Shapes
<1> DEFINE written == Written(hist, cmd.rows)
<1>3. written \in Histories /\ DOMAIN written = DOMAIN hist \cup SlotsOf(cmd.rows)
  BY <1>1, WrittenType
<1>4. \A s \in DOMAIN written : written[s].name \in written[s].names
  BY <1>1, <1>2, WrittenNames
<1> HIDE DEF written
<1>5. /\ Without(written, cmd.gone) \in Histories
      /\ DOMAIN Without(written, cmd.gone) = DOMAIN written \ cmd.gone
      /\ \A s \in DOMAIN written \ cmd.gone : Without(written, cmd.gone)[s] = written[s]
  BY <1>3, WithoutType
<1>6. View = Without(written, cmd.gone)
  BY DEF View, written
<1>7. written = Written(hist, cmd.rows)
  BY DEF written
<1> QED BY <1>3, <1>4, <1>5, <1>6, <1>7

(* A mode that writes no rows and deletes none sees the tables as they are *)
LEMMA IdleView ==
  ASSUME Shapes, cmd.rows = {}, cmd.gone = {}
  PROVE  View = hist
BY NothingWritten DEF View, Shapes

LEMMA InitHolds == Init => BackfillInv
<1> SUFFICES ASSUME Init PROVE BackfillInv
  OBVIOUS
<1>1. grades \in [Slots -> [key : GradeKeys, version : {0, 1}]]
  BY DEF Init, GradeKeys
<1>2. DOMAIN hist = {} /\ hist = [s \in DOMAIN hist |-> hist[s]]
  BY DEF Init
<1>3. hist \in Histories
  BY <1>2, InHistories
<1>4. stored \in ScoreTables /\ Cites(stored)
  BY <1>1, ScoresType DEF Init
<1>5. cmd = Idle /\ cmd.pc = "idle" /\ lock = "free" /\ settled = <<>> /\ origin = Idle
  BY DEF Init, Idle
<1>6. live \in [Lives -> Names]
  BY DEF Init
<1>7. Shapes
  BY <1>1, <1>2, <1>3, <1>4, <1>5, <1>6 DEF Shapes
<1>8. ~InTransaction /\ LockFits
  BY <1>5 DEF InTransaction, LockFits
<1> QED BY <1>4, <1>5, <1>7, <1>8
        DEF BackfillInv, CommandFits, CitesGraded, SettledHolds, CalmHolds, TransactionSees, OriginHolds

---------------------------------------------------------------------------
(* Steps *)

(* What the other writers have in common *)
Others ==
  \/ \E s \in Slots, key \in Keys \cup {Unattributed} : ImportGrade(s, key)
  \/ \E s \in Slots, key \in Keys, name \in Names : IngestEarlier(s, key, name)
  \/ \E s \in Slots : ImportSyllabus(s)

LEMMA OthersDisturb ==
  ASSUME Others
  PROVE  /\ calm' = FALSE /\ settled' = <<>> /\ origin' = Idle
         /\ live' = live /\ stored' = stored /\ lock' = lock /\ cmd' = cmd
BY DEF Others, ImportGrade, IngestEarlier, ImportSyllabus, Disturbed

LEMMA GradedGrow ==
  ASSUME Shapes, Others
  PROVE  /\ grades' \in [Slots -> [key : GradeKeys, version : {0, 1}]]
         /\ Graded(grades) \subseteq Graded(grades')
<1>1. ASSUME NEW s \in Slots, NEW key \in Keys \cup {Unattributed}, ImportGrade(s, key)
      PROVE  /\ grades' \in [Slots -> [key : GradeKeys, version : {0, 1}]]
             /\ Graded(grades) \subseteq Graded(grades')
  <2> DEFINE version == IF grades[s].key = NoKey THEN 0 ELSE 1 - grades[s].version
  <2>1. version \in {0, 1}
    BY DEF Shapes
  <2>2. grades' = [grades EXCEPT ![s] = [key |-> key, version |-> version]]
    BY <1>1 DEF ImportGrade
  <2>3. key \in GradeKeys /\ key # NoKey
    BY BackfillAssumption DEF GradeKeys, NoKey, Unattributed
  <2> HIDE DEF version
  <2> QED BY <2>1, <2>2, <2>3 DEF Shapes, Graded
<1>2. CASE grades' = grades
  BY <1>2 DEF Shapes
<1> QED BY <1>1, <1>2 DEF Others, IngestEarlier, ImportSyllabus

LEMMA OthersHist ==
  ASSUME Shapes, Others
  PROVE  hist' \in Histories /\ \A s \in DOMAIN hist' : hist'[s].name \in hist'[s].names
<1>1. ASSUME NEW s \in Slots, NEW key \in Keys, NEW name \in Names, IngestEarlier(s, key, name)
      PROVE  hist' \in Histories /\ \A t \in DOMAIN hist' : hist'[t].name \in hist'[t].names
  <2> DEFINE row == [key |-> key, name |-> name, foreign |-> TRUE, late |-> TRUE,
                     names |-> {name} \cup IF s \in DOMAIN hist THEN hist[s].names ELSE {},
                     syllabus |-> s \in DOMAIN hist /\ hist[s].syllabus]
  <2>1. \A t \in DOMAIN hist : hist[t] \in Sections
    BY InHistories DEF Shapes
  <2>2. (s \in DOMAIN hist /\ hist[s].syllabus) \in BOOLEAN
    BY <2>1 DEF Sections
  <2>3. row \in Sections /\ row.name \in row.names
    BY <2>1, <2>2 DEF Sections
  <2>4. hist' = [t \in DOMAIN hist \cup {s} |-> IF t = s THEN row ELSE hist[t]]
    BY <1>1 DEF IngestEarlier
  <2> HIDE DEF row
  <2>5. DOMAIN hist' = DOMAIN hist \cup {s} /\ hist' = [t \in DOMAIN hist' |-> hist'[t]]
    BY <2>4
  <2>6. \A t \in DOMAIN hist' : hist'[t] = IF t = s THEN row ELSE hist[t]
    BY <2>4
  <2>7. DOMAIN hist \subseteq Slots
    BY InHistories DEF Shapes
  <2> QED BY <2>1, <2>3, <2>5, <2>6, <2>7, InHistories DEF Shapes
<1>2. ASSUME NEW s \in Slots, ImportSyllabus(s)
      PROVE  hist' \in Histories /\ \A t \in DOMAIN hist' : hist'[t].name \in hist'[t].names
  <2>1. DOMAIN hist \subseteq Slots /\ \A t \in DOMAIN hist : hist[t] \in Sections
    BY InHistories DEF Shapes
  <2>2. hist' = [hist EXCEPT ![s].syllabus = TRUE] /\ s \in DOMAIN hist
    BY <1>2 DEF ImportSyllabus
  <2>3. DOMAIN hist' = DOMAIN hist /\ hist' = [t \in DOMAIN hist' |-> hist'[t]]
    BY <2>2, InHistories DEF Shapes
  <2>4. \A t \in DOMAIN hist' : hist'[t] = IF t = s THEN [hist[s] EXCEPT !.syllabus = TRUE] ELSE hist[t]
    BY <2>2
  <2>5. \A t \in DOMAIN hist' : hist'[t] \in Sections
    BY <2>1, <2>3, <2>4 DEF Sections
  <2>6. \A t \in DOMAIN hist' : hist'[t].name \in hist'[t].names
    BY <2>1, <2>3, <2>4 DEF Sections, Shapes
  <2> QED BY <2>1, <2>3, <2>5, <2>6, InHistories
<1>3. CASE hist' = hist
  BY <1>3 DEF Shapes
<1> QED BY <1>1, <1>2, <1>3 DEF Others, ImportGrade

(* The end of a sweep beside a command *)
LEMMA SweepEnds ==
  ASSUME Shapes, NEW l \in Lives, NEW name \in Names, EndSweep(l, name)
  PROVE  /\ live' \in [Lives -> Names]
         /\ stored' \in ScoreTables
         /\ Cites(stored) => Cites(stored')
         /\ stored = Scores(grades, hist) => stored' = Scores(grades, hist)'
         /\ origin' # Idle => live' = live /\ origin' = origin
<1>1. /\ live' = [live EXCEPT ![l] = name]
      /\ stored' = [m \in Lives |->
           IF name # live[l] /\ LiveKey[m] = LiveKey[l]
           THEN Score(grades, hist, LiveKey[m], live'[m]) ELSE stored[m]]
      /\ grades' = grades /\ hist' = hist
      /\ origin' = IF name # live[l] THEN Idle ELSE origin
  BY DEF EndSweep
<1>2. live' \in [Lives -> Names]
  BY <1>1 DEF Shapes
<1>3. stored' \in ScoreTables /\ (Cites(stored) => Cites(stored'))
  <2>1. ASSUME NEW m \in Lives
        PROVE  stored'[m] \in [source : {"global", "course", "instructor_course"},
                               rows : SUBSET Cited, own : SUBSET Cited]
    BY <1>1, ScoreType DEF Shapes, ScoreTables
  <2>2. ASSUME NEW m \in Lives, Cites(stored)
        PROVE  \A r \in stored'[m].rows \cup stored'[m].own : r[1] \in Graded(grades)
    BY <1>1, <2>2, ScoreType DEF Shapes, Cites
  <2> QED BY <1>1, <2>1, <2>2 DEF ScoreTables, Cites
<1>4. ASSUME stored = Scores(grades, hist) PROVE stored' = Scores(grades, hist)'
  <2>1. ASSUME NEW m \in Lives PROVE stored'[m] = Score(grades, hist, LiveKey[m], live'[m])
    <3>1. stored[m] = Score(grades, hist, LiveKey[m], live[m])
      BY <1>4 DEF Scores
    <3>2. CASE name # live[l] /\ LiveKey[m] = LiveKey[l]
      BY <1>1, <3>2
    <3>3. CASE ~(name # live[l] /\ LiveKey[m] = LiveKey[l])
      <4>1. live'[m] = live[m]
        BY <1>1, <3>3 DEF Shapes
      <4> QED BY <1>1, <3>1, <3>3, <4>1
    <3> QED BY <3>2, <3>3
  <2>2. Scores(grades, hist)' = [m \in Lives |-> Score(grades, hist, LiveKey[m], live'[m])]
    BY <1>1 DEF Scores
  <2> QED BY <1>1, <2>1, <2>2
<1>5. origin' # Idle => live' = live /\ origin' = origin
  BY <1>1 DEF Shapes
<1> QED BY <1>2, <1>3, <1>4, <1>5

(* The steps of the command before its end leave the tables alone, but for the mark
   that tells a late observation *)
LEMMA FetchKeeps ==
  ASSUME Shapes, NEW page \in Pages, Fetch(page)
  PROVE  /\ hist' \in Histories /\ DOMAIN hist' = DOMAIN hist
         /\ \A s \in DOMAIN hist : hist'[s] = [hist[s] EXCEPT !.late = FALSE]
         /\ \A s \in DOMAIN hist :
              /\ hist[s] \in Sections
              /\ hist'[s].key = hist[s].key /\ hist'[s].name = hist[s].name
              /\ hist'[s].names = hist[s].names /\ ~hist'[s].late
         /\ (\A s \in DOMAIN hist : ~hist[s].late) => hist' = hist
<1>1. hist' = [s \in DOMAIN hist |-> [hist[s] EXCEPT !.late = FALSE]]
  BY DEF Fetch
<1>2. /\ DOMAIN hist \subseteq Slots /\ \A s \in DOMAIN hist : hist[s] \in Sections
      /\ hist = [s \in DOMAIN hist |-> hist[s]]
  BY InHistories DEF Shapes
<1>3. \A s \in DOMAIN hist : [hist[s] EXCEPT !.late = FALSE] \in Sections
  BY <1>2 DEF Sections
<1>4. DOMAIN hist' = DOMAIN hist /\ hist' = [s \in DOMAIN hist' |-> hist'[s]]
  BY <1>1
<1>5. hist' \in Histories
  BY <1>1, <1>2, <1>3, <1>4, InHistories
<1>6. \A s \in DOMAIN hist :
        /\ hist'[s].key = hist[s].key /\ hist'[s].name = hist[s].name
        /\ hist'[s].names = hist[s].names /\ ~hist'[s].late
  BY <1>1, <1>2 DEF Sections
<1>7. ASSUME \A s \in DOMAIN hist : ~hist[s].late PROVE hist' = hist
  <2>1. \A s \in DOMAIN hist : hist'[s] = hist[s]
    BY <1>1, <1>2, <1>7 DEF Sections
  <2> QED BY <1>2, <1>4, <2>1
<1> QED BY <1>1, <1>2, <1>4, <1>5, <1>6, <1>7

LEMMA CommandSteps ==
  ASSUME Shapes, CommandFits, LockFits, [Next]_vars
  PROVE  cmd' = Idle \/ cmd' \in Commands
<1>1. ASSUME NEW args \in Modes, NEW terms \in SUBSET Terms \ {{}}, Start(args, terms)
      PROVE  cmd' \in Commands
  <2>1. args \in Arguments
    BY DEF Modes
  <2>2. [s \in Slots |-> grades[s].key] \in [Slots -> GradeKeys]
    BY DEF Shapes
  <2>3. cmd' = [pc |-> IF Writes(args.mode) THEN "fetch" ELSE "lock", args |-> args,
                terms |-> terms, keys |-> [s \in Slots |-> grades[s].key],
                page |-> {}, rows |-> {}, gone |-> {}, before |-> stored, after |-> stored]
    BY <1>1 DEF Start
  <2>4. stored \in ScoreTables
    BY DEF Shapes
  <2> HIDE DEF Arguments, ScoreTables
  <2> QED BY <2>1, <2>2, <2>3, <2>4 DEF Commands, Places
<1>2. ASSUME NEW page \in Pages, Fetch(page) PROVE cmd' = Idle \/ cmd' \in Commands
  <2>1. InTerms(page) \in SUBSET UNION Pages
    BY DEF InTerms
  <2>2. Selected(InTerms(page), cmd.keys) \in SUBSET UNION Pages
    BY <2>1 DEF Selected
  <2>3. cmd \in Commands
    BY <1>2 DEF Fetch, Shapes, Idle
  <2>4. \/ cmd' = Idle
        \/ cmd' = [cmd EXCEPT !.pc = "lock", !.page = InTerms(page),
                              !.rows = Selected(InTerms(page), cmd.keys)]
    BY <1>2 DEF Fetch
  <2> QED BY <2>1, <2>2, <2>3, <2>4 DEF Commands, Places
<1>3. CASE TakeLock
  <2>1. cmd \in Commands /\ stored \in ScoreTables
    BY <1>3 DEF TakeLock, Shapes, Idle
  <2>2. \/ cmd' = Idle
        \/ \E pc \in {"write", "select", "rebuild"} : cmd' = [cmd EXCEPT !.pc = pc, !.before = stored]
    <3>1. CASE cmd.args.mode = "dry_run"
      BY <1>3, <3>1 DEF TakeLock
    <3>2. CASE cmd.args.mode # "dry_run" /\ lock # "free"
      BY <1>3, <3>2 DEF TakeLock
    <3>3. CASE cmd.args.mode # "dry_run" /\ lock = "free"
      <4>1. cmd' = [cmd EXCEPT !.before = stored,
                       !.pc = CASE cmd.args.mode = "apply" -> "write"
                                [] cmd.args.mode = "rollback" -> "select"
                                [] OTHER -> "rebuild"]
        BY <1>3, <3>3 DEF TakeLock
      <4>2. CASE cmd.args.mode = "apply"
        BY <2>1, <4>1, <4>2 DEF Commands
      <4>3. CASE cmd.args.mode = "rollback"
        BY <2>1, <4>1, <4>3 DEF Commands
      <4>4. CASE cmd.args.mode \notin {"apply", "rollback"}
        BY <2>1, <4>1, <4>4 DEF Commands
      <4> QED BY <4>2, <4>3, <4>4
    <3> QED BY <3>1, <3>2, <3>3
  <2> QED BY <2>1, <2>2 DEF Commands, Places
<1>4. CASE Write
  BY <1>4 DEF Write, Shapes, Idle, Commands, Places
<1>5. CASE SelectRollback
  <2>1. cmd \in Commands /\ cmd' = [cmd EXCEPT !.pc = "delete", !.gone = Eligible(hist, cmd.terms)]
    BY <1>5 DEF SelectRollback, Shapes, Idle
  <2>2. Eligible(hist, cmd.terms) \in SUBSET Slots
    BY InHistories DEF Eligible, Shapes
  <2> QED BY <2>1, <2>2 DEF Commands, Places
<1>6. CASE Delete
  BY <1>6 DEF Delete, Ended, Shapes, Idle, Commands, Places
<1>7. CASE Rebuild
  <2>1. cmd \in Commands /\ cmd' = [cmd EXCEPT !.pc = "rebuilt", !.after = Scores(grades, View)]
    BY <1>7 DEF Rebuild, Shapes, Idle
  <2>2. Scores(grades, View) \in ScoreTables
    BY ScoresType DEF Shapes
  <2> QED BY <2>1, <2>2 DEF Commands, Places
<1>8. CASE Finish \/ Fail
  BY <1>8 DEF Finish, Fail, Ended
<1>9. CASE Others
  BY <1>9, OthersDisturb DEF Shapes
<1>10. ASSUME cmd' = cmd PROVE cmd' = Idle \/ cmd' \in Commands
  BY <1>10 DEF Shapes
<1>11. CASE BeginSweep \/ (\E l \in Lives, name \in Names : EndSweep(l, name)) \/ UNCHANGED vars
  BY <1>11, <1>10 DEF BeginSweep, EndSweep, vars
<1> QED BY <1>1, <1>2, <1>3, <1>4, <1>5, <1>6, <1>7, <1>8, <1>9, <1>11 DEF Next, Others

(* The end of a command that commits *)
Committed ==
  /\ Finish /\ Commits
  /\ hist' = View /\ stored' = cmd.after

LEMMA FinishWrites ==
  ASSUME Finish
  PROVE  /\ cmd.pc = "rebuilt" /\ Ended /\ grades' = grades /\ live' = live /\ calm' = calm
         /\ Committed \/ UNCHANGED <<hist, stored, settled, origin>>
BY DEF Finish, Committed

LEMMA StepShapes ==
  ASSUME Shapes, CommandFits, LockFits, [Next]_vars
  PROVE  Shapes'
<1>0. cmd' = Idle \/ cmd' \in Commands
  BY CommandSteps
<1>1. CASE Others
  <2>1. live' = live /\ stored' = stored
    BY <1>1, OthersDisturb
  <2> QED BY <1>0, <1>1, <2>1, GradedGrow, OthersHist DEF Shapes
<1>2. ASSUME NEW l \in Lives, NEW name \in Names, EndSweep(l, name) PROVE Shapes'
  <2>1. grades' = grades /\ hist' = hist
    BY <1>2 DEF EndSweep
  <2>2. live' \in [Lives -> Names] /\ stored' \in ScoreTables
    BY <1>2, SweepEnds
  <2> QED BY <1>0, <2>1, <2>2 DEF Shapes
<1>3. ASSUME NEW page \in Pages, Fetch(page) PROVE Shapes'
  <2>1. grades' = grades /\ live' = live /\ stored' = stored
    BY <1>3 DEF Fetch
  <2> QED BY <1>0, <1>3, <2>1, FetchKeeps DEF Shapes
<1>4. CASE Finish
  <2>1. grades' = grades /\ live' = live /\ cmd.pc = "rebuilt"
    BY <1>4, FinishWrites
  <2>2. CASE Committed
    <3>1. cmd \in Commands
      BY <2>1 DEF Shapes, Idle
    <3>2. cmd.after \in ScoreTables
      BY <3>1 DEF Commands
    <3>3. hist' \in Histories /\ \A s \in DOMAIN hist' : hist'[s].name \in hist'[s].names
      BY <2>1, <2>2, ViewType DEF Committed
    <3> QED BY <1>0, <2>1, <2>2, <3>2, <3>3 DEF Shapes, Committed
  <2>3. CASE hist' = hist /\ stored' = stored
    BY <1>0, <2>1, <2>3 DEF Shapes
  <2> QED BY <1>4, <2>2, <2>3, FinishWrites
<1>5. CASE UNCHANGED <<grades, hist, live, stored>>
  BY <1>0, <1>5 DEF Shapes
<1>6. \/ Others \/ Finish \/ UNCHANGED <<grades, hist, live, stored>>
      \/ \E l \in Lives, name \in Names : EndSweep(l, name)
      \/ \E page \in Pages : Fetch(page)
  BY DEF Next, Others, Start, TakeLock, Write, SelectRollback, Delete, Rebuild, Fail,
         BeginSweep, vars
<1> QED BY <1>1, <1>2, <1>3, <1>4, <1>5, <1>6

(* Which statement comes first in the transaction of each mode *)
LEMMA LockTaken ==
  ASSUME Shapes, TakeLock
  PROVE  /\ cmd \in Commands /\ cmd.pc = "lock"
         /\ UNCHANGED <<grades, hist, live, stored, ghosts>>
         /\ \/ cmd' = Idle /\ lock' = lock
            \/ /\ cmd' = [cmd EXCEPT !.pc = "write", !.before = stored]
               /\ lock' = lock /\ cmd.args.mode = "dry_run"
            \/ /\ lock = "free" /\ lock' = "command"
               /\ \/ /\ cmd' = [cmd EXCEPT !.pc = "write", !.before = stored]
                     /\ cmd.args.mode = "apply"
                  \/ /\ cmd' = [cmd EXCEPT !.pc = "select", !.before = stored]
                     /\ cmd.args.mode = "rollback"
                  \/ /\ cmd' = [cmd EXCEPT !.pc = "rebuild", !.before = stored]
                     /\ cmd.args.mode = "rebuild_only"
<1>1. cmd \in Commands /\ cmd.pc = "lock" /\ UNCHANGED <<grades, hist, live, stored, ghosts>>
  BY DEF TakeLock, Shapes, Idle
<1>2. cmd.args.mode \in {"dry_run", "apply", "rollback", "rebuild_only"}
  BY <1>1 DEF Commands, Arguments
<1>3. CASE cmd.args.mode = "dry_run"
  BY <1>1, <1>3 DEF TakeLock, Commands
<1>4. CASE cmd.args.mode # "dry_run" /\ lock # "free"
  BY <1>1, <1>4 DEF TakeLock
<1>5. CASE cmd.args.mode # "dry_run" /\ lock = "free"
  <2>1. /\ lock' = "command"
        /\ cmd' = [cmd EXCEPT !.before = stored,
                     !.pc = CASE cmd.args.mode = "apply" -> "write"
                              [] cmd.args.mode = "rollback" -> "select"
                              [] OTHER -> "rebuild"]
    BY <1>5 DEF TakeLock
  <2>2. CASE cmd.args.mode = "apply"
    BY <1>1, <1>5, <2>1, <2>2 DEF Commands
  <2>3. CASE cmd.args.mode = "rollback"
    BY <1>1, <1>5, <2>1, <2>3 DEF Commands
  <2>4. CASE cmd.args.mode = "rebuild_only"
    BY <1>1, <1>5, <2>1, <2>4 DEF Commands
  <2> QED BY <1>2, <1>5, <2>2, <2>3, <2>4
<1> QED BY <1>1, <1>3, <1>4, <1>5

LEMMA StepLock ==
  ASSUME Shapes, LockFits, [Next]_vars
  PROVE  LockFits'
<1>1. ASSUME NEW args \in Modes, NEW terms \in SUBSET Terms \ {{}}, Start(args, terms)
      PROVE  LockFits'
  <2>1. cmd.pc = "idle" /\ cmd'.pc \in {"fetch", "lock"} /\ lock' = lock
    BY <1>1 DEF Start
  <2> QED BY <2>1 DEF LockFits, InTransaction
<1>2. ASSUME NEW page \in Pages, Fetch(page) PROVE LockFits'
  <2>1. cmd.pc = "fetch" /\ lock' = lock /\ cmd \in Commands
    BY <1>2 DEF Fetch, Shapes, Idle
  <2>2. cmd'.pc \in {"idle", "lock"}
    BY <1>2, <2>1 DEF Fetch, Idle, Commands
  <2> QED BY <2>1, <2>2 DEF LockFits, InTransaction
<1>3. CASE TakeLock
  <2>1. cmd.pc = "lock" /\ cmd \in Commands /\ lock # "command"
    BY <1>3, LockTaken DEF LockFits, InTransaction
  <2>2. CASE cmd' = Idle /\ lock' = lock
    BY <2>1, <2>2 DEF LockFits, InTransaction, Idle
  <2>3. CASE /\ cmd' = [cmd EXCEPT !.pc = "write", !.before = stored]
             /\ lock' = lock /\ cmd.args.mode = "dry_run"
    <3>1. cmd'.args.mode = "dry_run"
      BY <2>1, <2>3 DEF Commands
    <3> QED BY <2>1, <2>3, <3>1 DEF LockFits, InTransaction
  <2>4. ASSUME NEW pc \in {"write", "select", "rebuild"}, cmd.args.mode # "dry_run",
               lock' = "command", cmd' = [cmd EXCEPT !.pc = pc, !.before = stored]
        PROVE  LockFits'
    <3>1. cmd'.args.mode # "dry_run" /\ cmd'.pc = pc
      BY <2>1, <2>4 DEF Commands
    <3> QED BY <2>4, <3>1 DEF LockFits, InTransaction
  <2> QED BY <1>3, <2>2, <2>3, <2>4, LockTaken
<1>4. CASE Write \/ SelectRollback \/ Rebuild
  <2>1. cmd \in Commands
    BY <1>4 DEF Write, SelectRollback, Rebuild, Shapes, Idle
  <2>2. /\ lock' = lock /\ cmd'.args = cmd.args
        /\ cmd.pc \in {"write", "select", "rebuild"} /\ cmd'.pc \in {"rebuild", "delete", "rebuilt"}
    BY <1>4, <2>1 DEF Write, SelectRollback, Rebuild, Commands
  <2> QED BY <2>2 DEF LockFits, InTransaction
<1>5. ASSUME Ended PROVE LockFits'
  BY <1>5 DEF Ended, LockFits, InTransaction, Idle
<1>6. CASE Delete
  <2>1. cmd \in Commands /\ cmd.pc = "delete"
    BY <1>6 DEF Delete, Shapes, Idle
  <2>2. Ended \/ (lock' = lock /\ cmd' = [cmd EXCEPT !.pc = "rebuild"])
    BY <1>6 DEF Delete
  <2> QED BY <1>5, <2>1, <2>2 DEF LockFits, InTransaction, Commands
<1>7. CASE Finish \/ Fail
  BY <1>5, <1>7 DEF Finish, Fail
<1>8. CASE BeginSweep \/ \E l \in Lives, name \in Names : EndSweep(l, name)
  BY <1>8 DEF BeginSweep, EndSweep, LockFits, InTransaction
<1>9. ASSUME lock' = lock, cmd' = cmd PROVE LockFits'
  BY <1>9 DEF LockFits, InTransaction
<1>10. CASE Others \/ UNCHANGED vars
  BY <1>9, <1>10, OthersDisturb DEF vars
<1> QED BY <1>1, <1>2, <1>3, <1>4, <1>6, <1>7, <1>8, <1>10 DEF Next, Others

LEMMA StepFits ==
  ASSUME Shapes, CommandFits, [Next]_vars
  PROVE  CommandFits'
<1>0. ASSUME cmd' = Idle PROVE CommandFits'
  BY <1>0 DEF CommandFits, Idle
<1>1. ASSUME NEW args \in Modes, NEW terms \in SUBSET Terms \ {{}}, Start(args, terms)
      PROVE  CommandFits'
  <2>1. /\ cmd'.pc = IF Writes(args.mode) THEN "fetch" ELSE "lock"
        /\ cmd'.args = args /\ cmd'.rows = {} /\ cmd'.gone = {}
    BY <1>1 DEF Start
  <2> QED BY <2>1 DEF CommandFits
<1>2. ASSUME NEW page \in Pages, Fetch(page) PROVE CommandFits'
  <2>1. cmd.pc = "fetch" /\ cmd \in Commands
    BY <1>2 DEF Fetch, Shapes, Idle
  <2>2. \/ cmd' = Idle
        \/ cmd' = [cmd EXCEPT !.pc = "lock", !.page = InTerms(page),
                              !.rows = Selected(InTerms(page), cmd.keys)]
    BY <1>2 DEF Fetch
  <2> QED BY <1>0, <2>1, <2>2 DEF CommandFits, Commands
<1>3. CASE TakeLock
  BY <1>0, <1>3, LockTaken DEF CommandFits, Commands, Writes
<1>4. CASE Write \/ Rebuild
  <2>1. cmd \in Commands
    BY <1>4 DEF Write, Rebuild, Shapes, Idle
  <2> QED BY <1>4, <2>1 DEF Write, Rebuild, CommandFits, Commands
<1>5. CASE SelectRollback
  <2>1. cmd \in Commands
    BY <1>5 DEF SelectRollback, Shapes, Idle
  <2> QED BY <1>5, <2>1 DEF SelectRollback, CommandFits, Commands, Writes
<1>6. CASE Delete
  <2>1. cmd \in Commands /\ cmd.pc = "delete"
    BY <1>6 DEF Delete, Shapes, Idle
  <2>2. cmd' = Idle \/ cmd' = [cmd EXCEPT !.pc = "rebuild"]
    BY <1>6 DEF Delete, Ended
  <2> QED BY <1>0, <2>1, <2>2 DEF CommandFits, Commands, Writes
<1>7. CASE Finish \/ Fail
  BY <1>0, <1>7 DEF Finish, Fail, Ended
<1>8. CASE cmd' = cmd
  BY <1>8 DEF CommandFits
<1> QED BY <1>1, <1>2, <1>3, <1>4, <1>5, <1>6, <1>7, <1>8, OthersDisturb
        DEF Next, Others, BeginSweep, EndSweep, vars

LEMMA StepCites ==
  ASSUME Shapes, CitesGraded, [Next]_vars
  PROVE  CitesGraded'
<1>1. CASE Others
  <2>1. stored' = stored /\ cmd' = cmd /\ Graded(grades) \subseteq Graded(grades')
    BY <1>1, OthersDisturb, GradedGrow
  <2> QED BY <2>1 DEF CitesGraded, Cites
<1>2. ASSUME NEW l \in Lives, NEW name \in Names, EndSweep(l, name) PROVE CitesGraded'
  <2>1. grades' = grades /\ cmd' = cmd /\ Cites(stored')
    BY <1>2, SweepEnds DEF EndSweep, CitesGraded
  <2> QED BY <2>1 DEF CitesGraded, Cites
<1>3. CASE Finish
  <2>1. grades' = grades /\ cmd' = Idle /\ cmd.pc = "rebuilt"
    BY <1>3, FinishWrites DEF Ended
  <2>2. Cites(stored')
    BY <1>3, <2>1, FinishWrites DEF Committed, CitesGraded
  <2> QED BY <2>1, <2>2 DEF CitesGraded, Cites, Idle
<1>4. ASSUME NEW args \in Modes, NEW terms \in SUBSET Terms \ {{}}, Start(args, terms)
      PROVE  CitesGraded'
  <2>1. grades' = grades /\ stored' = stored /\ cmd'.after = stored
    BY <1>4 DEF Start
  <2> QED BY <2>1 DEF CitesGraded, Cites
<1>5. CASE Rebuild
  <2>1. grades' = grades /\ stored' = stored /\ cmd \in Commands
    BY <1>5 DEF Rebuild, Shapes, Idle
  <2>2. cmd'.after = Scores(grades, View)
    BY <1>5, <2>1 DEF Rebuild, Commands
  <2>3. Cites(Scores(grades, View))
    BY ScoresType DEF Shapes
  <2> QED BY <2>1, <2>2, <2>3 DEF CitesGraded, Cites
<1>6. CASE /\ UNCHANGED <<grades, stored>>
           /\ cmd' = Idle \/ (cmd.pc # "idle" /\ cmd'.after = cmd.after) \/ cmd' = cmd
  BY <1>6 DEF CitesGraded, Cites, Idle
<1>7. ASSUME \/ TakeLock \/ Write \/ SelectRollback \/ Delete \/ Fail
             \/ \E page \in Pages : Fetch(page)
      PROVE  /\ UNCHANGED <<grades, stored>>
             /\ cmd' = Idle \/ (cmd.pc # "idle" /\ cmd'.after = cmd.after) \/ cmd' = cmd
  <2>0. cmd.pc # "idle"
    BY <1>7 DEF TakeLock, Write, SelectRollback, Delete, Fail, Fetch
  <2>1. cmd \in Commands /\ cmd.pc # "idle"
    BY <2>0 DEF Shapes, Idle
  <2>2. UNCHANGED <<grades, stored>>
    BY <1>7 DEF TakeLock, Write, SelectRollback, Delete, Fail, Fetch
  <2>3. CASE TakeLock
    BY <2>1, <2>3, LockTaken DEF Commands
  <2>4. CASE Write \/ SelectRollback \/ Delete \/ Fail
    BY <2>1, <2>4 DEF Write, SelectRollback, Delete, Fail, Ended, Commands
  <2>5. CASE \E page \in Pages : Fetch(page)
    BY <2>1, <2>5 DEF Fetch, Commands
  <2> QED BY <1>7, <2>1, <2>2, <2>3, <2>4, <2>5
<1> QED BY <1>1, <1>2, <1>3, <1>4, <1>5, <1>6, <1>7 DEF Next, Others, BeginSweep, vars

LEMMA AgreesStays ==
  ASSUME NEW rows, Agrees(rows), DOMAIN hist' = DOMAIN hist,
         \A s \in DOMAIN hist : hist'[s].key = hist[s].key /\ hist'[s].name = hist[s].name
  PROVE  Agrees(rows)'
BY DEF Agrees

LEMMA StepSettled ==
  ASSUME Shapes, CommandFits, SettledHolds, [Next]_vars
  PROVE  SettledHolds'
<1>1. CASE Others
  BY <1>1, OthersDisturb DEF SettledHolds
<1>2. ASSUME NEW page \in Pages, Fetch(page) PROVE SettledHolds'
  <2>1. settled' = settled
    BY <1>2 DEF Fetch, ghosts
  <2> QED BY <1>2, <2>1, FetchKeeps, AgreesStays DEF SettledHolds
<1>3. CASE hist' = hist /\ settled' = settled
  BY <1>3 DEF SettledHolds, Agrees
<1>4. CASE Committed
  <2>1. cmd.pc = "rebuilt" /\ cmd \in Commands
    BY <1>4, FinishWrites DEF Committed, Shapes, Idle
  <2>2. /\ hist' = View
        /\ settled' = CASE cmd.args.mode = "apply" -> IF Overtaken THEN <<>> ELSE Question
                        [] cmd.args.mode = "rebuild_only" -> settled
                        [] OTHER -> <<>>
    BY <1>4 DEF Committed, Finish
  <2>3. CASE cmd.args.mode = "apply" /\ ~Overtaken
    <3>1. settled' = <<cmd.page, cmd.keys>>
      BY <2>2, <2>3 DEF Question
    <3>2. cmd.rows = Selected(cmd.page, cmd.keys) /\ cmd.gone = {}
      BY <2>1, <2>3 DEF CommandFits, Writes
    <3>3. cmd.rows \in SUBSET UNION Pages /\ hist \in Histories
      BY <2>1 DEF Commands, Shapes
    <3>4. ASSUME NEW s \in SlotsOf(cmd.rows)
          PROVE  /\ s \in DOMAIN View
                 /\ View[s].key = RowAt(cmd.rows, s).key
                 /\ View[s].name = RowAt(cmd.rows, s).name
      <4> DEFINE row == RowAt(cmd.rows, s)
      <4>1. s \in DOMAIN View /\ View[s] = Written(hist, cmd.rows)[s]
        BY <2>1, <3>2, ViewType
      <4>2. CASE s \notin DOMAIN hist
        <5>1. View[s] = NewSection(row)
          BY <3>3, <4>1, <4>2, WrittenSection
        <5> QED BY <4>1, <5>1 DEF NewSection
      <4>3. CASE s \in DOMAIN hist
        <5>1. View[s] = UpdatedSection(hist[s], row)
          BY <3>3, <4>1, <4>3, WrittenSection
        <5>2. ~hist[s].late /\ hist[s] \in Sections
          BY <2>3, <3>3, <4>3, InHistories DEF Overtaken
        <5> HIDE DEF row
        <5>3. View[s].key = row.key /\ View[s].name = row.name
          BY <5>1, <5>2 DEF UpdatedSection, InstructorDiffers, Sections
        <5> QED BY <4>1, <5>3 DEF row
      <4> QED BY <4>2, <4>3
    <3>5. ASSUME NEW rows, rows = cmd.rows PROVE Agrees(rows)'
      BY <2>2, <3>4, <3>5 DEF Agrees
    <3>6. PICK rows : rows = Selected(cmd.page, cmd.keys)
      OBVIOUS
    <3>7. settled'[1] = cmd.page /\ settled'[2] = cmd.keys
      BY <3>1
    <3>8. Agrees(rows)' /\ rows = Selected(settled'[1], settled'[2])
      BY <3>2, <3>5, <3>6, <3>7
    <3> QED BY <3>8 DEF SettledHolds, Agrees
  <2>4. CASE cmd.args.mode = "rebuild_only"
    <3>1. cmd.rows = {} /\ cmd.gone = {}
      BY <2>1, <2>4 DEF CommandFits, Writes
    <3>2. hist' = hist /\ settled' = settled
      BY <2>2, <2>4, <3>1, IdleView
    <3> QED BY <1>3, <3>2
  <2>5. CASE settled' = <<>>
    BY <2>5 DEF SettledHolds
  <2> QED BY <2>2, <2>3, <2>4, <2>5
<1>5. CASE Finish
  BY <1>3, <1>4, <1>5, FinishWrites
<1> QED BY <1>1, <1>2, <1>3, <1>5
        DEF Next, Others, Start, TakeLock, Write, SelectRollback, Delete, Rebuild, Fail,
            BeginSweep, EndSweep, ghosts, vars

LEMMA StepCalm ==
  ASSUME Shapes, CalmHolds, [Next]_vars
  PROVE  CalmHolds'
<1>1. CASE Others
  BY <1>1, OthersDisturb DEF CalmHolds
<1>2. ASSUME NEW args \in Modes, NEW terms \in SUBSET Terms \ {{}}, Start(args, terms)
      PROVE  CalmHolds'
  <2> SUFFICES ASSUME calm' PROVE CalmHolds'
    BY DEF CalmHolds
  <2>1. /\ cmd'.pc = IF Writes(args.mode) THEN "fetch" ELSE "lock"
        /\ cmd'.args = args /\ cmd'.keys = [s \in Slots |-> grades[s].key]
        /\ UNCHANGED <<grades, hist, live, stored>>
        /\ CodeOnlyParity /\ \A s \in DOMAIN hist : grades[s].key \in {hist[s].key, NoKey}
    BY <1>2 DEF Start
  <2>2. stored = Scores(grades, hist)
    <3>1. stored \in ScoreTables /\ Scores(grades, hist) \in ScoreTables
      BY ScoresType DEF Shapes
    <3>2. \A l \in Lives : stored[l] = Scores(grades, hist)[l]
      BY <2>1 DEF CodeOnlyParity, Changes
    <3> QED BY <3>1, <3>2 DEF ScoreTables
  <2>3. Scores(grades, hist)' = Scores(grades, hist)
    BY <2>1 DEF Scores
  <2> QED BY <2>1, <2>2, <2>3 DEF CalmHolds
<1>3. ASSUME NEW page \in Pages, Fetch(page) PROVE CalmHolds'
  <2> SUFFICES ASSUME calm', cmd'.pc # "idle" PROVE CalmHolds'
    BY DEF CalmHolds
  <2>0. cmd.pc = "fetch" /\ UNCHANGED <<grades, live, stored, calm>>
    BY <1>3 DEF Fetch, ghosts
  <2>1. cmd \in Commands
    BY <2>0 DEF Shapes, Idle
  <2>2. cmd'.keys = cmd.keys
    BY <1>3, <2>1 DEF Fetch, Commands, Idle
  <2>3. /\ DOMAIN hist' = DOMAIN hist
        /\ \A s \in DOMAIN hist : /\ hist'[s].key = hist[s].key
                                  /\ hist'[s].names = hist[s].names /\ ~hist'[s].late
    BY <1>3, FetchKeeps
  <2>4. Scores(grades, hist') = Scores(grades, hist)
    BY <2>3, ScoresSame
  <2>5. Scores(grades, hist)' = Scores(grades, hist')
    BY <2>0 DEF Scores
  <2> QED BY <2>0, <2>2, <2>3, <2>4, <2>5 DEF CalmHolds
<1>4. ASSUME NEW l \in Lives, NEW name \in Names, EndSweep(l, name) PROVE CalmHolds'
  <2>1. UNCHANGED <<grades, hist, cmd, calm>>
    BY <1>4 DEF EndSweep
  <2>2. stored = Scores(grades, hist) => stored' = Scores(grades, hist)'
    BY <1>4, SweepEnds
  <2> QED BY <2>1, <2>2 DEF CalmHolds
<1>5. CASE cmd' = Idle
  BY <1>5 DEF CalmHolds, Idle
<1>6. CASE /\ UNCHANGED <<grades, hist, live, stored, calm>>
           /\ \/ cmd' = cmd
              \/ /\ cmd.pc \notin {"idle", "fetch"}
                 /\ cmd'.keys = cmd.keys /\ cmd'.args = cmd.args
  <2>1. Scores(grades, hist)' = Scores(grades, hist)
    BY <1>6 DEF Scores
  <2> QED BY <1>6, <2>1 DEF CalmHolds
<1>7. ASSUME TakeLock \/ Write \/ SelectRollback \/ Delete \/ Rebuild
      PROVE  \/ cmd' = Idle
             \/ /\ UNCHANGED <<grades, hist, live, stored, calm>>
                /\ cmd.pc \notin {"idle", "fetch"}
                /\ cmd'.keys = cmd.keys /\ cmd'.args = cmd.args
  <2>1. CASE TakeLock
    BY <2>1, LockTaken DEF Commands, ghosts
  <2>2. CASE Write \/ SelectRollback \/ Delete \/ Rebuild
    <3>1. cmd \in Commands
      BY <2>2 DEF Write, SelectRollback, Delete, Rebuild, Shapes, Idle
    <3> QED BY <2>2, <3>1 DEF Write, SelectRollback, Delete, Rebuild, Ended, Commands, ghosts
  <2> QED BY <1>7, <2>1, <2>2
<1> QED BY <1>1, <1>2, <1>3, <1>4, <1>5, <1>6, <1>7
        DEF Next, Others, Finish, Fail, Ended, BeginSweep, ghosts, vars

LEMMA StepSees ==
  ASSUME Shapes, LockFits, TransactionSees, [Next]_vars
  PROVE  TransactionSees'
<1>1. CASE Others
  <2>1. calm' = FALSE /\ origin' = Idle /\ stored' = stored /\ cmd' = cmd
    BY <1>1, OthersDisturb
  <2> QED BY <2>1 DEF TransactionSees, InTransaction
<1>2. ASSUME NEW l \in Lives, NEW name \in Names, EndSweep(l, name) PROVE TransactionSees'
  <2>1. ~InTransaction /\ cmd' = cmd
    BY <1>2 DEF EndSweep, LockFits
  <2> QED BY <2>1 DEF TransactionSees, InTransaction
<1>3. CASE Rebuild
  <2>1. /\ cmd \in Commands /\ UNCHANGED <<grades, hist, live, stored, ghosts>>
        /\ cmd' = [cmd EXCEPT !.pc = "rebuilt", !.after = Scores(grades, View)]
        /\ cmd.pc = "rebuild"
    BY <1>3 DEF Rebuild, Shapes, Idle
  <2>2. /\ cmd'.before = cmd.before /\ cmd'.args = cmd.args /\ cmd'.after = Scores(grades, View)
        /\ cmd'.rows = cmd.rows /\ cmd'.gone = cmd.gone
    BY <2>1 DEF Commands
  <2>3. View' = View
    BY <2>1, <2>2 DEF View
  <2>4. Scores(grades, View)' = Scores(grades, View)
    BY <2>1, <2>3 DEF Scores
  <2> QED BY <2>1, <2>2, <2>4 DEF TransactionSees, InTransaction
<1>4. CASE TakeLock
  <2>1. cmd \in Commands /\ stored' = stored
    BY <1>4, LockTaken
  <2>2. CASE cmd' = Idle
    BY <2>2 DEF TransactionSees, InTransaction, Idle
  <2>3. ASSUME NEW pc \in {"write", "select", "rebuild"},
               cmd' = [cmd EXCEPT !.pc = pc, !.before = stored]
        PROVE  TransactionSees'
    <3>1. cmd'.before = stored' /\ cmd'.pc # "rebuilt"
      BY <2>1, <2>3 DEF Commands
    <3> QED BY <3>1 DEF TransactionSees
  <2> QED BY <1>4, <2>2, <2>3, LockTaken
<1>5. CASE Write \/ SelectRollback \/ Delete
  <2>1. cmd \in Commands /\ stored' = stored /\ cmd.pc \in {"write", "select", "delete"}
    BY <1>5 DEF Write, SelectRollback, Delete, Shapes, Idle
  <2>2. \/ cmd' = Idle
        \/ /\ cmd'.before = cmd.before /\ cmd'.args = cmd.args
           /\ cmd'.pc \in {"rebuild", "delete"}
    BY <1>5, <2>1 DEF Write, SelectRollback, Delete, Ended, Commands
  <2> QED BY <2>1, <2>2 DEF TransactionSees, InTransaction, Idle
<1>6. ASSUME cmd'.pc \in {"idle", "fetch", "lock"} PROVE TransactionSees'
  BY <1>6 DEF TransactionSees, InTransaction
<1>7. ASSUME NEW page \in Pages, Fetch(page) PROVE cmd'.pc \in {"idle", "lock"}
  <2>1. cmd \in Commands
    BY <1>7 DEF Fetch, Shapes, Idle
  <2> QED BY <1>7, <2>1 DEF Fetch, Idle, Commands
<1>8. ASSUME NEW args \in Modes, NEW terms \in SUBSET Terms \ {{}}, Start(args, terms)
      PROVE  cmd'.pc \in {"fetch", "lock"}
  BY <1>8 DEF Start
<1>9. CASE Finish \/ Fail
  <2>1. cmd'.pc = "idle"
    BY <1>9 DEF Finish, Fail, Ended, Idle
  <2> QED BY <1>6, <2>1
<1>10. CASE BeginSweep \/ UNCHANGED vars
  <2>1. UNCHANGED <<grades, hist, live, stored, cmd, ghosts>>
    BY <1>10 DEF BeginSweep, vars
  <2>2. View' = View
    BY <2>1 DEF View
  <2>3. Scores(grades, View)' = Scores(grades, View)
    BY <2>1, <2>2 DEF Scores
  <2> QED BY <2>1, <2>3 DEF TransactionSees, InTransaction, ghosts
<1> QED BY <1>1, <1>2, <1>3, <1>4, <1>5, <1>6, <1>7, <1>8, <1>9, <1>10 DEF Next, Others

(* An apply that touched nothing known leaves what was there as it was *)
LEMMA OriginBegins ==
  ASSUME Shapes, CommandFits, CalmHolds, Committed, origin' # Idle
  PROVE  OriginHolds'
<1>1. cmd.pc = "rebuilt" /\ cmd \in Commands /\ cmd' = Idle /\ UNCHANGED <<grades, live>>
  BY FinishWrites DEF Committed, Ended, Shapes, Idle
<1>2. /\ cmd.args.mode = "apply" /\ calm
      /\ Eligible(hist, Terms) = {} /\ Touched(hist, cmd.rows) = {}
      /\ origin' = [hist |-> hist, stored |-> stored]
  BY DEF Committed, Finish
<1>3. /\ stored = Scores(grades, hist)
      /\ \A s \in DOMAIN hist : ~hist[s].late
  BY <1>1, <1>2 DEF CalmHolds, Writes
<1>4. hist \in Histories /\ cmd.rows \in SUBSET UNION Pages /\ cmd.gone = {}
  BY <1>1, <1>2 DEF Shapes, Commands, CommandFits
<1>5. /\ hist' = View /\ DOMAIN View = DOMAIN hist \cup SlotsOf(cmd.rows)
      /\ \A s \in DOMAIN View : View[s] = Written(hist, cmd.rows)[s]
  BY <1>1, <1>4, ViewType DEF Committed
<1>6. ASSUME NEW s \in DOMAIN hist
      PROVE  View[s] = hist[s] /\ (hist[s].foreign \/ hist[s].syllabus)
  <2>1. hist[s] \in Sections /\ s \in Slots
    BY <1>4, InHistories
  <2>2. hist[s].foreign \/ hist[s].syllabus
    BY <1>2, <2>1, BackfillAssumption DEF Eligible
  <2>3. CASE s \notin SlotsOf(cmd.rows)
    BY <1>4, <1>5, <2>2, <2>3, WrittenSection
  <2>4. CASE s \in SlotsOf(cmd.rows)
    <3> DEFINE row == RowAt(cmd.rows, s)
    <3>1. hist[s].key = row.key /\ ~InstructorDiffers(hist[s], row.name)
      BY <1>2, <2>4 DEF Touched
    <3>2. View[s] = UpdatedSection(hist[s], row)
      BY <1>4, <1>5, <2>4, WrittenSection
    <3> HIDE DEF row
    <3>3. View[s] = [hist[s] EXCEPT !.key = row.key]
      BY <3>1, <3>2 DEF UpdatedSection
    <3> QED BY <2>1, <2>2, <3>1, <3>3 DEF Sections
  <2> QED BY <2>3, <2>4
<1>7. ASSUME NEW s \in SlotsOf(cmd.rows) \ DOMAIN hist
      PROVE  ~View[s].foreign /\ ~View[s].syllabus /\ ~View[s].late
  <2>1. View[s] = NewSection(RowAt(cmd.rows, s))
    BY <1>4, <1>5, <1>7, WrittenSection
  <2> QED BY <2>1 DEF NewSection
<1>8. Scores(grades, hist)' = Scores(grades, hist') /\ origin.stored' = stored /\ origin.hist' = hist
  BY <1>1, <1>2 DEF Scores
<1>9. origin.stored' = [l \in Lives |-> Score(grades', origin.hist', LiveKey[l], live'[l])]
  BY <1>1, <1>2, <1>3 DEF Scores
<1>10. cmd'.pc = "idle"
  BY <1>1 DEF Idle
<1> QED BY <1>3, <1>4, <1>5, <1>6, <1>7, <1>8, <1>9, <1>10 DEF OriginHolds, Scores

LEMMA StepOrigin ==
  ASSUME Shapes, LockFits, CommandFits, CalmHolds, OriginHolds, [Next]_vars
  PROVE  OriginHolds'
<1> SUFFICES ASSUME origin' # Idle PROVE OriginHolds'
  BY DEF OriginHolds
<1>1. CASE Others
  BY <1>1, OthersDisturb
<1>2. ASSUME UNCHANGED <<grades, hist, live, origin>>,
             cmd'.pc \in {"delete", "rebuild", "rebuilt"} /\ cmd'.args.mode = "rollback"
               => cmd'.gone = Eligible(hist, cmd'.terms)
      PROVE  OriginHolds'
  <2>1. Scores(grades, origin.hist)' = Scores(grades, origin.hist)
    BY <1>2 DEF Scores
  <2>2. Eligible(hist, cmd.terms)' = Eligible(hist, cmd'.terms)
    BY <1>2 DEF Eligible
  <2> QED BY <1>2, <2>1, <2>2 DEF OriginHolds
<1>3. ASSUME UNCHANGED <<grades, hist, live, origin>>,
             cmd'.pc \notin {"delete", "rebuild", "rebuilt"} \/ cmd'.args.mode # "rollback"
      PROVE  OriginHolds'
  BY <1>2, <1>3
<1>4. ASSUME NEW l \in Lives, NEW name \in Names, EndSweep(l, name) PROVE OriginHolds'
  <2>1. UNCHANGED <<grades, hist, cmd>>
    BY <1>4 DEF EndSweep
  <2>2. UNCHANGED <<live, origin>>
    BY <1>4, SweepEnds
  <2>3. cmd.pc \in {"delete", "rebuild", "rebuilt"} /\ cmd.args.mode = "rollback"
          => cmd.gone = Eligible(hist, cmd.terms)
    BY <2>2 DEF OriginHolds
  <2> QED BY <1>2, <2>1, <2>2, <2>3
<1>5. CASE Finish
  <2>1. CASE Committed
    BY <2>1, OriginBegins
  <2>2. CASE UNCHANGED <<hist, stored, settled, origin>>
    <3>1. cmd'.pc = "idle" /\ UNCHANGED <<grades, live>>
      BY <1>5 DEF Finish, Ended, Idle
    <3> QED BY <1>3, <2>2, <3>1
  <2> QED BY <1>5, <2>1, <2>2, FinishWrites
<1>6. ASSUME NEW page \in Pages, Fetch(page) PROVE OriginHolds'
  <2>1. UNCHANGED <<grades, live, origin>>
    BY <1>6 DEF Fetch, ghosts
  <2>2. hist' = hist
    BY <1>6, <2>1, FetchKeeps DEF OriginHolds
  <2>3. cmd \in Commands
    BY <1>6 DEF Fetch, Shapes, Idle
  <2>4. cmd'.pc \in {"idle", "lock"}
    BY <1>6, <2>3 DEF Fetch, Idle, Commands
  <2> QED BY <1>3, <2>1, <2>2, <2>4
<1>7. CASE SelectRollback
  <2>1. cmd \in Commands /\ cmd.pc = "select" /\ UNCHANGED <<grades, hist, live, origin>>
    BY <1>7 DEF SelectRollback, Shapes, Idle, ghosts
  <2>2. cmd'.gone = Eligible(hist, cmd.terms) /\ cmd'.terms = cmd.terms
    BY <1>7, <2>1 DEF SelectRollback, Commands
  <2> QED BY <1>2, <2>1, <2>2
<1>8. CASE Delete \/ Rebuild
  <2>1. cmd \in Commands /\ cmd.pc \in {"delete", "rebuild"} /\ UNCHANGED <<grades, hist, live, origin>>
    BY <1>8 DEF Delete, Rebuild, Shapes, Idle, ghosts
  <2>2. \/ cmd' = Idle
        \/ cmd'.gone = cmd.gone /\ cmd'.terms = cmd.terms /\ cmd'.args = cmd.args
    BY <1>8, <2>1 DEF Delete, Rebuild, Ended, Commands
  <2>3. CASE cmd' = Idle
    BY <1>3, <2>1, <2>3 DEF Idle
  <2>4. cmd.args.mode = "rollback" => cmd.gone = Eligible(hist, cmd.terms)
    BY <2>1 DEF OriginHolds
  <2> QED BY <1>2, <2>1, <2>2, <2>3, <2>4
<1>9. CASE Write
  <2>1. cmd \in Commands /\ cmd.pc = "write" /\ UNCHANGED <<grades, hist, live, origin>>
    BY <1>9 DEF Write, Shapes, Idle, ghosts
  <2>2. cmd'.args = cmd.args /\ Writes(cmd.args.mode)
    BY <1>9, <2>1 DEF Write, Commands, CommandFits
  <2> QED BY <1>3, <2>1, <2>2 DEF Writes
<1>10. CASE TakeLock
  <2>1. cmd \in Commands /\ UNCHANGED <<grades, hist, live, origin>>
    BY <1>10, LockTaken DEF ghosts
  <2>2. CASE cmd' = Idle
    BY <1>3, <2>1, <2>2 DEF Idle
  <2>3. ASSUME NEW pc, cmd' = [cmd EXCEPT !.pc = pc, !.before = stored],
               pc \in {"write", "select"} \/ cmd.args.mode = "rebuild_only"
        PROVE  OriginHolds'
    <3>1. cmd'.pc = pc /\ cmd'.args = cmd.args
      BY <2>1, <2>3 DEF Commands
    <3> QED BY <1>3, <2>1, <2>3, <3>1
  <2> QED BY <1>10, <2>2, <2>3, LockTaken
<1>11. ASSUME NEW args \in Modes, NEW terms \in SUBSET Terms \ {{}}, Start(args, terms)
       PROVE  OriginHolds'
  <2>1. UNCHANGED <<grades, hist, live, origin>> /\ cmd'.pc \in {"fetch", "lock"}
    BY <1>11 DEF Start
  <2> QED BY <1>3, <2>1
<1>12. CASE Fail
  <2>1. UNCHANGED <<grades, hist, live, origin>> /\ cmd'.pc = "idle"
    BY <1>12 DEF Fail, Ended, Idle, ghosts
  <2> QED BY <1>3, <2>1
<1>13. CASE BeginSweep \/ UNCHANGED vars
  <2>1. UNCHANGED <<grades, hist, live, origin, cmd>>
    BY <1>13 DEF BeginSweep, ghosts, vars
  <2> QED BY <1>2, <2>1 DEF OriginHolds
<1> QED BY <1>1, <1>4, <1>5, <1>6, <1>7, <1>8, <1>9, <1>10, <1>11, <1>12, <1>13 DEF Next, Others

---------------------------------------------------------------------------
(* The theorems *)

(* The invariant is inductive: every statement of the command and every commit of
   another writer keeps it. *)
THEOREM BackfillInvariant == Spec => []BackfillInv
<1>1. BackfillInv /\ [Next]_vars => BackfillInv'
  BY StepShapes, StepLock, StepFits, StepCites, StepSettled, StepCalm, StepSees, StepOrigin
     DEF BackfillInv
<1> QED BY InitHolds, <1>1, PTL DEF Spec

(* Cached scores cite grade rows that are there, current names are observed ones, and
   the sweep lock is the command's exactly inside a transaction that takes it. *)
THEOREM BackfillTypeCorrect == Spec => []BackfillTypeOK
<1>1. BackfillInv => BackfillTypeOK
  <2> SUFFICES ASSUME BackfillInv PROVE BackfillTypeOK
    OBVIOUS
  <2>1. Shapes /\ LockFits /\ Cites(stored)
    BY DEF BackfillInv, CitesGraded
  <2>2. DOMAIN hist \subseteq Slots /\ \A s \in DOMAIN hist : hist[s] \in Sections
    BY <2>1, InHistories DEF Shapes
  <2>3. \A s \in DOMAIN hist : hist[s].name \in hist[s].names /\ hist[s].names \subseteq Names
    BY <2>1, <2>2 DEF Shapes, Sections
  <2>4. \A l \in Lives : \A r \in stored[l].rows \cup stored[l].own : r[1] \in Graded(grades)
    BY <2>1 DEF Cites
  <2>5. lock = "command" <=>
          /\ cmd.pc \in {"write", "select", "delete", "rebuild", "rebuilt"}
          /\ cmd.args.mode # "dry_run"
    BY <2>1 DEF LockFits, InTransaction
  <2> QED BY <2>2, <2>3, <2>4, <2>5 DEF BackfillTypeOK
<1> QED BY <1>1, BackfillInvariant, PTL

(* No course-level score moves when sections are added that back grade rows: the
   grade rows of a course are those it had. *)
LEMMA CourseRowsStay ==
  ASSUME BackfillInv, cmd.pc = "rebuilt", calm, cmd.args.mode = "apply", NEW k
  PROVE  CourseRows(grades, View, k) = CourseRows(grades, hist, k)
<1>1. Shapes /\ CommandFits /\ CalmHolds
  BY DEF BackfillInv
<1>2. /\ cmd.rows = Selected(cmd.page, cmd.keys) /\ cmd.gone = {}
      /\ cmd.keys = [s \in Slots |-> grades[s].key]
      /\ \A s \in DOMAIN hist : grades[s].key \in {hist[s].key, NoKey}
  BY <1>1 DEF CommandFits, CalmHolds, Writes
<1>3. /\ hist \in Histories /\ cmd.rows \in SUBSET UNION Pages /\ DOMAIN hist \subseteq Slots
  BY <1>1, InHistories DEF Shapes, Idle, Commands
<1>4. ASSUME NEW s \in Graded(grades), s \in DOMAIN View
      PROVE  View[s].key = grades[s].key
  <2>1. s \in DOMAIN hist \cup SlotsOf(cmd.rows) /\ View[s] = Written(hist, cmd.rows)[s]
    BY <1>1, <1>2, <1>4, ViewType
  <2>2. CASE s \in SlotsOf(cmd.rows)
    <3> DEFINE row == RowAt(cmd.rows, s)
    <3>1. View[s].key = row.key
      BY <1>3, <2>1, <2>2, WrittenSection
    <3>2. row \in Selected(cmd.page, cmd.keys) /\ row.slot = s
      BY <1>2, <2>2, RowAtIn
    <3>3. cmd.keys[s] = row.key
      BY <3>2 DEF Selected, BacksGrade
    <3> QED BY <1>2, <3>1, <3>3 DEF Graded
  <2>3. CASE s \notin SlotsOf(cmd.rows)
    <3>1. View[s] = hist[s] /\ s \in DOMAIN hist
      BY <1>3, <2>1, <2>3, WrittenSection
    <3> QED BY <1>2, <3>1 DEF Graded
  <2> QED BY <2>2, <2>3
<1>5. \A s \in Graded(grades) : s \in DOMAIN hist => hist[s].key = grades[s].key
  BY <1>2 DEF Graded
<1>6. {s \in Graded(grades) : grades[s].key = k \/ (s \in DOMAIN View /\ View[s].key = k)}
      = {s \in Graded(grades) : grades[s].key = k \/ (s \in DOMAIN hist /\ hist[s].key = k)}
  BY <1>4, <1>5
<1> QED BY <1>6 DEF CourseRows

(* The course-level gate of an apply never stops what the backfill itself does: with a
   cache that was current when the keys were read and nobody else writing, only scores
   of an instructor move. *)
THEOREM GateSparesBackfill == Spec => []GateStopsOnlyForeignChange
<1>1. ASSUME BackfillInv, cmd.pc = "rebuilt", calm, cmd.args.mode = "apply"
      PROVE  CourseLevelInvariant(cmd.before, cmd.after)
  <2>1. /\ cmd.before = Scores(grades, hist)
        /\ cmd.after = Scores(grades, View)
    BY <1>1 DEF BackfillInv, TransactionSees, InTransaction, CalmHolds
  <2>2. ASSUME NEW l \in Lives,
               cmd.before[l].source # "instructor_course", cmd.after[l].source # "instructor_course"
        PROVE  cmd.before[l] = cmd.after[l]
    <3> DEFINE course == CourseRows(grades, hist, LiveKey[l])
    <3>1. /\ cmd.before[l] = Score(grades, hist, LiveKey[l], live[l])
          /\ cmd.after[l] = Score(grades, View, LiveKey[l], live[l])
      BY <2>1 DEF Scores
    <3>2. CourseRows(grades, View, LiveKey[l]) = course
      BY <1>1, CourseRowsStay
    <3> HIDE DEF course
    <3>3. cmd.before[l] = IF course = {} THEN [source |-> "global", rows |-> Rows(grades, Graded(grades)), own |-> {}]
                          ELSE [source |-> "course", rows |-> course, own |-> {}]
      BY <2>2, <3>1 DEF Score, course
    <3>4. cmd.after[l] = IF course = {} THEN [source |-> "global", rows |-> Rows(grades, Graded(grades)), own |-> {}]
                         ELSE [source |-> "course", rows |-> course, own |-> {}]
      BY <2>2, <3>1, <3>2 DEF Score
    <3> QED BY <3>3, <3>4
  <2> QED BY <2>2 DEF CourseLevelInvariant, Changes
<1>2. BackfillInv => GateStopsOnlyForeignChange
  BY <1>1 DEF GateStopsOnlyForeignChange, GateFailures
<1> QED BY <1>2, BackfillInvariant, PTL

(* Applying the same page and keys again inserts, moves and appends nothing, whatever
   names and courses the page has, if nobody observed its rows in between. *)
THEOREM SecondAppliesAreIdle == Spec => []SecondApplyIsIdle
<1>1. BackfillInv => SecondApplyIsIdle
  <2> SUFFICES ASSUME BackfillInv, cmd.pc \in {"write", "rebuild", "rebuilt"}, settled = Question
               PROVE  Inserts(hist, cmd.rows) = {} /\ Touched(hist, cmd.rows) = {}
    BY DEF SecondApplyIsIdle
  <2>1. CASE cmd.rows = {}
    BY <2>1 DEF Inserts, Touched, SlotsOf
  <2>2. CASE cmd.rows # {}
    <3>1. cmd.rows = Selected(cmd.page, cmd.keys)
      BY <2>2 DEF BackfillInv, CommandFits
    <3>2. settled = <<cmd.page, cmd.keys>>
      BY DEF Question
    <3>3. settled # <<>> /\ settled[1] = cmd.page /\ settled[2] = cmd.keys
      BY <3>2
    <3>4. Agrees(cmd.rows)
      BY <3>1, <3>3 DEF BackfillInv, SettledHolds
    <3> QED BY <3>4 DEF Agrees, Inserts, Touched, InstructorDiffers
  <2> QED BY <2>1, <2>2
<1> QED BY <1>1, BackfillInvariant, PTL

(* A rollback of every term takes away exactly what an apply inserted, and with it the
   change of the scores: the cascade spares what others have observed, and the rebuild
   sees the tables the apply had found. *)
THEOREM RollbacksUndoApplies == Spec => RollbackUndoesApply
<1>1. ASSUME BackfillInv, Finish, hist' # hist, origin # Idle,
             cmd.args.mode = "rollback", cmd.terms = Terms
      PROVE  hist' = origin.hist /\ stored' = origin.stored
  <2>1. Committed /\ cmd.pc = "rebuilt"
    BY <1>1, FinishWrites
  <2>2. Shapes /\ CommandFits /\ TransactionSees /\ OriginHolds
    BY <1>1 DEF BackfillInv
  <2>3. cmd.rows = {} /\ cmd.gone = Eligible(hist, Terms)
    BY <1>1, <2>1, <2>2 DEF CommandFits, OriginHolds, Writes
  <2>4. /\ hist \in Histories /\ DOMAIN hist \subseteq Slots
        /\ origin.hist \in Histories /\ DOMAIN origin.hist \subseteq DOMAIN hist
    BY <1>1, <2>2, InHistories DEF Shapes, OriginHolds
  <2>5. cmd.gone = DOMAIN hist \ DOMAIN origin.hist
    BY <1>1, <2>2, <2>3, <2>4, BackfillAssumption DEF OriginHolds, Eligible
  <2>6. View = Without(hist, cmd.gone)
    BY <2>3, <2>4, NothingWritten DEF View
  <2>7. /\ View \in Histories /\ DOMAIN View = DOMAIN hist \ cmd.gone
        /\ \A s \in DOMAIN hist \ cmd.gone : View[s] = hist[s]
    <3>1. hist \in Histories
      BY <2>4
    <3> QED BY <3>1, <2>6, WithoutType
  <2>8. DOMAIN View = DOMAIN origin.hist /\ \A s \in DOMAIN View : View[s] = origin.hist[s]
    <3>1. \A s \in DOMAIN origin.hist : hist[s] = origin.hist[s]
      BY <1>1, <2>2 DEF OriginHolds
    <3>2. DOMAIN View = DOMAIN origin.hist
      BY <2>4, <2>5, <2>7
    <3> QED BY <2>7, <3>1, <3>2
  <2>9. View = origin.hist
    BY <2>4, <2>7, <2>8, InHistories
  <2>10. cmd.after = Scores(grades, View)
    BY <1>1, <2>1, <2>2 DEF TransactionSees, InTransaction
  <2> QED BY <1>1, <2>1, <2>2, <2>9, <2>10 DEF Committed, OriginHolds
<1>2. BackfillInv =>
        [/\ Finish /\ hist' # hist /\ origin # Idle
         /\ cmd.args.mode = "rollback" /\ cmd.terms = Terms
         => hist' = origin.hist /\ stored' = origin.stored]_vars
  BY <1>1
<1> QED BY <1>2, BackfillInvariant, PTL DEF RollbackUndoesApply
=============================================================================
