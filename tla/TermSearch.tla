----------------------------- MODULE TermSearch -----------------------------
(***************************************************************************)
(* What the API answers to a search of one term (src/easy_a/api/routes):   *)
(* pages of sections (rankings.py) and the courses and people a text may   *)
(* mean (discovery.py), with the client's reading of the latter as section *)
(* filters (DiscoveryPage.tsx).                                            *)
(*                                                                         *)
(* A table maps each CRN to its section: the removal mark, the score of    *)
(* its ranking row and the names of its latest instructor observation.     *)
(* CRNs are numbered in the order of course and CRN.  Of the courses and   *)
(* people that a text matches the page of a search asks for the first      *)
(* DiscoveryLimit of each; the visitor may leaf on, which is not modelled. *)
(***************************************************************************)
EXTENDS Integers, FiniteSets

CONSTANTS
  Crns,        \* CRNs of the term
  CourseOf,    \* [Crns -> courses]
  CodesOf,     \* [courses -> sets of Gen Ed codes]
  TitleHits,   \* courses whose title the text matches
  Names,       \* instructor names as observed, case and all
  Fold,        \* [Names -> Names]: the lower-case form
  Blank,       \* the empty name
  Unavailable, \* lower-case names that stand for nobody (discovery)
  NameHits,    \* lower-case names that the text matches
  PastPeople,  \* [course, name] of such names in earlier terms
  CourseOrder, \* [courses -> Nat]: by subject and number
  NameOrder,   \* [NameHits -> Nat]: by name
  Quality,     \* [NameHits -> Nat]: 0 for the whole name, 1 for whole words, else 2
  DiscoveryLimit, \* courses and people per page of discovery (20)
  Scores,      \* easiness scores
  PageSize,    \* PAGE, the API's largest limit (200)
  MaxSections  \* MAX_SECTIONS of the client (1000)

Courses == DOMAIN CodesOf
NoName == "nobody"

ASSUME SearchAssumption ==
  /\ Crns \subseteq Nat /\ IsFiniteSet(Crns) /\ CourseOf \in [Crns -> Courses]
  /\ Blank \in Unavailable /\ Fold[Blank] = Blank
  /\ \A n \in Names : Fold[n] \in Names /\ Fold[Fold[n]] = Fold[n]
  /\ NoName \notin NameHits /\ Scores \subseteq Int
  /\ PastPeople \subseteq [course : Courses, name : NameHits]
  /\ CourseOrder \in [Courses -> Nat] /\ NameOrder \in [NameHits -> Nat]
  /\ Quality \in [NameHits -> Nat] /\ DiscoveryLimit \in Nat \ {0}
  /\ PageSize \in Nat \ {0} /\ MaxSections \in Nat
  /\ \E pages \in 1..MaxSections : MaxSections = pages * PageSize

Tables == [Crns -> [removed : BOOLEAN, score : Scores, names : SUBSET Names \ {{}}]]

(***************************************************************************)
(* Who teaches a section                                                   *)
(***************************************************************************)
Folded(names) == {Fold[n] : n \in names}

(* _state_from_latest, cached in the ranking row: blanks are passed over *)
CurrentName(names) ==
  LET clean == Folded(names \ {Blank})
  IN IF Cardinality(clean) = 1 THEN CHOOSE n \in clean : TRUE ELSE NoName

(* assignments(): one name at the latest observation, and a usable one *)
Assigned(names) ==
  LET all == Folded(names)
  IN IF Cardinality(all) = 1 /\ all \cap Unavailable = {}
     THEN CHOOSE n \in all : TRUE ELSE NoName

(***************************************************************************)
(* Pages of sections.  A ranking row is there for each section that is not *)
(* removed.                                                                *)
(***************************************************************************)
Filter(kind, keys, name) == [kind |-> kind, keys |-> keys, name |-> name]
CodeFilter(code) == Filter("code", {code}, NoName)
CourseFilter(course) == Filter("course", {course}, NoName)
PersonFilter(course, name) == Filter("person", {course}, name)
SubjectFilter(courses) == Filter("subject", courses, NoName)

(* the WHERE of search_rankings *)
Listed(filter, table) ==
  {c \in Crns :
     /\ ~table[c].removed
     /\ IF filter.kind = "code" THEN filter.keys \cap CodesOf[CourseOf[c]] # {}
        ELSE CourseOf[c] \in filter.keys
     /\ filter.kind = "person" => CurrentName(table[c].names) = filter.name}

(* _search_order: a subject by course, the others by easiness; ties fall back
   to the course and the CRN *)
Before(filter, table, c, d) ==
  IF filter.kind # "subject" /\ table[c].score # table[d].score
  THEN table[c].score > table[d].score
  ELSE c < d

(* How many rows the order puts before a section *)
Rank(filter, table, c) ==
  Cardinality({d \in Listed(filter, table) : Before(filter, table, d, c)})

(* LIMIT and OFFSET *)
PageOf(filter, offset, table) ==
  {c \in Listed(filter, table) : Rank(filter, table, c) \in offset..(offset + PageSize - 1)}

(***************************************************************************)
(* Discovery of a text that is neither a CRN nor a code                    *)
(***************************************************************************)
CurrentSections(course, table) == {c \in Crns : CourseOf[c] = course /\ ~table[c].removed}

TaughtBy(course, name, table) ==
  {c \in CurrentSections(course, table) : Assigned(table[c].names) = name}

(* Those who teach a course now or have taught it before *)
MatchedPeople(table) ==
  {m \in [course : Courses, name : NameHits] :
     TaughtBy(m.course, m.name, table) # {} \/ m \in PastPeople}

(* The first page of the courses, on offer in the term or not *)
CoursePage ==
  {course \in TitleHits :
     Cardinality({k \in TitleHits : CourseOrder[k] < CourseOrder[course]}) < DiscoveryLimit}

(* ... and of the people: the better match, then who teaches now, then the name *)
PersonBefore(m, k, table) ==
  LET Key(p) == <<Quality[p.name], IF TaughtBy(p.course, p.name, table) # {} THEN 0 ELSE 1,
                  NameOrder[p.name], CourseOrder[p.course]>>
  IN \E i \in 1..4 : Key(m)[i] < Key(k)[i] /\ \A j \in 1..(i - 1) : Key(m)[j] = Key(k)[j]

PeoplePage(table) ==
  LET people == MatchedPeople(table)
  IN {m \in people : Cardinality({k \in people : PersonBefore(k, m, table)}) < DiscoveryLimit}

(* sectionFilters of what discover() answers: courses on offer, and people who
   teach now in the courses those do not cover *)
SectionFilters(table) ==
  LET offered == {course \in CoursePage : CurrentSections(course, table) # {}}
      people == {m \in PeoplePage(table) : TaughtBy(m.course, m.name, table) # {}}
  IN {CourseFilter(course) : course \in offered}
     \cup {PersonFilter(m.course, m.name) : m \in {p \in people : p.course \notin offered}}
=============================================================================
