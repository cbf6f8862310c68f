--------------------------- MODULE MCSearchPages ---------------------------
(***************************************************************************)
(* A term of three courses, of which one has no sections, a name in two    *)
(* spellings, a text that matches two titles and two names, one of each on *)
(* a page of discovery, and pages of two sections.                         *)
(***************************************************************************)
EXTENDS SearchPages

MCCrns == 1..4
MCCourseOf == <<"alg", "alg", "bio", "bio">>
MCCodesOf == [alg |-> {"m"}, bio |-> {"m", "n"}, cal |-> {}]
MCCourseOrder == [alg |-> 1, bio |-> 2, cal |-> 3]
MCNames == {"lee", "LEE", "roy", "staff", ""}
MCFold == [n \in MCNames |-> IF n = "LEE" THEN "lee" ELSE n]
MCNameOrder == [lee |-> 1, roy |-> 2]
MCQuality == [lee |-> 2, roy |-> 1]
MCPastPeople == {[course |-> "bio", name |-> "lee"]}

Section(score, names) == [removed |-> FALSE, score |-> score, names |-> names]

(* Sections taught by one name, by two spellings of it, by nobody known, and by
   two people *)
MCFirstTables ==
  {<<Section(1, {"lee", ""}), Section(2, {"LEE", "lee"}), Section(2, {"staff"}),
     Section(1, {"roy", "lee"})>>}

(* A sweep removes a section, which moves those after it to an earlier page, and
   turns the order of the others round and names a teacher whom the text matches better *)
MCEdits(table) ==
  {[table EXCEPT ![1].removed = TRUE, ![3].score = 3 - @, ![3].names = {"roy"}]}

(* A Gen Ed area, and three letters that are no subject *)
MCRoutes ==
  {AreaRoute({"m", "n"}), SubjectRoute({})}
=============================================================================
