-------------------------- MODULE MCSectionRanking --------------------------
(***************************************************************************)
(* Two CRNs of two courses, and two syllabi of which one may be of an      *)
(* earlier term.                                                           *)
(***************************************************************************)
EXTENDS SectionRanking

Row(course, note, delivery, name, seats) ==
  [course |-> course, note |-> note, delivery |-> delivery, details |-> 1,
   name |-> name, seats |-> seats]

MCNoSeats == -1
MCRows == {Row("A", {}, "CL", "J Smith", 0), Row("A", {}, "CL", "J Smith", 5),
           Row("A", {2}, "CL", "", 5), Row("B", {}, "", "John Smith", MCNoSeats)}
Bare == [title |-> 1, geneds |-> {}]
Credited == [title |-> 1, geneds |-> {"g1"}]
MCEntries == {Bare, Credited}
MCStarts ==
  {[usf |-> <<Row("A", {}, "CL", "J Smith", 0), Row("B", {}, "", "John Smith", MCNoSeats)>>,
    catalog |-> [A |-> Bare, B |-> Credited]]}
MCWords == [n \in {"", "J Smith", "John Smith", "Jane Smith"} |->
              CASE n = "" -> <<>>
                [] n = "J Smith" -> <<"j", "smith">>
                [] n = "John Smith" -> <<"john", "smith">>
                [] n = "Jane Smith" -> <<"jane", "smith">>]
MCInitialOf == [w \in {"j", "john", "jane"} |-> "j"]
Import(term, course, crn, name, says) ==
  [term |-> term, course |-> course, crn |-> crn, name |-> name, says |-> says]
MCImports == {Import(8, "A", 1, "John Smith", {1, 6, 7}), Import(8, "A", 9, "Jane Smith", {3}),
              Import(9, "A", 1, "", {5})}
=============================================================================
