--------------------------- MODULE MCOperatorJobs ---------------------------
(***************************************************************************)
(* Two target courses of two subjects.  The first has a section at another *)
(* campus, which a sweep may find moved to Tampa; the second is unknown to *)
(* the catalog at the start.                                               *)
(***************************************************************************)
EXTENDS OperatorJobs

Row(course, campus, details) == [course |-> course, campus |-> campus, details |-> details]

MCRows == {Row(course, campus, details) :
             course \in {"a", "b"}, campus \in {"tampa", "other", ""}, details \in 1..3}
MCSubjects == [a |-> 1, b |-> 2]
MCStored == <<Row("a", "other", 1), Row("a", "tampa", 1), NoRow>>
MCListings == {<<NoRow, Row("a", "tampa", 2), Row("b", "tampa", 1)>>,
               <<NoRow, NoRow, Row("b", "other", 1)>>}
MCPage == [c \in {3} |-> Row("b", "other", 2)]
MCSweeps == <<{Row("a", "tampa", 1)}, {Row("a", "tampa", 3)}, {}>>
MCDocuments == <<2>>
=============================================================================
