--------------------------- MODULE MCSectionSync ---------------------------
(* Instances of SectionSync: rows of one course that differ in one column
   each, a course the catalog does not know yet, and a graduate course. *)
EXTENDS SectionSync, MCWholeTerm, TLC

Row(course, details, name, seats) ==
  [course |-> course, details |-> details, name |-> name, seats |-> seats]

TwoCourses == {"known", "new"}
ThreeCourses == {"known", "new", "graduate"}
Subjects == [c \in ThreeCourses |-> c]
OneSubject == [c \in ThreeCourses |-> "subject"]

PlainRow == Row("known", 1, 1, 1)
SeatRow == Row("known", 1, 1, 2)
EditedRow == Row("known", 2, 2, 1)
NewRow == Row("new", 2, 1, 1)
GraduateRow == Row("graduate", 1, 1, 1)

(* One row in each role: edited in the seats, edited elsewhere, of a course to
   add (also a CRN that moves to another course), and out of scope *)
MixedRows == {PlainRow, SeatRow, EditedRow, NewRow, GraduateRow}
OneRow == {PlainRow}
TwoRows == {PlainRow, Row("known", 2, 2, 2)}

Symmetric == Permutations(Crns)
=============================================================================
