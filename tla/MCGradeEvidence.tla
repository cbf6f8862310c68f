-------------------------- MODULE MCGradeEvidence --------------------------
(***************************************************************************)
(* A small instance of GradeEvidence: two slots of earlier terms, two      *)
(* courses, an instructor and Staff, one kind of grade counts.             *)
(***************************************************************************)
EXTENDS GradeEvidence

CONSTANTS Ada, Staff

MCSlots == {1, 2}
MCTermOf == <<1, 2>>
MCCourseIds == {1, 2}
MCKeyOf == <<"k", "m">>
MCSubjectOf == [k |-> "s", m |-> "s"]
MCCounts == {[a |-> 2, f |-> 1, w |-> 0, o |-> 0]}
=============================================================================
