--------------------------- MODULE MCCourseAdder ---------------------------
(* CourseAdder with more new courses than a sweep may ask for, and a retry
   time that lets every course be asked before the first one's is over: with
   more courses than that, the last in the order would never be. *)
EXTENDS CourseAdder

ASSUME EnoughSweeps ==
  Cardinality(Courses) <= MaxPerSweep * (RetryAfter \div (Gap + Pace * MaxPerSweep))
=============================================================================
