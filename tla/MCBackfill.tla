----------------------------- MODULE MCBackfill -----------------------------
(***************************************************************************)
(* A small instance of Backfill: one earlier term with two CRNs, two       *)
(* cataloged courses, one live section.                                    *)
(***************************************************************************)
EXTENDS Backfill

CONSTANTS Ada

Line(s, k, n, c, ok) == [slot |-> s, key |-> k, name |-> n, campus |-> c, reads |-> ok]

MCTermOf == [s \in Slots |-> "t"]
MCLiveKey == <<"k">>
MCPages ==
  {{Line(1, "k", Ada, "tampa", TRUE)},
   {Line(1, "k", Blank, "tampa", TRUE), Line(2, "m", Ada, "tampa", TRUE)},
   {Line(1, "k", Ada, "tampa", TRUE), Line(1, "k", Blank, "tampa", TRUE)},
   {Line(1, "k", Ada, "tampa", TRUE), Line(2, "k", Ada, "tampa", FALSE)},
   {Line(1, "k", Ada, "sarasota", FALSE), Line(2, "k", Ada, "tampa", TRUE)},
   {}}
=============================================================================
