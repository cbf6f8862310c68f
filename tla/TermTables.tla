----------------------------- MODULE TermTables -----------------------------
(***************************************************************************)
(* What the operators' jobs promise about the section rows of a term,      *)
(* however their transactions interleave: rows are written by anybody, but *)
(* only rows of target courses at another campus ever go, and no row is    *)
(* written in the step in which they do.                                   *)
(***************************************************************************)
CONSTANTS
  Crns,    \* CRNs of the term
  NoRow,   \* no section row
  Doomed(_) \* whether a row is of a target course and another campus

VARIABLE rows

TablesInit == DOMAIN rows = Crns

(* Any rows may be inserted or changed, and none goes *)
Write ==
  /\ DOMAIN rows' = Crns
  /\ \A c \in Crns : rows[c] # NoRow => rows'[c] # NoRow

(* Rows at other campuses go, and every other row stays as it is *)
Clean ==
  \E gone \in SUBSET {c \in Crns : rows[c] # NoRow /\ Doomed(rows[c])} :
    rows' = [c \in Crns |-> IF c \in gone THEN NoRow ELSE rows[c]]

TablesSpec == TablesInit /\ [][Write \/ Clean]_rows
=============================================================================
