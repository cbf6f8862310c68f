----------------------------- MODULE FieldSums -----------------------------
(* Sums of one field over a set of rows: byte budgets and grade counts *)
EXTENDS Integers, FiniteSetsExt

FieldSum(rows, S, field) == MapThenSumSet(LAMBDA s : rows[s][field], S)
=============================================================================
