---------------------------- MODULE MCWholeTerm ----------------------------
(***************************************************************************)
(* Pages of a few blocks: any shapes of blocks, and rows with any of a few  *)
(* cells.                                                                   *)
(***************************************************************************)
EXTENDS WholeTerm

Cells(id, time, seats, scoped) ==
  [id |-> id, time |-> time, seats |-> seats, scoped |-> scoped]
Block(shape, row) == [shape |-> shape, row |-> row]

ShapePages ==
  {[header |-> "expected",
    blocks |-> [i \in DOMAIN s |-> Block(s[i], Cells(i, <<"range">>, "number", TRUE))]] :
     s \in SeqOf(Shapes, 3) \cup SeqOf({"whole", "cut", "short", "blank"}, 4)}

CellChoices ==
  {[time |-> <<"range">>, seats |-> "number", scoped |-> TRUE],
   [time |-> <<"placeholder", "other">>, seats |-> "number", scoped |-> TRUE],
   [time |-> <<"wrong">>, seats |-> "other", scoped |-> FALSE],
   [time |-> <<"placeholder", "placeholder">>, seats |-> "other", scoped |-> TRUE],
   [time |-> <<"wrong", "range">>, seats |-> "empty", scoped |-> FALSE]}
CellBlocks(s) ==
  [i \in DOMAIN s |-> Block("whole", Cells(i, s[i].time, s[i].seats, s[i].scoped))]
CellPages ==
  {[header |-> "expected", blocks |-> CellBlocks(s)] : s \in SeqOf(CellChoices, 3)}
HeaderPages ==
  {[header |-> h, blocks |-> CellBlocks(s)] :
     h \in {"other", "none"}, s \in SeqOf(CellChoices, 1)}

DamagedPages == ShapePages \cup CellPages \cup HeaderPages
=============================================================================
