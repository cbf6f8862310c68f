----------------------------- MODULE WholeTerm -----------------------------
(***************************************************************************)
(* The fail-closed parse of a whole-term page (src/easy_a/sync/fetch.py)   *)
(* with the row parser and the normalization it calls and the diagnostics  *)
(* of a refusal.  A page is its header and its <tr> blocks; of a block's   *)
(* text only what decides the rows it parses to is kept:                   *)
(*   whole    24 cells                                                     *)
(*   cut      24 cells, one closing anchor of which is unterminated        *)
(*   short    cells, but not 24 of them                                    *)
(*   double   two rows of 24 cells: the first one is never closed          *)
(*   blank    no cell at all, like a repeated header                       *)
(*   open     24 cells, the last of which hides the rest of the chunk      *)
(*   subject  24 cells, no subject and number in the fifth                 *)
(*   nameless 24 cells, no CRN in the fourth                               *)
(***************************************************************************)
EXTENDS Integers, Sequences, FiniteSets, SequencesExt

CONSTANTS
  MaxReported,  \* MAX_REPORTED_ROWS
  MaxShape,     \* _SHAPE_TOKEN_LIMIT
  ChunkSizes,   \* the values of chunk_rows
  TermPages     \* the pages USF may answer with: [header, blocks]

Shapes == {"whole", "cut", "short", "double", "blank", "open", "subject", "nameless"}

ListedRows(page) == {page.blocks[i].row : i \in DOMAIN page.blocks}

ASSUME WholeTermAssumption ==
  /\ MaxReported \in Nat \ {0} /\ MaxShape \in Nat \ {0}
  /\ ChunkSizes \subseteq Nat \ {0}
  /\ \A page \in TermPages : page.blocks \in Seq([shape : Shapes, row : ListedRows(page)])

(* The positions S from the first to the last, and the elements of seq there *)
InOrder(S) ==
  [n \in 1..Cardinality(S) |-> CHOOSE p \in S : Cardinality({q \in S : q <= p}) = n]
At(seq, S) == [n \in 1..Cardinality(S) |-> seq[InOrder(S)[n]]]

---------------------------------------------------------------------------
(* One block *)

(* repair_unterminated_anchors *)
Repaired(block) ==
  IF block.shape = "cut" THEN [block EXCEPT !.shape = "whole"] ELSE block

IsData(block) == block.shape # "blank"

(* The rows the parser finds in a block, unless the block makes it raise *)
RowsOf(block) ==
  CASE block.shape \in {"whole", "open"} -> <<block.row>>
    [] block.shape = "double" -> <<block.row, block.row>>
    [] OTHER -> <<>>

(* _parse_row raising: a ScheduleParseError, or pydantic's ValidationError *)
RowError(block) ==
  CASE block.shape = "subject" -> "ScheduleParseError"
    [] block.shape = "nameless" -> "ValidationError"
    [] OTHER -> "none"

(* parse_schedule_html of a header and some blocks *)
ParseChunk(header, blocks) ==
  LET opened  == SelectInSeq(blocks, LAMBDA b : b.shape = "open")
      visible == IF opened = 0 THEN blocks ELSE SubSeq(blocks, 1, opened)
      raising == SelectInSeq(visible, LAMBDA b : RowError(b) # "none")
  IN  IF header # "expected" THEN [error |-> "ScheduleParseError", rows |-> <<>>]
      ELSE IF raising # 0 THEN [error |-> RowError(visible[raising]), rows |-> <<>>]
      ELSE [error |-> "none",
            rows |-> FlattenSeq([i \in DOMAIN visible |-> RowsOf(visible[i])])]

---------------------------------------------------------------------------
(* Chunks, and the counts kept of each *)

ChunkCount(blocks, size) == (Len(blocks) + size - 1) \div size
FirstBlock(k, size) == (k - 1) * size

ChunkBlocks(blocks, size, k) ==
  SubSeq(blocks, FirstBlock(k, size) + 1, Min({FirstBlock(k, size) + size, Len(blocks)}))

DataBlocks(blocks) == {i \in DOMAIN blocks : IsData(blocks[i])}
DataRows(blocks) == Cardinality(DataBlocks(blocks))

(* Fault: the chunk's first block where its first data row is meant *)
FirstPositionOfBlock(blocks, size, k) == FirstBlock(k, size)

(* data rows before chunk k: ChunkStat.first_position *)
FirstPosition(blocks, size, k) ==
  DataRows(SubSeq(blocks, 1, FirstBlock(k, size)))

(* ChunkStat, the number of data rows and of the rows parsed from them *)
ChunkStat(header, blocks, size, k) ==
  LET chunk == ChunkBlocks(blocks, size, k)
  IN  [first |-> FirstPosition(blocks, size, k),
       data |-> DataRows(chunk),
       parsed |-> Len(ParseChunk(header, chunk).rows)]

---------------------------------------------------------------------------
(* Diagnostics of lost rows, with data rows numbered from 1 *)

FirstOf(seq, n) == SubSeq(seq, 1, Min({n, Len(seq)}))

(* build_lost_rows_diagnostics: the data rows of mismatched chunks that do not
   parse to one row alone, until one of them makes the inspection itself fail *)
Diagnostics(blocks, stats) ==
  LET data       == At(blocks, DataBlocks(blocks))
      mismatched == {k \in DOMAIN stats : stats[k].data # stats[k].parsed}
      inspected  == {p \in DOMAIN data :
                       \E k \in mismatched :
                         stats[k].first < p /\ p <= stats[k].first + stats[k].data}
      failing    == {p \in inspected : RowError(data[p]) = "ValidationError"}
      read       == {p \in inspected : \A f \in failing : p < f}
      suspects   == {p \in read : Len(RowsOf(data[p])) # 1}
  IN  [windows  |-> FirstOf(At(stats, mismatched), MaxReported),
       suspects |-> FirstOf(InOrder(suspects), MaxReported),
       total    |-> Cardinality(suspects),
       failed   |-> failing # {}]

---------------------------------------------------------------------------
(* Cells, and the normalization of a row *)

(* _parse_time_range over the tokens of a cell: a clock range ("wrong" when it is
   no time of day), a placeholder or another word *)
TimeRange(cell) ==
  LET ranges == SelectSeq(cell, LAMBDA t : t \in {"range", "wrong"})
  IN  CASE Len(ranges) > 1 -> "unset"
        [] Len(ranges) = 1 -> IF ranges[1] = "range" THEN "set" ELSE "invalid"
        [] OTHER -> IF \A i \in DOMAIN cell : cell[i] = "placeholder"
                    THEN "unset" ELSE "invalid"

(* _parse_optional_int *)
OptionalInt(cell) ==
  CASE cell \in {"empty", "placeholder"} -> "unset"
    [] cell = "number" -> "set"
    [] OTHER -> "invalid"

Symbol(token) ==
  CASE token \in {"range", "wrong"} -> "R"
    [] token = "placeholder" -> "P"
    [] OTHER -> "?"

(* time_cell_shape *)
TimeShape(cell) ==
  [symbols |-> FirstOf([i \in DOMAIN cell |-> Symbol(cell[i])], MaxShape),
   more |-> Len(cell) > MaxShape]

(* normalize_schedule_row *)
Normalizes(row) == TimeRange(row.time) # "invalid" /\ OptionalInt(row.seats) # "invalid"
Normalized(row) ==
  [id |-> row.id, time |-> TimeRange(row.time), seats |-> OptionalInt(row.seats)]

(* row_failure_from: the time is read before the counts *)
RowFailure(position, row) ==
  [position |-> position, id |-> row.id,
   cause |-> IF TimeRange(row.time) = "invalid" THEN TimeShape(row.time)
                                               ELSE "non_integer"]

---------------------------------------------------------------------------
(* parse_whole_term.  A mode says whether row_gate and quarantine_row_failures
   are given; the live sweep gives neither. *)

LiveMode == [gate |-> FALSE, quarantine |-> FALSE]

Refused(error) == [result |-> error]

NormalizeRows(parsed, mode) ==
  LET passed  == {i \in DOMAIN parsed : mode.gate => parsed[i].scoped}
      good    == {i \in passed : Normalizes(parsed[i])}
      bad     == passed \ good
      skipped == DOMAIN parsed \ passed
  IN  IF bad # {} /\ ~mode.quarantine
      THEN Refused("ScheduleParseError")
      ELSE [result   |-> "parsed",
            rows     |-> [n \in 1..Cardinality(good) |-> Normalized(At(parsed, good)[n])],
            skipped  |-> [n \in 1..Cardinality(skipped) |-> At(parsed, skipped)[n].id],
            failures |-> [n \in 1..Cardinality(bad) |->
                            RowFailure(InOrder(bad)[n], At(parsed, bad)[n])]]

ParseWholeTerm(page, size, mode) ==
  LET blocks  == [i \in DOMAIN page.blocks |-> Repaired(page.blocks[i])]
      chunks  == [k \in 1..ChunkCount(blocks, size) |->
                    ParseChunk(page.header, ChunkBlocks(blocks, size, k))]
      raising == SelectInSeq(chunks, LAMBDA c : c.error # "none")
      parsed  == FlattenSeq([k \in DOMAIN chunks |-> chunks[k].rows])
      stats   == [k \in DOMAIN chunks |-> ChunkStat(page.header, blocks, size, k)]
  IN  IF page.header = "none" THEN Refused("ScheduleParseError")
      ELSE IF raising # 0 THEN Refused(chunks[raising].error)
      ELSE IF Len(parsed) # DataRows(blocks)
        THEN [result |-> "LostRowsError", diagnostics |-> Diagnostics(blocks, stats)]
      ELSE NormalizeRows(parsed, mode)

(* search_term: a response that fails, is no HTML or is too large is no page *)
Answers(response) == response.succeeded /\ response.html /\ ~response.oversized

(* fetch_whole_term and _parse_page: only errors of the parser keep the page for
   the operator.  parse_saved_term is the same parse of a page kept earlier. *)
FetchWholeTerm(response, size, mode) ==
  IF ~Answers(response)
  THEN [parse |-> Refused("ClientError"), kept |-> FALSE]
  ELSE LET parse == ParseWholeTerm(response.page, size, mode)
       IN  [parse |-> parse,
            kept |-> parse.result \in {"ScheduleParseError", "LostRowsError"}]

---------------------------------------------------------------------------
(* Properties *)

Modes == [gate : BOOLEAN, quarantine : BOOLEAN]

Answer(page) == [page |-> page, succeeded |-> TRUE, html |-> TRUE, oversized |-> FALSE]

Damage(page) == {page.blocks[i].shape : i \in DOMAIN page.blocks}

(* The data rows of a page, each with what it is worth by itself *)
Listed(page) == At(page.blocks, {i \in DOMAIN page.blocks : page.blocks[i].shape # "blank"})

(* What an accepted page returns: every listed row, read by itself, in the one list
   it belongs to and behind those of that list that are listed before it; the live
   sweep puts each in the first. *)
AcceptedIsWhole(page, mode, out) ==
  LET listed   == Listed(page)
      Fate(p)  == IF mode.gate /\ ~listed[p].row.scoped THEN "skipped"
                  ELSE IF Normalizes(listed[p].row) THEN "rows" ELSE "failures"
      Place(p) == Cardinality({q \in 1..p : Fate(q) = Fate(p)})
  IN  /\ Len(out.rows) + Len(out.failures) + Len(out.skipped) = Len(listed)
      /\ mode = LiveMode => Len(out.rows) = Len(listed)
      /\ \A p \in DOMAIN listed :
           /\ Fate(p) = "rows" => out.rows[Place(p)] = Normalized(listed[p].row)
           /\ Fate(p) = "failures" => out.failures[Place(p)] = RowFailure(p, listed[p].row)
           /\ Fate(p) = "skipped" => out.skipped[Place(p)] = listed[p].row.id

(* What a refusal tells the operator: the data rows that are not one row, the
   first few of them by position, all of them counted. *)
RefusalNamesRows(page, out) ==
  LET listed  == Listed(page)
      damaged == {p \in DOMAIN listed : listed[p].shape \in {"short", "subject"}}
      told    == out.diagnostics
  IN  "nameless" \notin Damage(page) =>
        /\ ~told.failed
        /\ told.total = Cardinality(damaged)
        /\ told.suspects = FirstOf(InOrder(damaged), MaxReported)
        /\ damaged = {} => "open" \in Damage(page)

(* Besides, no chunk size changes the verdict while no block hides another, what
   the live sweep accepts the backfill accepts too, and only a refused page is
   kept for the operator. *)
PageIsSound(page) ==
  LET Merged == "double" \in Damage(page)
      Hidden == "open" \in Damage(page)
      fetches == {[size |-> size, mode |-> mode,
                   fetched |-> FetchWholeTerm(Answer(page), size, mode)] :
                    size \in ChunkSizes, mode \in Modes}
  IN  \A f \in fetches :
        LET out == f.fetched.parse
        IN  /\ out.result = "parsed" /\ ~Merged => AcceptedIsWhole(page, f.mode, out)
            /\ out.result = "LostRowsError" /\ ~Merged => RefusalNamesRows(page, out)
            /\ f.fetched.kept => out.result # "parsed"
            /\ \A g \in fetches :
                 LET other == g.fetched.parse
                 IN  /\ ~Hidden /\ g.mode = f.mode =>
                          /\ out.result = other.result
                          /\ out.result # "LostRowsError" => out = other
                     /\ g.mode = LiveMode /\ g.size = f.size /\ other.result = "parsed" =>
                          out.result = "parsed"

(* The row guard of parse_whole_term, over every page *)
GuardIsSound == \A page \in TermPages : PageIsSound(page)
=============================================================================
