SPECIFICATION Spec
CONSTANTS
  Crns = {1, 2}
  Rows <- MCRows
  Starts <- MCStarts
  Courses = {"A", "B"}
  Entries <- MCEntries
  Names = {"", "J Smith", "John Smith", "Jane Smith"}
  Blank = ""
  Words <- MCWords
  InitialOf <- MCInitialOf
  Documents = {1, 2}
  Imports <- MCImports
  LiveTerm = 9
  NoSeats <- MCNoSeats
  Fresh = 1
  Stale = 2
  MaxClock = 2
  MaxChanges = 2
INVARIANTS
  HydratedIsRanked
  FreshSeatsWereListed
  SignalsUseBestEvidence
