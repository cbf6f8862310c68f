SPECIFICATION Spec
CONSTANTS
  Crns = {c1, c2, c3}
  Rows <- TwoRows
  Courses <- TwoCourses
  Undergraduate = {"known", "new"}
  Cataloged = {"known"}
  SubjectOf <- OneSubject
  Workers = {}
  OnceOps = {"o1"}
  OperatorGates = {100}
  MaxMissing = 34
  MinRows = 66
  MaxAbsent = 2
  MinAbsent = 2
  MaxChanges = 2
  MaxSweeps = 2
  MaxRestores = 0
  MaxIngests = 1
  MaxReported = 2
  MaxShape = 1
  ChunkSizes = {1, 2, 3}
  TermPages <- DamagedPages
SYMMETRY Symmetric
PROPERTY RemovalsBounded
PROPERTY CommittedPageIsAccepted
PROPERTY FreshSweepRepairs
INVARIANT RecipeWorks
