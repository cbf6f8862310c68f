SPECIFICATION Spec
CONSTANTS
  Crns = {c1, c2}
  Rows <- MixedRows
  Courses <- ThreeCourses
  Undergraduate = {"known", "new"}
  Cataloged = {"known"}
  SubjectOf <- Subjects
  Workers = {"w1"}
  OnceOps = {}
  OperatorGates = {}
  MaxMissing = 50
  MinRows = 50
  MaxAbsent = 2
  MinAbsent = 2
  MaxChanges = 3
  MaxSweeps = 3
  MaxRestores = 1
  MaxIngests = 0
  MaxReported = 2
  MaxShape = 1
  ChunkSizes = {1, 2, 3}
  TermPages <- DamagedPages
SYMMETRY Symmetric
INVARIANT KeptStateIsCurrent
INVARIANT RankingsMatchSections
INVARIANT WholeOrRefused
PROPERTY MirrorsPage
PROPERTY AppendsAreChanges
