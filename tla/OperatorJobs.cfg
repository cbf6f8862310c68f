SPECIFICATION Spec
CONSTANTS
  Crns = {1, 2, 3}
  Rows <- MCRows
  Courses = {"a", "b"}
  Targets = {"a", "b"}
  SubjectOf <- MCSubjects
  Catalogued = {"a"}
  CatalogFile = {"a", "b"}
  CatalogPages = {"a", "b"}
  StoredRows <- MCStored
  SchedulePage <- MCPage
  Listings <- MCListings
  GradeFile = {1}
  Documents <- MCDocuments
  SweepRows <- MCSweeps
  Tampa = "tampa"
  Unknown = ""
  MaxRefreshes = 1
  MaxBulks = 2
  MaxCleanups = 1
  MaxSweeps = 1
  MaxKills = 1
INVARIANTS
  JobsTypeOK
  RankingsTrailOnlyWrites
  RecordedIsCommitted
PROPERTY
  KeepsTables
CHECK_DEADLOCK FALSE
