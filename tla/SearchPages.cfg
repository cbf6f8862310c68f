SPECIFICATION Spec
CONSTANTS
  Crns <- MCCrns
  CourseOf <- MCCourseOf
  CodesOf <- MCCodesOf
  TitleHits = {"bio", "cal"}
  Names <- MCNames
  Fold <- MCFold
  Blank = ""
  Unavailable = {"", "staff"}
  NameHits = {"lee", "roy"}
  PastPeople <- MCPastPeople
  CourseOrder <- MCCourseOrder
  NameOrder <- MCNameOrder
  Quality <- MCQuality
  DiscoveryLimit = 1
  Scores = {1, 2}
  PageSize = 2
  MaxSections = 4
  Routes <- MCRoutes
  FirstTables <- MCFirstTables
  Edits <- MCEdits
  MaxLoads = 2
  MaxCommits = 1
INVARIANTS
  QuietLoadIsExact
  ShownWasListed
PROPERTY
  LoadEnds
CHECK_DEADLOCK FALSE
