SPECIFICATION Spec
CONSTANTS
  Ada = Ada
  Staff = Staff
  Slots <- MCSlots
  TermOf <- MCTermOf
  CourseIds <- MCCourseIds
  KeyOf <- MCKeyOf
  SubjectOf <- MCSubjectOf
  Names = {Ada, Staff}
  UsableNames = {Ada}
  GradePriorStrength = 2
  InstructorPriorStrength = 1
  WithdrawalPriorStrength = 2
  DefaultFavorability = 700
  DefaultWithdrawal = 100
  InstructorMinN = 2
  CollapseBelow = 1
  LowBelow = 2
  HighFrom = 4
  Before = 3
  Counts <- MCCounts
  LastId = 4
  Kinds = {TRUE, FALSE}
INVARIANTS
  KeptRowsAreCurrent
  TermEqualsPerCourse
  PinnedRowAgrees
CHECK_DEADLOCK FALSE
