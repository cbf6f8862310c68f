SPECIFICATION AdderSpec
CONSTANTS
  Courses = {1, 2, 3}
  MaxPerSweep = 2
  Pace = 1
  RetryAfter = 8
  Gap = 2
  MaxAborts = 1
  MaxRestarts = 1
  MaxListings = 1
INVARIANT AdderTypeOK
PROPERTY RefusedIsLeftAlone
PROPERTY EveryCourseGetsItsTurn
