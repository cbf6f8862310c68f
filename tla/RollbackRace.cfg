SPECIFICATION Spec
CONSTANTS
  Ada = Ada
  Blank = Blank
  Terms = {"t"}
  Slots = {1, 2}
  TermOf <- MCTermOf
  Keys = {"k", "m"}
  Cataloged = {"k", "m"}
  Names = {Ada, Blank}
  Usable = {Ada}
  Lives = {1}
  LiveKey <- MCLiveKey
  Campuses = {"tampa"}
  Pages <- MCPages
  MaxUnmatchedPct = 50
  Expects = {1}
  MaxForeign = 1
PROPERTY
  RollbackSparesObserved
CHECK_DEADLOCK FALSE
