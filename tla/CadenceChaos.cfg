SPECIFICATION Spec
CONSTANTS
  Workers = {"w1", "w2"}
  OnceOps = {"o1"}
  DryOps = {"d1"}
  RestoreOps = {}
  Opening = 2
  Closing = 6
  Windows <- OneWindow
  JitterPercent = {100}
  InWindowInterval = 2
  OutsideInterval = 4
  MaxBackoff = 4
  MaxTime = 7
  MaxSweep = 1
  MaxLateness = 1
  MaxFailures = 1
  MaxCrashes = 1
  MaxLostRecords = 1
  MaxStops = 0
INVARIANT SingleFlight
PROPERTY FloorBetweenSweeps
