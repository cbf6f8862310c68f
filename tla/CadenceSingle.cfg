SPECIFICATION Spec
CONSTANTS
  Workers = {"w1"}
  OnceOps = {}
  DryOps = {}
  RestoreOps = {"r1"}
  Opening = 24
  Closing = 46
  Windows <- OneWindow
  JitterPercent <- Jitters
  InWindowInterval = 10
  OutsideInterval = 20
  MaxBackoff = 20
  MaxTime = 72
  MaxSweep = 1
  MaxLateness = 0
  MaxFailures = 1
  MaxCrashes = 0
  MaxLostRecords = 0
  MaxStops = 1
INVARIANT CadenceTypeOK
INVARIANT OpeningIsSwept
INVARIANT FreshWhileHealthy
INVARIANT TargetKeepsFloor
PROPERTY StopEndsWorker
