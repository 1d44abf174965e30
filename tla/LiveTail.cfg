\* More rows than one answer holds, more than the table keeps.
SPECIFICATION FairSpec
CONSTANTS
  MaxTime = 2  Skew = 1  MaxEvents = 3  MaxRows = 5
  Limit = 2  ScanCap = 2
INVARIANTS NoResend
PROPERTIES CatchesUp
