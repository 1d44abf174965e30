\* A row committed between two statements of the first poll.
SPECIFICATION Spec
CONSTANTS
  MaxTime = 1  Skew = 0  MaxEvents = 3  MaxRows = 3
  Limit = 2  ScanCap = 2
INVARIANTS NoSkip
