SPECIFICATION FairSpec
CONSTANTS
  FreshFor = 1
  MaxStarts = 3
  MaxTime = 4
INVARIANTS
  MonitorInv
  ReportsAreTrue
PROPERTIES
  MonitorResponds
