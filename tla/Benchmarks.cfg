SPECIFICATION FairSpec
CONSTANTS
  IsaLists <- MCIsaLists
  CostChoices <- MCCosts
  TicksPerSec <- MCTicks
  CoreMin <- MCCoreMin
  DhryMin <- MCDhryMin
  PilotIter <- MCPilotIter
  Overhead = 1
  Timeout = 400
  MaxRuns = 2
INVARIANTS
  SummaryComplete
  RowsMeasured
  CalibrationSuffices
PROPERTIES
  Ends
CHECK_DEADLOCK FALSE
