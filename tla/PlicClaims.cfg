SPECIFICATION FairSpec
CONSTANTS
  NUM_SOURCES = 2
  Prio = {0, 1, 2}
  Window = {"priority", "pending", "enable", "threshold", "claim"}
  Level = {1}
INVARIANTS
  ClaimIsReal
PROPERTIES
  RequestsKept
  HighestServed
  MeipStable
  Served
