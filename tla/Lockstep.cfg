SPECIFICATION FairSpec
CONSTANTS
  NumSeeds = 3
  Insns = 2
  Profile = "rv32im"
  RequireSpike = FALSE
  ChunkSize = 2
  Workers = {w1, w2}
  SpikeStops = {1, 2, 4}
  RtlStops = {0, 3}
  Defects = {2, 3}
  MaxDeaths = 1
INVARIANTS
  PassSound
  CountsSeeds
  NoFalseMismatch
PROPERTIES
  RunOnce
  Returns
CHECK_DEADLOCK FALSE
