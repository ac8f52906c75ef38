SPECIFICATION PmpSpec
CONSTANTS
  W = 6
  Entries = 2
  CfgBytes <- MCCfgBytes
  AddrWords <- MCAddrWords
INVARIANTS
  AsPlanned
CHECK_DEADLOCK FALSE
