SPECIFICATION FairSpec
CONSTANTS
  PC = {0, 1}
  Seq4 <- TwoPCs
  ResetVector = 1
  Base = 0
  IrqVec = 1
  Addr = {1}
  Instrs <- PathMenu
  Refusable <- Refusals
  Interrupts = TRUE
  Debugger = {"halt", "resume"}
INVARIANTS
  InOrder
  TrapPrecise
  DBusOwned
PROPERTIES
  PrivChangesBehindFlush
  AccessedOnce
  ReservedByLr
  AccessCompletes
