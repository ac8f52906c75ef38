SPECIFICATION Spec
CONSTANTS
  PC = {0, 1, 2}
  Seq4 <- MCSeq4
  ResetVector = 2
  Base = 0
  IrqVec = 1
  Addr = {1}
  Instrs <- TrapMenu
  Refusable = {}
  Interrupts = TRUE
  Debugger = {"halt", "resume"}
INVARIANTS
  ExceptionsToBase
