SPECIFICATION DmFairSpec
CONSTANTS
  PC = {0, 1}
  Seq4 <- TwoPCs
  ResetVector = 1
  Base = 0
  IrqVec = 1
  Addr = {1}
  Instrs <- DebugMenu
  Refusable = {}
  Interrupts = TRUE
  GprNumbers = {2}
  ControlWrites <- MCControlWrites
  Debugger = {"halt", "resume", "step"}
INVARIANTS
  StepsOne
PROPERTIES
  StepEnds
