SPECIFICATION FairSpec
CONSTANTS
  PC = {0, 1, 2}
  Seq4 <- MCSeq4
  ResetVector = 2
  Base = 0
  IrqVec = 1
  Addr = {1}
  Instrs <- StepMemMenu
  Refusable = {}
  Interrupts = FALSE
  Debugger = {"halt", "resume", "step"}
PROPERTIES
  StepHalts
