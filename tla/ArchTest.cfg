SPECIFICATION FairSpec
CONSTANTS
  RamBase = 8
  Limit = 16
  RomBytes = 8
  RamBytes = 4
  Suite <- MCSuite
  Files <- MCFiles
  Configured = "riscv32-elf-"
INVARIANTS
  ImageFaithful
  PassedMeansRan
  ReportComplete
  FilterAccounts
  SmokePicks
  CompilerFound
PROPERTIES
  RunEnds
