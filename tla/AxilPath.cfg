SPECIFICATION FairSpec
CONSTANTS
  Addr = {ram, rom, hole}
  RomAddr = {rom}
  BadAddr = {hole}
  ResetAddr = rom
  Val = {zero, poison}
  Zero = zero
  Poison = poison
INVARIANTS
  IInv
PROPERTIES
  ImplementsPortMemory
  ValidStable
  Answered
