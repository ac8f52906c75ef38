SPECIFICATION FairSpec
CONSTANTS
  rom = rom
  ram = ram
  gpio = gpio
  uart = uart
  hole = hole
  Addr = {rom, ram, gpio, uart, hole}
  RomAddr = {rom}
  BadAddr = {hole}
  ResetAddr = rom
  Val = {zero, poison}
  Zero = zero
  Poison = poison
  Decode <- MCDecode
  Fetches <- MCFetches
  Loads <- MCLoads
  Stores <- MCStores
PROPERTIES
  ImplementsDataMemory
  ImplementsInstrMemory
  Answered
