SPECIFICATION FlashSpec
CONSTANTS
  NSec = 2
  NPage = 2
  Bits = {b1}
  Blocks = {1, 2}
INVARIANTS ProgramTakes
PROPERTIES ImplementsStore
