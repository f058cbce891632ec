SPECIFICATION Spec
CONSTANTS
  PAGE_SIZE = 8
  PAGES_PER_BLOCK = 4
  BLOCKS_PER_PLANE = 8
  FLASH_DATA_START_PAGE = 30
  ClearedBlocks = 3
  SizeOf <- MCSizeOf
  CountOf <- MCCountOf
  PageStart <- MCPageStart
  MaxFailures = 2
INVARIANTS
  FindsWhatWasWritten
  GeneratorChecksPass
PROPERTIES
  ProgramsErasedPages
CHECK_DEADLOCK FALSE
