SPECIFICATION Spec
CONSTANTS
  PAGE_SIZE = 2
  PAGES_PER_BLOCK = 2
  LastRow = 3
  ClearedBlocks = 1
  MaxReadLen = 4
  Data = {d, e}
  d = d
  e = e
  Erased = Erased
  Junk = Junk
  NoAnswer = NoAnswer
INVARIANTS
  BufferIsThePage
PROPERTIES
  ImplementsFlash
