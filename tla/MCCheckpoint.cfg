SPECIFICATION Spec
CONSTANTS
  MaxClock = 2
  NoImage = NoImage
INVARIANTS
  Inv
  RegistersFromRestartSlot
  CriticalSectionsBalanced
  ResumedMemoryIsTheCheckpoint
PROPERTIES
  RestartImageFrozen
  DurableNeverRegresses
  AtomicDurableSave
