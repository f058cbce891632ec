SPECIFICATION Spec
CONSTANTS
  CommandLen = 2
  MaxLen = 4
  SPI_DMA_TIMEOUT_COUNT = 5
INVARIANTS
  DoneMeansReceived
  BusIsQuiet
  NeverTimesOut
PROPERTIES
  ReadsEnd
