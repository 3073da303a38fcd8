SPECIFICATION Spec
CONSTANTS
  W = 8
  TableTop = 128
  BootFrame = 2
  Image <- MCImage
  Holes = {20}
  RamSizes = {22, 26, 30, 34, 40, 46, 64}
  MaxThreads = 5
  Services <- MCServices
  Core = {"shell"}
  TextFrame = 11
  TextPages = 2
  DataFrame = 13
  DataPages = 1
  StackPages = 2
  ExpandPages = 2
  HeapMax = 4
  OffPages = 2
  AcpiFrames = {200}
  Programs <- MCPrograms
  Device = 300
  Hints = {0}
  MaxMmio = 1
  MaxDead = 1
INVARIANTS
  OneOwner
  NothingLost
  CountedFrames
  KernelHalfShared
  ProcessComplete
PROPERTIES
  SpacesStable
  TempWindowStays
CHECK_DEADLOCK FALSE
