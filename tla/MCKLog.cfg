SPECIFICATION Spec
CONSTANTS
  IntBits = 5
  LongBits = 8
  Capacity = 3
  MaxPerFlush = 2
  Interval = 30
  Frequency = 100
  Events <- MCEvents
  Formats <- MCFormats
  MaxTicks = 5
  MaxRecords = 5
INVARIANTS
  FormatTrue
  ReportTrue
  MemoryRecent
