SPECIFICATION Spec
CONSTANTS
  Scripts <- MCScripts
  Cap = 4
  FourGB = 100
  MaxEntries = 4
  LineMax = 5
  MaxArgs = 2
  MaxTicks = 1
INVARIANT NothingLeftOut
