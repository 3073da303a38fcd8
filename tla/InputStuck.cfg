SPECIFICATION Spec
CONSTANTS
  Keys = {"a"}
  ExtKey = "up"
  KBQ_CAP = 2
  MaxKeys = 4
  MaxMoves = 1
  MaxEarly = 1
  MaxQueue = 1
PROPERTIES
  KeysArrive
