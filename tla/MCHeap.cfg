SPECIFICATION Spec
CONSTANTS
  Header = 1
  Expand = 5
  MaxHeap = 15
  Requests <- MCRequests
INVARIANTS
  HeapOK
PROPERTIES
  RefinesAlloc
