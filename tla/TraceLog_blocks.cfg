SPECIFICATION Spec
CONSTANTS
  TlBlock = 2
  TlBlocks = 3
  TlHdr = 1
  TlLens = {1, 2}
  TlWriters = {1}
  TlRecords = 3
INVARIANT BlockWrites
CHECK_DEADLOCK FALSE
