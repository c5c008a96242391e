SPECIFICATION Spec
CONSTANTS
  Entries = 8
  KERNEL_POOL_START_FRAME = 1
  KERNEL_POOL_SIZE = 7
  PROCESS_POOL_START_FRAME = 8
  PROCESS_POOL_SIZE = 6
  MEM_HOLE_START_FRAME = 10
  MEM_HOLE_SIZE = 1
  Access <- MCAccess
  Garbage <- MCGarbage
INVARIANTS
  TypeOK
  PrivateFrames
PROPERTIES
  ImplementsFlatMemory
  TestPasses
CHECK_DEADLOCK FALSE
