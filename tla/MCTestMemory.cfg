SPECIFICATION Spec
CONSTANTS
  kp = kp
  pp = pp
  Pool <- MCPool
  base_frame_no <- MCBase
  n_frames <- MCFrames
  kernel_mem_pool = kp
  process_mem_pool = pp
  MEM_HOLE_START_FRAME = 116
  MEM_HOLE_SIZE = 6
  Depth = 12
  MaxRequest = 4
  EntriesPerFrame = 40
INVARIANTS
  TypeOK
  TestNeverFails
  PoolsRestored
  BitmapsUntouched
PROPERTIES
  ImplementsExtents
  TestsComplete
CHECK_DEADLOCK FALSE
