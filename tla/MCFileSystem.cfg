SPECIFICATION FileSystemSpec
CONSTANTS
  FileId = {f1, f2, f3}
  Handle = {h1, h2}
  MAX_INODES = 2
  NBlocks = 5
  BLOCK_SIZE = 2
  Letter = {97}
  MaxMounts = 2
  Damage <- MCDamage
  NONE = NONE
SYMMETRY MCSymmetry
INVARIANTS
  FileSystemTypeOK
  BlocksOwned
  HandlesValid
PROPERTIES
  ImplementsFileStore
CHECK_DEADLOCK FALSE
