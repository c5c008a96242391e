SPECIFICATION Spec
CONSTANTS
  t1 = t1
  t2 = t2
  t3 = t3
  t4 = t4
  Thread = {t1, t2, t3, t4}
  Node = {n1, n2, n3, n4, n5}
  NULL = NULL
  MASTER = MASTER
  DEPENDENT = DEPENDENT
  Start <- MCStart
  UserSets <- MCUserSets
  Builds = {TRUE, FALSE}
  Blocks = 3
INVARIANTS
  TypeOK
PROPERTIES
  ImplementsCommandSlot
  ServedUnlessOverlapped
  OperationsReturn
