SPECIFICATION Spec
CONSTANTS
  thread1 = thread1
  thread2 = thread2
  thread3 = thread3
  thread4 = thread4
  Thread = {thread1, thread2, thread3, thread4}
  Start <- MCStart
  Terminating = {thread1, thread2}
  Bursts = 3
  Node = {n1, n2, n3, n4, n5, n6, n7, n8, n9}
  NULL = NULL
INVARIANTS
  TypeOK
  EachThreadOnce
  NoFault
PROPERTIES
  ImplementsRoundRobin
  NobodyStarves
