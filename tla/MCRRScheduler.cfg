SPECIFICATION Spec
CONSTANTS
  thread1 = thread1
  thread2 = thread2
  thread3 = thread3
  Thread = {thread1, thread2, thread3}
  Start <- MCStart
  Terminating = {thread1}
  Quantum = 2
  MaxNode = 6
  MaxTorn = 5
INVARIANTS
  TypeOK
  OneInHandler
  WholeUnlessTorn
PROPERTIES
  TimerAndThreadsGoOn
CHECK_DEADLOCK FALSE
