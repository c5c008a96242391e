SPECIFICATION SwitchSpec
CONSTANTS
  Thread = {t1, t2}
  NULL = NULL
  Main = Main
  StackSize = 28
  StartIF = {TRUE, FALSE}
  Timers = {"simple", "eoq"}
INVARIANTS
  SwitchTypeOK
  ResumesWhole
CHECK_DEADLOCK FALSE
