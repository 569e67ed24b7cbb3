SPECIFICATION Spec
CONSTANTS
  t1 = t1
  t2 = t2
  t3 = t3
  Threads = {t1, t2, t3}
  Main = t1
  NULL = NULL
  Calls <- ExitCalls
INVARIANTS TypeOK ParentWaits NoUseAfterFree CallbacksOnce
CHECK_DEADLOCK FALSE
