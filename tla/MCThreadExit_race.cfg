SPECIFICATION Spec
CONSTANTS
  t1 = t1
  t2 = t2
  t3 = t3
  Threads = {t1, t2}
  Main = t1
  NULL = NULL
  Calls <- OneSyscallCalls
INVARIANT CallbacksBracket
CHECK_DEADLOCK FALSE
