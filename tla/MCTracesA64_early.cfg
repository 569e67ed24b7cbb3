SPECIFICATION TracesSpec
CONSTANTS
  s1 = s1
  s2 = s2
  s3 = s3
  s4 = s4
  SPC = {s1, s2, s3, s4}
  Entry = s1
  NULL = NULL
  Prog <- ExitProg
  Span <- OneBlock
  CODE_CACHE_SIZE = 4
  CODE_CACHE_OVERP = 1
  trampolines_size_bbs = 1
  MAX_CC_LINKS = 20
  TRACE_CACHE_SIZE = 7
  TRACE_LIMIT_OFFSET = 2
  TRACE_FRAGMENT_NO = 14
  TRACE_FRAGMENT_OVERP = 6
  MAX_TRACE_FRAGMENTS = 1
  TRACE_EXIT_STUB_GUARD = 1
  BranchRange = 4
  HotCount = 2
INVARIANT TableLeads
