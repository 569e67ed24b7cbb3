SPECIFICATION Spec
CONSTANTS
  s1 = s1
  s2 = s2
  s3 = s3
  s4 = s4
  s5 = s5
  SPC = {s1, s2, s3, s4, s5}
  Entry = s1
  NULL = NULL
  Prog <- LoopProg
  Span <- LoopSpan
  CODE_CACHE_SIZE = 8
  CODE_CACHE_OVERP = 2
  trampolines_size_bbs = 2
  MAX_CC_LINKS = 16
INVARIANTS TypeOK ReserveSuffices TableIsLive LinksLead RecordsExact NeverStale
PROPERTIES Transparent LinkOnce
