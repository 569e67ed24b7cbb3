SPECIFICATION RaceSpec
CONSTANTS
  Main = m
  Thread = {m, t1, t2}
  NoTid = no
  Mutex = {l}
  Var = {x}
  PthreadT = {p}
  None = none
  VcSize = 4
  MaxSegment = 2
  MaxAccesses = 3
SYMMETRY Symmetry
CONSTRAINT NotOvertaken
CHECK_DEADLOCK FALSE
INVARIANTS OrderExact 
