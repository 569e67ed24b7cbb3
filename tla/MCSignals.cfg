SPECIFICATION SignalsSpec
CONSTANTS
  Sig = {10, 34}
  SyncSig = 11
  MaskSets <- MCMasks
  Uncond = {u}
  Cond = {c}
  Indirect = {i}
  Branches <- MCBranches
  Values <- MCValues
  MaxArrivals = 2
  MaxNested = 2
CHECK_DEADLOCK FALSE
INVARIANTS SignalsRecorded CountersAgree UnlinkingExact TrapTakesSameSide
PROPERTIES ReachesDispatcher
