SPECIFICATION FairSpec
CONSTANTS
  Token = {t1, t2}
  NoToken = none
  MaxFaults = 2
CHECK_DEADLOCK FALSE
INVARIANTS
  RunningDriverCycles
  StoppedIsShown
  RetriedOrTold
PROPERTY EveryCommitSyncs
