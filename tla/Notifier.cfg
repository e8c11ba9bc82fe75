SPECIFICATION FairDispatch
CONSTANTS
  all = all
  good = good
  bad = bad
  Channels = {all, good, bad}
  Wants <- MCWants
  MaxAttempts = 2
INVARIANTS EveryoneHeard NoNeedlessCopy
PROPERTY DispatchEnds
