\* The life of a buffer ends when the last script leaves it after the swap.
CHECK_DEADLOCK FALSE
SPECIFICATION FairSpec
CONSTANTS
  Worker = {w1, w2}
  Key = {k}
  Element = {1, 2}
  Master = master
  Nobody = nobody
  Nothing = nothing
  MaxLost = 1
  MaxCalls = 3
  MaxKills = 1
INVARIANTS TypeOK RefsCounted ScriptReadsLiveElements
PROPERTIES UnusedElementsAreDestroyed
