SPECIFICATION FairSpec
CONSTANTS
  Proc = {p1, p2, p3}
  Nobody = Nobody
  Rounds = 2
  Attempts = 2
  MaxDeaths = 2
INVARIANTS
  TypeOK
  MutualExclusion
  NoFutexError
PROPERTIES
  TryLockIsHonest
  SomebodyLocks
