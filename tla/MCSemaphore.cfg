SPECIFICATION FairSpec
CONSTANTS
  Threads = {t1, t2, t3}
  IntMax = 3
  InitValue = 1
  MaxPosts = 2
INVARIANTS Conservation NoLostPost
PROPERTY NobodySleepsBesideAUnit
