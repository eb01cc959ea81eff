SPECIFICATION Spec
CONSTANTS
  Duids = {d1}
  Iaids = {i1, i2}
  Messages <- SmallMessages
  MaxIANAs = 2
  PoolSize = 2
  LeaseTime = 2
  DeclineProbation = 1
  DeclineMax = 1
  MaxLeases = 0
  QueueLen = 2
  Handlers = {h1, h2}
  Sweeper = sw
  TicksPerSec = 1
  MaxTick = 2
  MaxMishaps = 1
  d1 = d1
  i1 = i1
  i2 = i2
  h1 = h1
  h2 = h2
  Gens <- EnoughGens
VIEW ServerView
SYMMETRY Symmetry
INVARIANTS
  PoolAccounted
  DiskCatchesUp
  PromiseKept
CHECK_DEADLOCK FALSE
