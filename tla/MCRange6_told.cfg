SPECIFICATION Spec
CONSTANTS
  Duids = {d1}
  Iaids = {i1, i2}
  Messages <- SmallMessages
  MaxIANAs = 2
  PoolSize = 2
  LeaseTime = 1
  DeclineProbation = 1
  DeclineMax = 1
  MaxLeases = 0
  QueueLen = 2
  Handlers = {h1, h2}
  Sweeper = sw
  TicksPerSec = 1
  MaxTick = 1
  MaxMishaps = 0
  d1 = d1
  i1 = i1
  i2 = i2
  h1 = h1
  h2 = h2
  Gens <- EnoughGens
INVARIANTS
  ToldIsWritten
CHECK_DEADLOCK FALSE
