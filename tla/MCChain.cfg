SPECIFICATION ChainSpec
CONSTANTS
  W = 3
  Clients = {c1, c2}
  h1 = h1
  h2 = h2
  Handlers = {h1, h2}
  NPages = 3
  MaxPrefixes = 2
  MaxIAPDs = 2
  MaxHints = 2
  LeaseDuration = 2
  MaxTime = 2
  Messages <- MCMessages
  Releases <- MCReleases
  Width = 4
  hopCountLimit = 2
  maxRelayDepth = 2
  NoKey = NoKey
  Goroutines = {g1, g2}
  MaxPackets = 2
  MaxChanges = 1
  MaxLayers = 4
  MaxHops = 3
  MaxWords = 4
  MaxNamed = 2
  maskBits = 4
  minMTU = 68
  maxMTU = 65535
  Unclean = {"-"}
  maxLabel = 63
  maxName = 253
  octetBits = 2
  Second = 60
  IntSize = 64
  maxRate = 1000
  maxBurst = 1000
  maxTracked = 1000
  maxTTL = 1000
  maxQueueLen = 1000
  maxDeclineQuarantine = 5
  maxIPv6RangeSize = 100
SYMMETRY Symmetry
INVARIANTS
  ArithmeticExact
  DelegationsAccounted
  DelegationsKept
  OneEventPerDatagram
  ClientsReached
  AddressesHeld
  RightScope
  FileSound
  SetupOrderFree
  AsConfigured
PROPERTIES
  ImplementsPool
  ReturningKeepsPrefix
  OnlyVouched
CHECK_DEADLOCK FALSE
