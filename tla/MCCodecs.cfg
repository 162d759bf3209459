SPECIFICATION MCSpec
CONSTANTS
  Modulus = 64
  Samples = 4
  FirstTimestamp = 57
  Events = {1, 2, 16}
  SSRCs = {1, 2}
  MaxPresses = 2
  MaxPackets = 3
  MaxTones = 3
  MaxFlight = 2
INVARIANTS
  TonesContinuous
  TransactionsRead
  RepliesByContext
  OffersRead
  DescriptionsRead
  ChallengesRead
  FilesLoaded
  PortsSuffice
CHECK_DEADLOCK FALSE
