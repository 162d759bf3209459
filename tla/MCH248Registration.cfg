SPECIFICATION FairSpec
CONSTANTS
  primary = primary
  backup = backup
  Remotes <- PrimaryAndBackup
  TIDs = {1, 2, 3, 4}
  Goroutines = {g1}
  MaxAttempts = 2
  ChannelCap = 1
  MaxMessages = 1
  Mortal = {primary}
  Nil = Nil
INVARIANTS
  TypeOK
  ReadyConfirmed
PROPERTIES
  FailsOver
  ImplementsService
  EveryMGCTried
  DeadMGCDropped
