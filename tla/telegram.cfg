SPECIFICATION TgFairSpec
CONSTANTS
  JobIds = {1}
  MaxUpdates = 3
  From <- MCFrom
  Text <- MCText
  Admins = {"admin"}
  Channel = "channel"
  MaxBoots = 2
  MaxFaults = 2
  MaxHours = 1
INVARIANTS
  TgTypeOK
  TakenOncePerLife
  ConfirmedIsSettled
  CountsFit
PROPERTIES
  EveryCommandSettles
  ShutdownEnds
