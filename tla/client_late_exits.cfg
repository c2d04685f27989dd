SPECIFICATION FairSpec
CONSTANTS
  q1 = q1
  q2 = q2
  m1 = m1
  m2 = m2
  None = None
  Queries <- MCOneQuery
  Turns <- MCTurns
  IdleStop = TRUE
  SlowStart = TRUE
  ExitIsPrompt = FALSE
  MaxOpen = 1
  MaxCalls = 3
  MaxDeaths = 1
PROPERTIES TimeoutKillsEngine InUseIsNotStopped EveryCallSettles
