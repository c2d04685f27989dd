SPECIFICATION Spec
CONSTANTS
  q1 = q1
  q2 = q2
  m1 = m1
  m2 = m2
  None = None
  Queries <- MCOneQuery
  Turns <- MCTurns
  IdleStop = TRUE
  SlowStart = FALSE
  ExitIsPrompt = FALSE
  MaxOpen = 1
  MaxCalls = 2
  MaxDeaths = 0
INVARIANT IdleEngineIsTimed
