SPECIFICATION FairSpec
CONSTANTS
  q1 = q1
  q2 = q2
  m1 = m1
  m2 = m2
  None = None
  Queries <- MCQueries
  Turns <- MCTurns
  IdleStop = TRUE
  SlowStart = FALSE
  ExitIsPrompt = TRUE
  MaxOpen = 2
  MaxCalls = 3
  MaxDeaths = 1
INVARIANTS TypeOK NoOrphan IdleEngineIsTimed AnswersComplete
PROPERTY EnginesAreReaped
