SPECIFICATION PipeFairSpec
CONSTANTS
  t1 = t1
  t2 = t2
  w1 = w1
  w2 = w2
  NoJob = NoJob
  JobIds = {1, 2}
  Classes <- MCBothClasses
  Registered <- MCBothClasses
  Tries <- MCBothTries
  Workers = {w1}
  Ticks = {t1}
  Of <- MCOf
  c1 = c1
  Clis = {c1}
  MaxCrashes = 1
  MaxFaults = 0
  MaxRequeues = 1
  MaxPipeFaults = 0
  Sgfs <- MCTexts
  Trim <- MCTrimTexts
  Blank <- MCBlank
  Requests <- MCTextRequests
  ApiCalls = {a1}
  Readers = {}
  AnalyzeClass = "SgfAnalyzeJob"
  MaxApiCrashes = 0
INVARIANT OneJobPerGame
PROPERTY AckedSettles
