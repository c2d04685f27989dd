SPECIFICATION PipeSpec
CONSTANTS
  t1 = t1
  t2 = t2
  w1 = w1
  w2 = w2
  NoJob = NoJob
  JobIds = {1, 2}
  Classes <- MCClasses
  Registered <- MCClasses
  Tries <- MCTries
  Workers = {w1}
  Ticks = {t1}
  Of <- MCOf
  c1 = c1
  Clis = {c1}
  MaxCrashes = 0
  MaxFaults = 0
  MaxRequeues = 0
  MaxPipeFaults = 0
  Sgfs <- MCTexts
  Trim <- MCTrimTexts
  Blank <- MCBlank
  Requests <- MCSingleTexts
  ApiCalls = {a1}
  Readers = {}
  AnalyzeClass = "SgfAnalyzeJob"
  MaxApiCrashes = 0
INVARIANT OneRowPerTrimmedGame
