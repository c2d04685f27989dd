SPECIFICATION PipeSpec
CONSTANTS
  t1 = t1
  t2 = t2
  w1 = w1
  w2 = w2
  NoJob = NoJob
  JobIds = {1}
  Classes <- MCClasses
  Registered <- MCClasses
  Tries <- MCTries
  Workers = {w1, w2}
  Ticks = {t1, t2}
  Of <- MCTwoOf
  c1 = c1
  Clis = {c1}
  MaxCrashes = 0
  MaxFaults = 0
  MaxRequeues = 1
  MaxPipeFaults = 1
  Sgfs <- MCOneGame
  Trim <- MCTrimOneGame
  Blank <- MCNoBlank
  Requests <- MCOneRequest
  ApiCalls = {a1}
  Readers = {r1}
  AnalyzeClass = "SgfAnalyzeJob"
  MaxApiCrashes = 0
SYMMETRY WorkerSymmetry
INVARIANTS
  ClaimIsExclusive
  DoneHasResult
  AckedIsFound
  SingleReplyCoherent
PROPERTY IsQueueWorker
