SPECIFICATION FairSpec
CONSTANTS
  t1 = t1
  t2 = t2
  w1 = w1
  NoJob = NoJob
  JobIds = {1, 2, 3}
  Classes <- MCClasses
  Registered <- MCRegistered
  Tries <- MCTries
  Workers = {w1}
  Ticks = {t1, t2}
  Of <- MCOneOf
  c1 = c1
  Clis = {c1}
  MaxCrashes = 1
  MaxFaults = 0
  MaxRequeues = 2
PROPERTIES
  DoneIsFinal
  ImplementsLifecycle
  EveryJobSettles
