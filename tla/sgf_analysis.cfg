SPECIFICATION Spec
CONSTANTS
  Undefined = Undefined
  Null = Null
  None = None
  Foreign = Foreign
  Docs <- MCDocs
  Bodies <- MCBodies
  JobId = "job-1"
  Tidied <- MCTidied
  Lead <- MCLead
  Infos <- MCInfos
  Limit = 2
INVARIANTS
  QueryIsOfTheGame
  EachMoveHasItsOwnTurn
