SPECIFICATION HttpSpec

CONSTANTS
  MaxReqs = 3
  Path <- MCPath
  Routes = {"/a"}
  Upgrades = {2}
  Errors = {200, 302}

INVARIANTS
  HandedWhole
  AnswersInOrder

PROPERTIES
  AllHanded

\* All requests were answered.
CHECK_DEADLOCK FALSE
