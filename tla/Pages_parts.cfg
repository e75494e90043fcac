SPECIFICATION PagesSpec
CONSTANTS
  Forms = {f1, f2}
  Checks = {k1, k2}
  Patient = TRUE
  MaxEdits = 2
  MaxExtracts = 2
  AccessCode = {c1, c2}
  NoCode = none
  Slot = {1, 2}
  MaxClicks = 3
  JobId = {j1, j2}
  File <- Names
  Dotted = {2}
  Requester = {1}
  PAGE = 1
  MaxFiles = 3
SYMMETRY Interchangeable
CHECK_DEADLOCK FALSE
INVARIANTS
  ExtractsWhatPassed
  FormInv
  PanelIsRight
  ServesItsOwn
  DoneCanBeRead
PROPERTIES
  OnlyItsJobTakesIt
