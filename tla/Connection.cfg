SPECIFICATION Spec
CONSTANTS
  Versions = {"TLSv1.2", "TLSv1.3"}
  MaxTickets = 2
  Hold <- MCHold
  Timeout <- MCTimeout
  Horizon <- MCHorizon
INVARIANTS
  TypeOK
  ReturnsAnOutcome
  HintIsOfSavedSession
  NoProcessLeft
PROPERTIES
  Returns
