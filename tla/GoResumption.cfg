SPECIFICATION Spec
CONSTANTS
  Life <- MCLife
  Margin <- MCMargin
  Horizon <- MCHorizon
INVARIANTS
  TypeOK
  ReportsAreTrue
  ControlsBite
  TestOffersLastSession
PROPERTIES
  Ends
