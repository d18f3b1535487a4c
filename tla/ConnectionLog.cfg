SPECIFICATION Spec
CONSTANTS
  Connections <- MCConnections
  AtOnce = 2
INVARIANTS
  ValidLinesAreTrue
  ExpiredLineDivides
  OneLineEach
  AloneInOrder
  LogInv
PROPERTIES
  HandshakesAreLogged
