SPECIFICATION Spec
CONSTANTS
  h1 = h1
  h2 = h2
  old = old
  new = new
  Panels <- MCPanels
  HostsIn <- MCHostsIn
  MaxInvocations = 2
INVARIANTS
  TypeOK
  KeptAreWhole
  ComparesItsOwnRuns
  FiguresAgree
