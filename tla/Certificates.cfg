SPECIFICATION Spec
CONSTANTS
  Types = {"CN", "O"}
  MaxAttributes = 2
  MaxValue = 2
  MaxChain = 2
INVARIANTS
  ChainIsWholeOrNull
  IssuerIsRead
