SPECIFICATION Spec
CONSTANTS
  Versions = {"TLSv1.3"}
  MaxTickets = 1
  h1 = h1
  h2 = h2
  Entries <- TwoHosts
  Families = 1
  Addresses <- OneAddress
  Dirs = {d1, d2}
  None = None
SYMMETRY DirSymmetry
INVARIANTS
  TypeOK
  NoCrossHostReplay
  ProvenanceIsTrue
  OutputIsComplete
  IInv
PROPERTIES
  ImplementsQuestion
