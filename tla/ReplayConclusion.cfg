SPECIFICATION Spec
CONSTANTS
  Scripts = {"nginx", "haproxy", "mtls", "nonbrowser"}
INVARIANTS
  DeclinedMeansFullHandshake
