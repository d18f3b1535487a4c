SPECIFICATION Spec
CONSTANTS
  Versions = {"TLSv1.2", "TLSv1.3"}
  MaxTickets = 1
  h1 = h1
  h2 = h2
  Entries <- OneHost
  Families = 2
  Addresses <- TwoAddresses
  Dirs = {d1}
  None = None
INVARIANTS
  TwoPinnedConnections
  AnswerWasPosed
  AnswerIsTrue
  AnswerIsRecorded
  TicketReportIsTrue
  FailureIsBare
  ReportIsSound
PROPERTIES
  Terminates
