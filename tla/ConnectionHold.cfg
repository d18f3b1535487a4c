SPECIFICATION HoldSpec
CONSTANTS
  Versions = {"TLSv1.3"}
  MaxTickets = 1
  Hold = 1
  Timeout = 3
  Horizon = 4
PROPERTY
  HeldAfterRequest
