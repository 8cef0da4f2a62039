CONSTANTS
  Capacity = 3
  Leases = 0
  KeepDays = 1
  MaxCall = 2
  MaxDay = 0
  MaxCuts = 1
  MaxAsks = 1
SPECIFICATION Spec
INVARIANTS EndFits OpenIsClosed CallsApart RevokedGone ListTrue
PROPERTIES ImplementsLibrary
