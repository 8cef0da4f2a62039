CONSTANTS
  Capacity = 3
  Leases = 1
  KeepDays = 1
  MaxCall = 1
  MaxDay = 1
  MaxCuts = 1
  MaxAsks = 2
SPECIFICATION FairSpec
INVARIANTS PlayedStays
PROPERTIES KeepRace Served CallSettles
