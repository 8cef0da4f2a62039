CONSTANTS
  app = app  client = client  console = console  setup = setup
  App <- MCApp
  MaxPlugs = 2
  MaxDetach = 1
  MaxOther = 1
  Attempts = 2
SPECIFICATION FairSpec
CHECK_DEADLOCK FALSE

INVARIANTS FreedOnce NotDangling NotStale ProbeKept
PROPERTIES ProbeServed
