CONSTANTS
  app = app  client = client  console = console  setup = setup
  App <- MCApp
  MaxPlugs = 2
  MaxDetach = 1
  MaxOther = 1
  Attempts = 2
SPECIFICATION Spec
CHECK_DEADLOCK FALSE

INVARIANTS NeverDangling
