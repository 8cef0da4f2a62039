CONSTANTS
  screen = screen  console = console
  Caller <- MCCaller
  Screen = screen
  Calls <- MCCalls
  NumApps = 2
  QueueSize = 1
  LoopMax = 2
  MaxToken = 2
SPECIFICATION FairSpec

INVARIANTS OneOwner IdleAgrees FaultTold LoopBroken FenceHolds
PROPERTIES FenceAnswered
