CONSTANTS
  rx = rx  ui = ui  other = other  usb = usb  sys = sys
  fm = fm  adsb = adsb  system = system
  NoOwner = NoOwner  NoTask = NoTask
  Owner = {fm, adsb, system}
  Task <- PauseTasks
  OwnerOf <- PauseOwnerOf
  Calls <- PauseCalls
  Kinds = {1}
  MaxWaiters = 4
  MaxIo = 1
SPECIFICATION Spec
INVARIANTS
  DriverAlive Accounting NoLostWakeup
  StoppingHasCause PausedMeansStopped PauseHitsNamedOwner
