CONSTANTS
  rx = rx  ui = ui  other = other  usb = usb  sys = sys
  fm = fm  adsb = adsb  system = system
  NoOwner = NoOwner  NoTask = NoTask
  Owner = {fm, adsb, system}
  Task <- LiveTasks
  OwnerOf <- LiveOwnerOf
  Calls <- LiveCalls
  Kinds = {1}
  MaxWaiters = 4
  MaxIo = 1
SPECIFICATION FairSpec

PROPERTIES
  ImplementsLease DetachEnds ReleaseEnds
