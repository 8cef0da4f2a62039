CONSTANTS
  rx = rx  ui = ui  other = other  usb = usb  sys = sys
  fm = fm  adsb = adsb  system = system
  NoOwner = NoOwner  NoTask = NoTask
  Owner = {fm, adsb, system}
  Task <- ReceiptTasks
  OwnerOf <- ReceiptOwnerOf
  Calls <- ReceiptCalls
  Kinds = {1}
  MaxWaiters = 4
  MaxIo = 1
SPECIFICATION Spec
INVARIANTS
  NoOrphanStream IdleOnlyCalls ReceiptTruth RecheckTruth
