SPECIFICATION Spec
CONSTANTS
  r1 = r1 
  r2 = r2 
  r3 = r3
  i1 = i1 
  i2 = i2 
  i3 = i3
  a1 = a1 
  a2 = a2 
  a3 = a3
  Item <- OneItem
  Account = {a1}
  AccountOf <- Distinct
  NoAccount = NoAccount
  NoExpiry = NoExpiry
  CursorCycle = 1
  CooldownTicks = 2
  BanTicks = {}
  Request = {r1, r2, r3}
  Cancellable = {r1}
  WafBlocked = {r1}
  UseMultiple = {TRUE}
  OperatorCalls = {}
  InitialPool <- Pool1
  InitialCurrent = {a1}
  InitialBans <- NoBans
  QueueTicks = 1
  FailoverTicks = 1
  InvalidTicks = 2
  MaxRetries = 1
INVARIANT OneStreamPerSlot

