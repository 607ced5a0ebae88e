SPECIFICATION FairSpec
CONSTANTS
  r1 = r1 
  r2 = r2 
  r3 = r3
  i1 = i1 
  i2 = i2 
  i3 = i3
  a1 = a1 
  a2 = a2 
  a3 = a3
  Item <- TwoItems
  Account = {a1, a2}
  AccountOf <- Distinct
  NoAccount = NoAccount
  NoExpiry = NoExpiry
  CursorCycle = 2
  CooldownTicks = 2
  BanTicks = {}
  Request = {r1, r2}
  Cancellable = {r2}
  WafBlocked = {r2}
  UseMultiple = {TRUE, FALSE}
  OperatorCalls = {}
  InitialPool <- Pool2
  InitialCurrent = {a1}
  InitialBans <- NoBans
  QueueTicks = 1
  FailoverTicks = 1
  InvalidTicks = 2
  MaxRetries = 1
INVARIANTS TypeOK OneStreamPerSlot NoLeakedSlot
PROPERTIES NoReturnAfter401 SlotsSpec EveryRequestEnds
