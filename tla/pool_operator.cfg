SPECIFICATION Spec
CONSTANTS
  r1 = r1 
  r2 = r2 
  r3 = r3
  i1 = i1 
  i2 = i2 
  i3 = i3
  a1 = a1 
  a2 = a2 
  a3 = a3
  Item <- TwoItems
  Account = {a1}
  AccountOf <- OneAccount
  NoAccount = NoAccount
  NoExpiry = NoExpiry
  CursorCycle = 1
  CooldownTicks = 2
  BanTicks = {1, 2}
  Request = {r1, r2}
  Cancellable = {}
  WafBlocked = {}
  UseMultiple = {TRUE}
  OperatorCalls = {"unblock", "status", "add", "remove", "select"}
  InitialPool <- Pool1
  InitialCurrent = {a1}
  InitialBans <- SavedBans
  QueueTicks = 0
  FailoverTicks = 0
  InvalidTicks = 1
  MaxRetries = 0
PROPERTY NoBannedHandout
