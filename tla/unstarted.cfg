SPECIFICATION Spec
CONSTANTS
  r1 = r1
  r2 = r2
  r3 = r3
  a1 = a1
  a2 = a2
  Request = {r1, r2}
  Account = {a1}
  NoSlot = NoSlot
  Workers = 1
  ConsumerTicks = 1
  MaxRetries = 1
  MaxText = 2
  Live = {TRUE, FALSE}
INVARIANT SlotComesBack
