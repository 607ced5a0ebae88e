SPECIFICATION Spec
CONSTANTS
  c1 = c1
  c2 = c2
  c3 = c3
  k1 = k1
  k2 = k2
  Caller = {c1, c2, c3}
  Key = {k1}
  Cancellable = {c2}
  BackoffTicks = {1, 2}
  WaitTicks = 1
  MaxEvents = 3
INVARIANT WaitsForALeader
