SPECIFICATION Spec
CONSTANTS
  a = a
  b = b
  x = x
  k1 = k1
  k2 = k2
  k3 = k3
  Caller = {a, b}
  Client = {k1, k2, k3}
  Resource = {x}
  Resources <- MCResources
  RetryCount <- MCRetryCount
  Duration = 2
  Drift = 1
  Extends = {b}
  MaxTrouble = 1
  Absent = Absent
SYMMETRY MCSymmetry
INVARIANTS  NoLeftovers 

