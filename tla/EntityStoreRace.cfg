SPECIFICATION Spec
CONSTANTS
  Threads = {t1, t2}
  Tenants = {north, south}
  Ids = {i1, i2}
  Keys = {k1}
  NoKey = nokey
  Lows <- MCLows
  Highs <- MCHighs
  Unset = unset
  None = none
  MaxRequests = 4
SYMMETRY Symmetry
CHECK_DEADLOCK FALSE
INVARIANT Unique
