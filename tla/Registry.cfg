CONSTANTS
  Clients = {c1, c2, c3}
  Keys = {k1, k2}
  NoKey = NoKey
  MaxAdds = 4
  MaxCrashes = 1
SPECIFICATION Spec
INVARIANTS RegistryIsReadable
CHECK_DEADLOCK FALSE
