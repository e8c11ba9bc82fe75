SPECIFICATION Spec
CONSTANTS
  a = a
  b = b
  p = p
  q = q
  c1 = c1
  c2 = c2
  c3 = c3
  NoJump = NoJump
  Nothing = Nothing
  Names = {a, b}
  Stores = {p, q}
  Clients = {c1, c2, c3}
  StoreOf <- MCStoreOf
  Requests <- MCRequests
  MaxCrashes = 1
  MaxWrites = 2
INVARIANTS InventoryAcyclic ReadsFresh
PROPERTIES AtomicStore
