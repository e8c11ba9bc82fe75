CONSTANTS
  s1 = s1  s2 = s2  a1 = a1  a2 = a2  m1 = m1  m2 = m2  m3 = m3  ed = ed  rsa = rsa
  c1 = c1  c2 = c2  k0 = k0  k1 = k1  k2 = k2  p1 = p1  p2 = p2  NoKey = NoKey
  Servers = {s1, s2}
  Addresses = {a1, a2}
  Machines = {m1, m2, m3}
  KeyTypes = {ed, rsa}
  Preferred = ed
  Setups = {p1, p2}
  Inventories <- MCInventories
  Answering <- MCAnswering
  KnownAtFirst <- MCKnownAtFirst
  MaxEdits = 1
  MaxRebuilds = 1
  Target = s1
  Runs = {c1, c2}
  UserOf <- MCUserOf
  Users <- MCUsers
  Keys = {k0, k1, k2}
  Fresh = {k1}
  AgentKeys = {k2}
  DefaultKeys = {k0}
  Starts <- MCStarts
SPECIFICATION Spec
INVARIANTS NoSecondKey LockdownSafe
PROPERTY VettedHostsOnly
