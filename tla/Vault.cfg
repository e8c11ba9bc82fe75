SPECIFICATION VaultSpec
CONSTANTS
  a = a
  b = b
  me = me
  them = them
  Servers = {a, b}
  Mine = me
  Titles <- MCTitles
  SharedList <- MCShared
  KeyItem <- MCKeyItem
  PassItem <- MCPassItem
  Machines <- MCMachines
  NewEntries <- MCNewEntries
  Others <- MCOthers
  MaxRuns = 4
  MaxEdits = 2
INVARIANT KeysKept
PROPERTIES SuccessEarned RestoreGuarded
