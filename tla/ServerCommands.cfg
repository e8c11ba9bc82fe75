SPECIFICATION CommandSpec
CONSTANTS
  a = a
  b = b
  c = c
  g = g
  h = h
  j = j
  NoJump = NoJump
  Names = {a, b, c}
  Hosts = {g, h}
  KeyHosts = {g}
  AgentHosts = {g}
  Typed = {"home", "detour"}
  Jobs = {j}
  Starts <- MCStarts
  Configs <- MCConfigs
  MaxCommands = 2
  MaxKeys = 3
INVARIANT ExportWhole
PROPERTIES UsedKeyKept PasswordOutlived ReferencesKept
