SPECIFICATION Spec
CONSTANTS
  v = v
  w = w
  Workers = {v, w}
  Files <- MCFiles
INVARIANTS TransferSafe OneMoreEach
 
