SPECIFICATION Spec
CONSTANTS
    Sources <- MCSources
    Targets <- MCTargets
    Edits <- MCEdits
    Flags <- MCFlags
    Before <- MCBefore
    MaxWorld = 1
INVARIANTS JobNamesDistinct ReviewedStateOnly ExitStatusEarned
