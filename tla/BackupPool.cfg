SPECIFICATION FairPoolSpec
CONSTANTS
    here = here
    there = there
    yonder = yonder
    web = web
    Runs <- MCRuns
    Jobs = {web}
    JobOf <- MCJobOf
    LocalRuns = {here}
    UntrackedOK = {}
    MaxParallel = 2
INVARIANTS TalliesExact ExitCodeTruthful
PROPERTY SignaledCommandExits
