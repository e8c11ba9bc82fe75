SPECIFICATION FairSpec
CONSTANTS
    here = here
    remotely = remotely
    web = web
    Runs <- MCRuns
    Jobs = {web}
    JobOf <- MCJobOf
    LocalRuns = {here}
    UntrackedOK = {remotely}
INVARIANTS RowsOwned HonestLedger StaleRowsReported
PROPERTIES ImplementsContract CanceledRunReturns
