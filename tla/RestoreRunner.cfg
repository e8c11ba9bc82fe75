SPECIFICATION FairSpec
CONSTANTS
    any = any
    plain = plain
    Runs <- MCRuns
    RequestsOf <- MCRequestsOf
    MaxVolumes = 2
INVARIANTS ServicesGuarded AnswerHonest
PROPERTIES ImplementsAudit CanceledRestoreReturns
