SPECIFICATION FairSpec
CONSTANTS
    web = web
    db = db
    w1 = w1
    w2 = w2
    Jobs = {web, db}
    LocalJobs = {db}
    MaxRuns = 1
    Workers = {w1, w2}
    QueueSize = 1
INVARIANTS EventsConserved ShutdownHonest
PROPERTIES ShutdownCompletes
