CONSTANTS
  r1 = r1  r2 = r2  App = App  web = web  web1 = web1  web2 = web2  mail = mail  h1 = h1  h2 = h2
  v1 = v1  v2 = v2  Dump = Dump  Nobody = Nobody  NoSnapshot = NoSnapshot
  Jobs <- MCJobs
  Hosts <- MCHosts
  Scripts <- MCScripts
  Plans <- MCPlans
  JobOf <- MCJobOf
  PathsOf <- MCPathsOf
  KeepLast <- MCKeepLast
  Homes <- MCHomes
  MaxMoves = 1
  Runs = {r1, r2}
  Volumes = {v1, v2}
  DataDir = v1
  Containers <- MCContainers
  Untracked = {r2}
  MaxOverlap = 2
  MaxFaults = 2
SPECIFICATION Spec
INVARIANTS RunsEndClean SnapshotWhole
PROPERTY HostsApart
