\* Three versions: one is parsed before and published after its successor (violated).
SPECIFICATION Spec
CONSTANTS
  Labels = {"v1", "v2"}
  Contents = {"s1", "s2"}
  Servers = {"old", "new"}
  MaxDeployments = 2
  Sources = {"c1", "c2", "c3", "scan"}
  Unparsable = {"scan"}
  Parsers = {"p1", "p2"}
  Current = "p1"
  Perishable = {2}
  Librarians = {"lena", "otto"}
  MaxVersions = 3
  MaxHistory = 4
  MaxFailures = 1
  MaxDocumentStops = 1
  Keys = {"k1", "k2", "k3"}
  NoKey = "none"
  FirstKey = "k1"
  Rows = {"r1", "r2"}
  FirstRow = "r1"
  Processes = {"api", "worker"}
  Threads = {"admin", "other", "clerk"}
  ProcessOf <- MCProcessOf
  MayCall <- MCMayCall
  Configurations <- MCConfigurations
  KeepLatest = 1
  MaxBackups = 3
  MaxStops = 2
  MaxRotations = 2
  Records = {"a", "b", "c"}
  NoRecord = "absent"
  Own = "own"
  MaxBatches = 3
\* Histories, backups and batches are bounded: work runs out.
CHECK_DEADLOCK FALSE
INVARIANTS
  OneCurrentVersion
