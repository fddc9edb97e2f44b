SPECIFICATION FairSpec
CONSTANTS
  Operators = {"request"}
  Scheduler = "loop"
  max_retries = 1
  circuit_failure_threshold = 2
  MaxCount = 3
  MaxFaults = 1
  MaxRestarts = 1
  Events = {"flood", "storm"}
  Known = {"flood"}
  Callers = {"loop", "request"}
  Tickers = {"loop", "request"}
  LoopThread = "loop"
  TriggerTypes = {"observation", "simulation", "resource", "resolved"}
  Reports = {"go", "stop", "gate"}
  MaxData = 3
  MaxTriggers = 2
  MaxFailures = 1
  MaxStops = 1
\* Data, triggers and counted cycles are bounded: work runs out.
CHECK_DEADLOCK FALSE
INVARIANTS
  RunsAreOrderly
  CircuitIsSound
PROPERTIES
  
  DataAreSeen
  CircuitRecovers
