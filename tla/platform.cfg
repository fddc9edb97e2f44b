SPECIFICATION Spec
CONSTANTS
  Entities = {"home", "school"}
  HighRisk = {"school"}
  NoOne = "none"
  Rankings = {"home", "none"}
  Routing = {FALSE}
  MaxReplan = 2
  MaxAttempts = 2
  MaxJobs = 3
  MaxUpdates = 1
  MaxStops = 2
  Handlers = {"h1"}
  Sessions = {"s1"}
  Levels = {0, 1}
  MaxEpisodes = 2
  MaxReports = 0
  MaxFailures = 1
\* Jobs, episodes and reports are bounded: work runs out.
CHECK_DEADLOCK FALSE
INVARIANTS
  TargetIsKept
  JobsAreOrderly
  
PROPERTIES
  WorkEnds
  
