SPECIFICATION Spec
CONSTANTS
  Objects = {"o1"}
  Masters = {"m1", "m3"}
  Lapsing = {}
  Unusable = {"m3"}
  Profiles = {"o1"}
  ByHand = {}
  Warnings = {"w1", "w2", "w3"}
  FirstWarning = "w1"
  Called_off = {"w2"}
  Threads = {"officer"}
  MayCall <- Everything
  NoContent = "none"
  MaxAlerts = 2
  MaxImports = 2
  MaxRuns = 2
  MaxLists = 1
  MaxDrafts = 1
  MaxObjectVersion = 4
  MaxStops = 1
  Sources = {"d1", "d2", "d3"}
  Retrievals = {{"d1"}, {"d1", "d2"}}
  Fields = {"action", "deadline"}
  Required = {"action", "deadline"}
  GivenFields = {"deadline"}
  Roles = {"condition", "procedure"}
  GivenRoles = {"condition"}
  Supports <- FieldsSupported
  Covers <- RolesCovered
  DecisionKey <- Decided
  DecisionValue <- Deadlines
  Superseded = {}
  Explicit = {}
  Contradicts <- Contradictions
  NoField = "none"
  Editors = {"rita", "carl"}
  AiTasks = {"t1"}
  MaxPackages = 1
  MaxPackageVersion = 3
  Events = {"e1", "e2"}
  Writers = {"thread", "worker"}
  MaxEntries = 4
  ActionTypes = {"evacuate"}
  Hashes = {"h1", "h2"}
  Levels = {"low", "orange", "red"}
  Callers = {"feed", "desk", "deputy"}
  Allowed <- OneDesk
  MaxProposals = 3
  MaxSimulations = 2
  MaxReconciles = 3
  MaxRestarts = 1
\* Warnings, imports, versions, entries and proposals are bounded: work runs out.
CHECK_DEADLOCK FALSE
INVARIANTS
  ScreeningIsCurrent
  ListedDraftsAreGrounded
  EvidenceHolds
  ChainsBreakByOverlapOnly
  QueueIsOrderly
  ApprovalsAreCarriedOut
PROPERTIES
  CommandersPrevail
