\* One handler at a time: tasks up to the closing of the event, tasks in execution.
SPECIFICATION StagesSpec
\* Versions, assignments and reports are bounded: work runs out.
CHECK_DEADLOCK FALSE
INVARIANTS
  SettledIsFinal
  HistoriesExplain
  VerifiedIndependently
PROPERTIES
  GuardedTransitions
CONSTANTS
    Handlers <- StageHandlers
    Identities <- People
    Tasks = {draft, order}
    Threads = {t1}
    Worker = t1
    Contents = {good}
    Sound = {good}
    Reports = {done, done2, stuck}
    CategoryOf <- MCCategoryOf
    Covers <- AllCovered
    Due <- MCDue
    Extensions = {}
    Proposals = {}
    MaxVersion = 2
    MaxAssignments = 2
    MaxFeedback = 2
    MaxClock = 2
    NoOne = nobody
    draft = draft
    order = order
    rita = rita
    carl = carl
    fred = fred
    good = good
    done = done
    done2 = done2
    stuck = stuck
