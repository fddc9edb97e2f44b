\* One request thread and the worker: deadlines pass, extensions are granted,
\* the worker escalates.
SPECIFICATION FairSpec
PROPERTIES OverdueIsHandled
CHECK_DEADLOCK FALSE
CONSTANTS
    Handlers <- DeadlineHandlers
    Identities <- Deciders
    Tasks = {a}
    Threads = {t1}
    Contents = {good}
    Sound = {good}
    Reports = {done}
    Covers <- AllCovered
    Extensions = {x}
    Proposals <- OneProposal
    MaxVersion = 1
    MaxAssignments = 0
    MaxFeedback = 1
    MaxClock = 3
    Worker = worker
    NoOne = nobody
    rita = rita
    carl = carl
    fred = fred
    nobody = nobody
    good = good
    bad = bad
    done = done
    CategoryOf <- MCCategoryOf
    Due <- MCDue
