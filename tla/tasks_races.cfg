\* Two request threads race over the drafting and approval of one task;
\* transactions may fail halfway.
SPECIFICATION Spec
INVARIANTS TypeOK ApprovalIntegrity DispatchIsSound
CHECK_DEADLOCK FALSE
CONSTANTS
    Handlers <- RaceHandlers
    Identities <- Racers
    Tasks = {a}
    Threads = {t1, t2}
    Contents = {good, bad}
    Sound = {good}
    Reports = {}
    Covers = {}
    Extensions = {}
    Proposals = {}
    MaxVersion = 2
    MaxAssignments = 1
    MaxFeedback = 0
    MaxClock = 1
    Worker = worker
    NoOne = nobody
    rita = rita
    carl = carl
    fred = fred
    nobody = nobody
    good = good
    bad = bad
    done = done
    CategoryOf <- MCCategoryOf
    Due <- MCDue
