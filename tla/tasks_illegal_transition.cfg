\* Two threads: an editor's stale save overwrites an issued task (violated).
SPECIFICATION Spec
PROPERTIES GuardedTransitions
CHECK_DEADLOCK FALSE
CONSTANTS
    Handlers <- Drafting
    Identities <- Deciders
    Tasks = {a}
    Threads = {t1, t2}
    Contents = {good}
    Sound = {good}
    Reports = {}
    Covers <- AllCovered
    Extensions = {}
    Proposals = {}
    MaxVersion = 2
    MaxAssignments = 0
    MaxFeedback = 0
    MaxClock = 1
    Worker = worker
    NoOne = nobody
    rita = rita
    carl = carl
    fred = fred
    nobody = nobody
    good = good
    bad = bad
    done = done
    CategoryOf <- MCCategoryOf
    Due <- MCDue
