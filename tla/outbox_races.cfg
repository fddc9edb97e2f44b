\* A request thread, the worker and the external service race on one message;
\* the task may change meanwhile and handlers fail.
SPECIFICATION FairSpec
INVARIANTS TypeOK SentHasReceipt CallbacksMergedByKey
PROPERTIES QueuedIsProcessed
CHECK_DEADLOCK FALSE
CONSTANTS
    Messages <- OneMessage
    Threads = {t1}
    Worker = worker
    Scenarios <- RaceScenarios
    ExternalKeys = {e1}
    Versions = {1}
    MaxBatch = 1
    MaxCrashes = 2
