\* One handler at a time on two messages, every gateway scenario, failures.
SPECIFICATION Spec
INVARIANTS DeliveryIsAccounted
PROPERTIES KeepsPromise
CHECK_DEADLOCK FALSE
CONSTANTS
    Messages <- TwoMessages
    Threads = {t1}
    Worker = t1
    Scenarios <- AllScenarios
    ExternalKeys = {e1}
    Versions = {1, 3}
    MaxBatch = 2
    MaxCrashes = 1
