\* Three requests race under one idempotency key; reservations expire, processes stop.
SPECIFICATION Spec
INVARIANTS TypeOK ExecutedOnce StoredOutcomeStays ReplaysAreOriginal
CHECK_DEADLOCK FALSE
CONSTANTS
    Threads = {t1, t2, t3}
    Keys = {k1}
    Bodies = {b1, b2}
    MaxAttempts = 3
