\* A delivery in the hands of two overlapping runs, with other limits each.
SPECIFICATION Spec
CONSTANTS
    Deliveries = {d}
    Workers = {w1, w2}
    Limits = {2, 3}
    MaxAttempts = 3
    BatchSize = 1
    MaxCrashes = 2
    None = None
INVARIANTS AttemptIsOneRuns
PROPERTIES KeepsPromise
CHECK_DEADLOCK FALSE
