SPECIFICATION Spec
CONSTANTS
    Clients = {c1, c2}
    Pages = {p1}
    Values = {v1, v2}
    Unspecified = Unspecified
    Nullopt = Nullopt
    MaxBatch = 2
    MaxPromises = 3
    DiskThrows = TRUE
CHECK_DEADLOCK FALSE
INVARIANTS ReadsAsScheduled PromisesKept
PROPERTIES EveryRequestAnswered DestructorReturns
