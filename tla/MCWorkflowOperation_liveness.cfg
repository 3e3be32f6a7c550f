\* One request that reflects, generates or cancels, and a browser whose stream breaks.
SPECIFICATION FairSpec
CONSTANTS
    Kinds <- ReflectionOrProblem
    Requests = {r1}
    Creator = creator
    Deployments <- Deployment
    MaxFaults = 0
    Watching = TRUE
    MaxReconnects = 2
INVARIANTS
    StreamsAreComplete
PROPERTIES
    AttachedOperationsClose
    StreamsEnd
\* Every request may be done.
CHECK_DEADLOCK FALSE
