\* The two requests of a next round, or any two that reflect, generate or cancel, with one
\* fault and every configuration of the server.
SPECIFICATION Spec
CONSTANTS
    Kinds <- NextRound
    Requests = {r1, r2}
    Creator = creator
    Deployments <- Deployment
    MaxFaults = 1
    Watching = FALSE
    MaxReconnects = 1
SYMMETRY RequestSymmetry
INVARIANTS
    EventLogInv
    GenerationFollowsMemory
    GenerationClosesTruthfully
PROPERTIES
    ClosedStaysClosed
\* Every request may be done.
CHECK_DEADLOCK FALSE
