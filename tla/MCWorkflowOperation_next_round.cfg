\* One request, without faults, that reflects ahead of a next round.
SPECIFICATION Spec
CONSTANTS
    Kinds <- NextRound
    Requests = {r1}
    Creator = creator
    Deployments <- Production
    MaxFaults = 0
    Watching = FALSE
    MaxReconnects = 1
INVARIANTS
    MaintenanceClosesTruthfully
\* Every request may be done.
CHECK_DEADLOCK FALSE
