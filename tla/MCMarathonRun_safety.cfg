\* Two rounds of two questions, with one fault and any number of gradings that fail.
SPECIFICATION Spec
CONSTANTS
    a1 = a1
    g1 = g1
    g2 = g2
    Answers = {a1}
    Written = {1}
    Graders = {g1, g2}
    SetSize = 2
    MaxRounds = 2
    MaxSets = 2
    MaxCalls = 2
    MaxAhead = 1
    MaxFaults = 1
INVARIANTS
    RunInv
    OneVerdictPerQuestion
    ExitSavesTheRun
\* A run may be finished.
CHECK_DEADLOCK FALSE
