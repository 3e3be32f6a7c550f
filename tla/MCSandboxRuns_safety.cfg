SPECIFICATION Spec
CONSTANTS
    c1 = c1
    Names = {c1}
    Blank = Blank
    Number = Number
    Verdicts <- MCVerdicts
    Lines <- MCLines
    Events <- MCEvents
    MaxEvents = 2
    MaxFaults = 1
INVARIANTS
    VerdictInv
    SupervisorAgrees
    BlameIsRight
    NoStrandedSandbox
PROPERTY
    RunsEnd
\* A run ends.
CHECK_DEADLOCK FALSE
