\* Two requests at a time on two threads of one session.
SPECIFICATION Spec
CONSTANTS
    Threads = {t1, t2}
    Requests = {r1, r2}
    Clients = {c1}
    MaxMessages = 3
    MaxReads = 3
    None = None
SYMMETRY ChatSymmetry
INVARIANTS
    ThreadInv
    RepeatsAreHarmless
PROPERTIES
    OverStaysOver
\* The bounds end every execution.
CHECK_DEADLOCK FALSE
