\* Two submissions, one of them retried, replayed or joined by a daily refresh.
CONSTANTS
    Submissions = {s1, s2}
    Helpers = {h1}
    HelperKinds = {"replay", "maintain", "daily"}
    Configured = TRUE
    NoSubmission = NoSubmission
SYMMETRY Interchangeable
SPECIFICATION Spec
INVARIANTS
    ProfileIsLedger
    SyncedIsRecorded
    MemoryInv
PROPERTIES
    ImplementsLedger
\* Every process may be done.
CHECK_DEADLOCK FALSE
