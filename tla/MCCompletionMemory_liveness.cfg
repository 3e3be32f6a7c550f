\* A completion and daily refreshes save the profile while a tab PATCHes the session; no
\* symmetry, which liveness checking does not allow.
CONSTANTS
    Submissions = {s1}
    Helpers = {h1, h2}
    HelperKinds = {"daily", "tab"}
    Configured = TRUE
    NoSubmission = NoSubmission
SPECIFICATION FairSpec
PROPERTIES
    EveryRefreshEnds
\* Every process may be done.
CHECK_DEADLOCK FALSE
