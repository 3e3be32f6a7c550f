\* An owner, a duplicate and a conflicting request of one token, and requests
\* without one; no symmetry, which liveness checking does not allow.
CONSTANTS
    Requests = {r1, r2, r3}
    Tokens = {t1}
    Contents = {c1, c2}
    NoToken = NoToken
    NoContent = NoContent
    NoRun = NoRun
SPECIFICATION FairSpec
INVARIANTS
    OneExecutionPerToken
    BoundRunIsOver
    SameTokenSameAnswer
    ReservationInv
PROPERTIES
    ImplementsLogical
    EveryRequestIsAnswered
\* Every request may have been answered.
CHECK_DEADLOCK FALSE
