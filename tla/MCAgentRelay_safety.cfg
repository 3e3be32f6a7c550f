\* Three calls in flight, each of which may cost the whole budget.
SPECIFICATION RelaySpec
CONSTANTS
    Slots = {c1, c2, c3}
    Ceiling = 2
    MaxUse = 2
SYMMETRY SlotSymmetry
INVARIANTS
    LateCallsAreRefused
    OvershootIsBounded
    PlainAnswersAreCharged
    RelayInv
\* The operation may end before its token is issued.
CHECK_DEADLOCK FALSE
