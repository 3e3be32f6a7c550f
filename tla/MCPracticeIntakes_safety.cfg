\* Two pages, two baselines of one topic with two questions each, and two drafts.
SPECIFICATION Spec
CONSTANTS
    Tabs = {tab1, tab2}
    Records = {i1, i2}
    Questions = {q1, q2}
    MaxDrafts = 2
    None = None
SYMMETRY IntakeSymmetry
INVARIANTS
    IntakeInv
    PagesAreRight
PROPERTIES
    ClosedForGood
\* A page may wait for ids that the bound does not give.
CHECK_DEADLOCK FALSE
