SPECIFICATION Spec
CONSTANTS
    Workers = {w1, w2}
    Handlers = {h1, h2}
    NoWorker = NoWorker
    MaxRuns = 1
    MaxIntents = 2
    MaxFaults = 1
    SessionMayEnd = TRUE
SYMMETRY Symmetry
INVARIANTS
    ClaimHolds
    OneStepPastAStop
PROPERTIES
    LedgerIsAppendOnly
    NoResurrection
