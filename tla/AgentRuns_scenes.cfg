SPECIFICATION ScenesSpec
CONSTANTS
    Workers = {w1}
    Handlers = {h1, h2}
    NoWorker = NoWorker
    MaxRuns = 2
    MaxIntents = 1
    MaxFaults = 2
    SessionMayEnd = TRUE
SYMMETRY Symmetry
INVARIANTS
    OneMover
    AYesIsSpentOnce
    ParkedOnAQuestion
    InFlightIsUnsettled
    TokenFollowsTheRun
PROPERTIES
    StoppedStaysStopped
