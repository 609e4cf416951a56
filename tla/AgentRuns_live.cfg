SPECIFICATION FairSpec
CONSTANTS
    Workers = {w1}
    Handlers = {h1}
    NoWorker = NoWorker
    MaxRuns = 2
    MaxIntents = 1
    MaxFaults = 1
    SessionMayEnd = FALSE
PROPERTIES
    RunsEnd
    QuestionsClose
