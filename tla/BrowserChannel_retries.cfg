SPECIFICATION FairSpec
CONSTANTS
    Runs = {r1}
    Intents = {open}
    Opens = {open}
    Polls = {p1, p2}
    Lettings = {l1, l2}
    NoOne = NoOne
    HaltedMemory = 1
    ReportedCap = 1
    MaxTries = 2
    MaxFaults = 2
INVARIANTS
    HaltedRunsHoldNothing
    EvidenceIsOfOneAct
PROPERTIES
    KeepsThePromise
    EveryDispatchIsAnswered
