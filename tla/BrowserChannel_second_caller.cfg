SPECIFICATION Spec
CONSTANTS
    Runs = {r1}
    Intents = {first, second}
    Opens = {first, second}
    Polls = {p1}
    Lettings = {l1, l2}
    NoOne = NoOne
    HaltedMemory = 1
    ReportedCap = 1
    MaxTries = 1
    MaxFaults = 1
INVARIANTS
    ASecondCallerReportsNothing
