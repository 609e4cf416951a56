SPECIFICATION RecordsSpec
CONSTANTS
    Grace = 3
    Interval = 1
    Tolerance = 2
    Naps = {1, 4}
    MaxTime = 8
    MaxSessions = 2
    Sites = {s1}
    Flushers = {a, b}
    MaxSignals = 2
    MaxSittings = 1
    MaxChanges = 1
    MaxFaults = 1
    Threads = {t1}
    MaxShown = 3
    MaxBuffers = 1
    MaxDeclines = 1
    Projects = {p1, p2}
    First = p1
    NoProject = NoProject
    Callers = {a, b}
    MaxContracts = 3
    MaxClicks = 3
    Headings = {"h"}
    Windows = {a, b}
    MaxVersions = 3
    MaxProposed = 2
    Halves = {worker}
    MaxEnds = 3
    Lines = {l1}
    NoLine = NoLine
    Decisions = {d1}
    Passes = {a, b}
    Feeds = {app}
    Texts = {"words"}
    MaxUpdates = 2
    MaxAge = 1
    Pages <- MCPages
    Bases <- MCBases
    Prose <- MCProse
    Edits <- MCEdits
SYMMETRY Symmetry
INVARIANTS
    RatifiedForItsProject
CHECK_DEADLOCK FALSE
