SPECIFICATION Spec
CONSTANTS
    s1 = s1
    s2 = s2
    Stages = {s1, s2}
    Checks = {check}
    Profiles <- MCProfiles
    Provider <- MCProvider
    Source <- MCSource
    Retries <- MCRetries
    Keyed = {"luna", "claude", "flash"}
    Native = {"luna"}
    Routes <- MCRoutes
    Limit = 2
    Ttl = 1
    MaxBusy = 2
    MaxNow = 1
    MaxReported = 1
    MaxFaults = 1
INVARIANTS
    TypeOK
    PacketsGoWhereAllowed
    OpenIsAccounted
PROPERTIES
    CooldownKept

CHECK_DEADLOCK FALSE
SYMMETRY Symmetry
